------------------------------- MODULE MCTestFs -------------------------------
(***************************************************************************)
(* Instances of TestFs for TLC.                                            *)
(***************************************************************************)
EXTENDS TestFs, TLC

CONSTANTS f, g

Symm == Permutations(Names)

\* The only answer anything looks at later is the one to cat's fs_read.
Kept == <<disk_mounted, fd_table, volume, proc, IF At("close") THEN result ELSE Null>>

================================================================================
