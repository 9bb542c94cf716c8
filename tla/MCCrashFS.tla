------------------------------- MODULE MCCrashFS -------------------------------
(***************************************************************************)
(* Instances of CrashFS for TLC.                                           *)
(***************************************************************************)
EXTENDS CrashFS, TLC

CONSTANTS f, g

Symm == Permutations(Names)

\* No call looks at what an earlier one returned.
Kept == <<disk_mounted, fd_table, volume, job, damage>>

================================================================================
