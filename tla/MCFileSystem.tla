----------------------------- MODULE MCFileSystem -----------------------------
(***************************************************************************)
(* Instances of FileSystem, and of its refinement of FileStore, for TLC.    *)
(***************************************************************************)
EXTENDS StoreRefinement, TLC

CONSTANTS f, g

Symm == Permutations(Names)
Swaps == Permutations(Versions)

\* No call looks at what an earlier one returned.  In a run whose properties do not
\* look at it either (but for TypeOK, which asks that the code is an integer), states
\* that differ in result alone are one.
Kept == <<disk_mounted, fd_table, volume>>

================================================================================
