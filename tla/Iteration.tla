------------------------------ MODULE Iteration ------------------------------
(***************************************************************************)
(* Loops of the C code whose body is one step function.  A loop that runs   *)
(* n times turns the state x into Iterate(f, x)[n]; a loop that breaks out  *)
(* early is written with a step function that is the identity once the      *)
(* break condition holds.  IterationProofs proves the two facts every proof *)
(* about a loop needs: the recursion equation, and that what one step       *)
(* preserves, every number of steps preserves.                              *)
(***************************************************************************)
EXTENDS Naturals

Iterate(f, x) ==
  LET at[n \in Nat] == IF n = 0 THEN x ELSE f[at[n - 1]]
  IN  at

==============================================================================
