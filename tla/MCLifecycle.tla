---------------------------- MODULE MCLifecycle ------------------------------
(***************************************************************************)
(* Finite instances of Lifecycle. Names are interchangeable, and so are    *)
(* runs: their names and their --keep are chosen in Init.                  *)
(***************************************************************************)
EXTENDS Lifecycle, TLC

Symmetry == Permutations(Runs) \cup Permutations(Names)
=============================================================================
