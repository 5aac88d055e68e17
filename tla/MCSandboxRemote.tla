-------------------------- MODULE MCSandboxRemote ----------------------------
(***************************************************************************)
(* Finite instances of SandboxRemote. Runs are interchangeable.            *)
(***************************************************************************)
EXTENDS SandboxRemote, TLC

RunSymmetry == Permutations(Runs)
=============================================================================
