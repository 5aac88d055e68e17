--------------------------- MODULE MCQuotaWindow ----------------------------
(***************************************************************************)
(* Finite instances of QuotaWindow. The handlers are interchangeable.      *)
(***************************************************************************)
EXTENDS QuotaWindow, TLC

HandlerSymmetry == Permutations(Handlers)
=============================================================================
