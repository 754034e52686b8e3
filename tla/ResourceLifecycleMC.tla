------------------------- MODULE ResourceLifecycleMC -------------------------
(***************************************************************************)
(* Instances of ResourceLifecycle for TLC.                                 *)
(***************************************************************************)
EXTENDS ResourceLifecycle, TLC

Symmetry == Permutations(Process)
=============================================================================
