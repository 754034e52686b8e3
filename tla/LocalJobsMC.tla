----------------------------- MODULE LocalJobsMC -----------------------------
(***************************************************************************)
(* Instances of LocalJobs for TLC.                                         *)
(***************************************************************************)
EXTENDS LocalJobs, TLC

Symmetry == Permutations(Process)
=============================================================================
