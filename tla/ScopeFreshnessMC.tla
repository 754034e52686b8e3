-------------------------- MODULE ScopeFreshnessMC --------------------------
(***************************************************************************)
(* Instances of ScopeFreshness for TLC.                                    *)
(***************************************************************************)
EXTENDS ScopeFreshness, TLC

Symmetry == Permutations(Process)

\* Every kind of requirement a query can have.
AllRequirements ==
  {[mode |-> "CACHE_ONLY", age |-> 0], [mode |-> "MAX_AGE", age |-> 1],
   [mode |-> "REFRESH_IF_STALE", age |-> 0], [mode |-> "REQUIRE_CURRENT", age |-> 0]}

\* The ones that promise something about the data.
StrictRequirements ==
  {[mode |-> "MAX_AGE", age |-> 1], [mode |-> "REQUIRE_CURRENT", age |-> 0]}
=============================================================================
