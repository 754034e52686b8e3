---------------------------- MODULE SearchIndexMC ----------------------------
(* Instances of SearchIndex for TLC: a course with one resource, parsed by an  *)
(* old release that reads a part of it or does not know its format, and by a   *)
(* new one that reads all of it or fails.                                      *)
EXTENDS SearchIndex, TLC

CONSTANTS c1, r1, old, new, words, p1, p2

MCCourseOf == (r1 :> c1)
MCOutcome == (old :> {"PARTIAL", "UNSUPPORTED"}) @@ (new :> {"COMPLETE", "FAILED"})
Symmetry == Permutations({p1, p2})
=============================================================================
