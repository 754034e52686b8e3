-------------------------- MODULE ResourceEvidence --------------------------
(***************************************************************************)
(* How one row of the resource table follows the observations made of it   *)
(* (storage/resources.py, sync/lifecycle.py).                              *)
(*                                                                         *)
(* An observation has at least the fields at (the instant it speaks of),   *)
(* run (the synchronization run that made it), status and avail.  The      *)
(* observations of a resource form a sequence in the order of their keys;  *)
(* they may be recorded in another order than that of their instants.      *)
(***************************************************************************)
EXTENDS Integers, Sequences, FiniteSets

\* No code under src/ writes the statuses UNAVAILABLE and REMOVED_CONFIRMED.
Status == {"OBSERVED", "NOT_OBSERVED", "UNKNOWN"}

Availability == {"ACTIVE", "UNAVAILABLE", "UNKNOWN"}  \* of a content item
ResourceAvailability == Availability \cup {"MISSING"}

\* known: the row exists.
Resource == [known : BOOLEAN, avail : ResourceAvailability, first : Nat, last : Nat]
NoResource == [known |-> FALSE, avail |-> "UNKNOWN", first |-> 0, last |-> 0]

After(o, p) == o.at > p.at \/ (o.at = p.at /\ o.run > p.run)

Sightings(obs) == {i \in DOMAIN obs : obs[i].status = "OBSERVED"}
Authoritative(obs) == {i \in DOMAIN obs : obs[i].status # "UNKNOWN"}

\* The members of S a new observation o is not older than.
NotBefore(o, obs, S) == \A i \in S : ~After(obs[i], o)

\* _ensure_resource: whether o becomes the latest sighting.
IsLatest(r, obs, o) ==
  o.status = "OBSERVED" /\ (r.known => NotBefore(o, obs, Sightings(obs)))

Earlier(a, b) == IF a < b THEN a ELSE b

\* Mutant: whatever is recorded last is the latest sighting.
EnsuredLastWins(r, obs, o) ==
  [known |-> TRUE, avail |-> IF o.status = "UNKNOWN" THEN r.avail ELSE o.avail,
   first |-> IF r.known THEN r.first ELSE o.at, last |-> o.at]

\* _ensure_resource: the row once o is recorded through ResourceRepository.
Ensured(r, obs, o) ==
  IF ~r.known
  THEN [known |-> TRUE, avail |-> IF o.status = "UNKNOWN" THEN "UNKNOWN" ELSE o.avail,
        first |-> o.at, last |-> o.at]
  ELSE [r EXCEPT
          !.avail = IF o.status # "UNKNOWN" /\ NotBefore(o, obs, Authoritative(obs))
                    THEN o.avail ELSE @,
          !.last = IF IsLatest(r, obs, o) THEN o.at ELSE @,
          !.first = CASE o.status # "OBSERVED" -> @
                      [] o.status = "OBSERVED" /\ Sightings(obs) = {} -> o.at
                      [] OTHER -> Earlier(@, o.at)]

\* Mutant: an omission is applied whatever is known since.
OmittedAnyway(r, obs, o) == [r EXCEPT !.avail = IF o.status = "NOT_OBSERVED" THEN "MISSING" ELSE @]

\* reconcile: the row once an inventory's o is recorded.  obs includes o.
Omitted(r, obs, o) ==
  [r EXCEPT !.avail = IF /\ o.status = "NOT_OBSERVED"
                         /\ NotBefore(o, obs, Authoritative(obs))
                      THEN "MISSING" ELSE @]
=============================================================================
