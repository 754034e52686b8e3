------------------------- MODULE ResourceLifecycle -------------------------
(***************************************************************************)
(* The lifecycle of one resource and of the content item that lists it:    *)
(* which sightings, fetches and omissions make it ACTIVE, UNAVAILABLE,     *)
(* UNKNOWN or MISSING (sync/lifecycle.py, sync/discovery.py,               *)
(* sync/resources.py, storage/resources.py).                               *)
(*                                                                         *)
(* Several processes synchronize the course.  A run reads the content page *)
(* by page, stores each item, then each resource the item lists, fetches   *)
(* the resources it saw, and only when everything else is done turns the   *)
(* inventory into omissions.  Every write is a transaction of its own,     *)
(* stamped with an instant read before it; an imported capture stamps all  *)
(* it does with the instant it was captured.  A standalone fetch is a run  *)
(* without an inventory.                                                   *)
(***************************************************************************)
EXTENDS ResourceEvidence

CONSTANTS
  Process,  \* processes that synchronize
  Reported, \* the availabilities the source reports of the item
  Captured, \* whether runs that import captures are made
  Solo,     \* whether standalone fetches are made
  MaxRun,   \* bound: synchronization runs
  MaxTime   \* bound: the clock

ASSUME ResourceLifecycleAssumption ==
  /\ Reported \subseteq Availability
  /\ Captured \in BOOLEAN
  /\ Solo \in BOOLEAN
  /\ MaxRun \in Nat
  /\ MaxTime \in Nat

VARIABLES
  resource,     \* the row of the resource
  obs,          \* its observations
  node,         \* the row of the content item
  sync,         \* sync[p]: the run of process p
  readings,     \* history: the readings of the item that were stored
  inventories,  \* history: the complete inventories
  lastRun,      \* the largest sync_run_key handed out
  now

vars == <<resource, obs, node, sync, readings, inventories, lastRun, now>>

Observation == [at : Nat, run : Nat, status : Status, avail : ResourceAvailability]

Node == [known : BOOLEAN, avail : Availability, at : Nat]
NoNode == [known |-> FALSE, avail |-> "UNKNOWN", at |-> 0]
Reading == [at : Nat, avail : Availability]

\* seen: it lists the resource.  blocked: it read the item as unavailable.
Inventory == [at : Nat, run : Nat, seen : BOOLEAN, blocked : BOOLEAN]

\* capture: the instant of the imported capture, 0 in a live run.  solo: a
\* standalone fetch.  at, avail: the stamp of the pending write, and what the
\* item or the fetch says.  held: the evidence of a fetch that rediscovers.
Sync == [phase : {"idle", "scanning", "putting", "observing", "read", "scanned",
                  "resolving", "fetching", "failing", "finishing"},
         run : Nat, capture : Nat, solo : BOOLEAN, at : Nat, avail : Availability,
         held : Reading, seen : BOOLEAN, blocked : BOOLEAN, complete : BOOLEAN]
NoSync == [phase |-> "idle", run |-> 0, capture |-> 0, solo |-> FALSE, at |-> 0,
           avail |-> "UNKNOWN", held |-> [at |-> 0, avail |-> "UNKNOWN"],
           seen |-> FALSE, blocked |-> FALSE, complete |-> FALSE]

TypeOK ==
  /\ resource \in Resource
  /\ obs \in Seq(Observation)
  /\ node \in Node
  /\ sync \in [Process -> Sync]
  /\ readings \subseteq Reading
  /\ inventories \subseteq Inventory
  /\ lastRun \in 0..MaxRun
  /\ now \in Nat

Init ==
  /\ resource = NoResource
  /\ obs = <<>>
  /\ node = NoNode
  /\ sync = [p \in Process |-> NoSync]
  /\ readings = {}
  /\ inventories = {}
  /\ lastRun = 0
  /\ now = 1

\* source_observed_at: a live source answers with the clock.
SourceTime(p) == IF sync[p].capture = 0 THEN now ELSE sync[p].capture
-----------------------------------------------------------------------------
(***************************************************************************)
(* Discovery: the content scope of a run.                                  *)
(***************************************************************************)
\* SyncRunRecorder.start.  A standalone fetch begins by resolving its evidence.
StartRun(p, capture, solo) ==
  /\ sync[p].phase = "idle"
  /\ lastRun < MaxRun
  /\ lastRun' = lastRun + 1
  /\ sync' = [sync EXCEPT ![p] = [NoSync EXCEPT
       !.phase = IF solo THEN "scanned" ELSE "scanning", !.run = lastRun + 1,
       !.capture = capture, !.solo = solo, !.seen = solo]]
  /\ UNCHANGED <<resource, obs, node, readings, inventories, now>>

\* list_content answers with the item; the stamp of its row is taken.
ReadItem(p, a) ==
  /\ sync[p].phase = "scanning"
  /\ sync' = [sync EXCEPT ![p].phase = "putting", ![p].avail = a, ![p].at = SourceTime(p)]
  /\ UNCHANGED <<resource, obs, node, readings, inventories, lastRun, now>>

\* Mutant: the row is overwritten by whoever writes last.
PutLastWins(n, at, a) == [known |-> TRUE, avail |-> a, at |-> at]

\* put_content_node: an older reading leaves the row as it is.
Put(n, at, a) == IF n.known /\ at < n.at THEN n ELSE [known |-> TRUE, avail |-> a, at |-> at]

\* What a run still needs once a write is done.
Cleared(s) == [s EXCEPT !.at = 0, !.avail = "UNKNOWN"]

\* put_content_node commits; lists: whether the item lists the resource.
PutNode(p, lists) ==
  LET s == sync[p] IN
  /\ s.phase = "putting"
  /\ node' = Put(node, s.at, s.avail)
  /\ readings' = readings \cup {[at |-> s.at, avail |-> s.avail]}
  /\ LET next == [s EXCEPT !.blocked = (@ \/ s.avail = "UNAVAILABLE")] IN
     sync' = [sync EXCEPT ![p] =
                IF lists THEN [next EXCEPT !.phase = "observing", !.at = SourceTime(p)]
                ELSE [Cleared(next) EXCEPT !.phase = "read"]]
  /\ UNCHANGED <<resource, obs, inventories, lastRun, now>>

\* An observation recorded through ResourceRepository._record.
Record(o) ==
  /\ resource' = Ensured(resource, obs, o)
  /\ obs' = Append(obs, o)

Noted(p, status) == [at |-> sync[p].at, run |-> sync[p].run, status |-> status,
                     avail |-> sync[p].avail]

\* ResourceRepository.observe, of a resource the item lists.
ObserveResource(p) ==
  /\ sync[p].phase = "observing"
  /\ Record(Noted(p, "OBSERVED"))
  /\ sync' = [sync EXCEPT ![p] = [Cleared(@) EXCEPT !.phase = "read", !.seen = TRUE]]
  /\ UNCHANGED <<node, readings, inventories, lastRun, now>>

Completed(p) == [at |-> SourceTime(p), run |-> sync[p].run, seen |-> sync[p].seen,
                 blocked |-> sync[p].blocked]

\* _content ends, at its end or by an error; the scope result is stamped.
EndScan(p, complete) ==
  LET s == sync[p] IN
  /\ ~s.solo
  /\ s.phase \in {"scanning", "read"} \/ (s.phase \in {"putting", "observing"} /\ ~complete)
  /\ inventories' = IF complete THEN inventories \cup {Completed(p)} ELSE inventories
  /\ sync' = [sync EXCEPT ![p] = [Cleared(@) EXCEPT !.phase = "scanned",
                !.complete = complete, !.at = IF s.seen THEN 0 ELSE SourceTime(p)]]
  /\ UNCHANGED <<resource, obs, node, readings, lastRun, now>>
-----------------------------------------------------------------------------
(***************************************************************************)
(* Fetching the resource, in a run that saw it or on its own.              *)
(***************************************************************************)
\* fetch takes its clock.
BeginFetch(p) ==
  /\ sync[p].phase = "scanned" /\ sync[p].seen
  /\ sync' = [sync EXCEPT ![p].phase = "resolving", ![p].at = SourceTime(p)]
  /\ UNCHANGED <<resource, obs, node, readings, inventories, lastRun, now>>

\* _resolve_evidence: availability is the stored item's.  Without an item the
\* fetch fails and leaves no trace.
ResolveEvidence(p) ==
  /\ sync[p].phase = "resolving"
  /\ sync' = [sync EXCEPT ![p].phase = IF node.known THEN "fetching" ELSE "finishing",
                          ![p].avail = node.avail]
  /\ UNCHANGED <<resource, obs, node, readings, inventories, lastRun, now>>

\* A standalone fetch from a live source first reads the course again.
Rediscover(p) ==
  LET s == sync[p] IN
  /\ s.phase = "fetching" /\ s.solo /\ s.capture = 0 /\ s.held.at = 0
  /\ sync' = [sync EXCEPT ![p].phase = "scanning", ![p].seen = FALSE,
                          ![p].held = [at |-> s.at, avail |-> s.avail]]
  /\ UNCHANGED <<resource, obs, node, readings, inventories, lastRun, now>>

\* The rediscovery found the resource in a complete scan: evidence and clock
\* are taken anew.  Otherwise the fetch fails with those it had.
EndRediscovery(p, complete) ==
  LET s == sync[p]
      found == complete /\ s.seen
  IN
  /\ s.solo
  /\ s.phase \in {"scanning", "read"} \/ (s.phase \in {"putting", "observing"} /\ ~complete)
  /\ sync' = [sync EXCEPT
       ![p].phase = IF found THEN "fetching" ELSE "failing",
       ![p].seen = found,
       ![p].at = IF found THEN SourceTime(p) ELSE s.held.at,
       ![p].avail = IF found THEN node.avail ELSE s.held.avail]
  /\ UNCHANGED <<resource, obs, node, readings, inventories, lastRun, now>>

\* The resource was downloaded, or the policy found that it need not be.
RecordFetch(p) ==
  /\ sync[p].phase = "fetching"
  /\ Record(Noted(p, "OBSERVED"))
  /\ sync' = [sync EXCEPT ![p] = [Cleared(@) EXCEPT !.phase = "finishing"]]
  /\ UNCHANGED <<node, readings, inventories, lastRun, now>>

\* _failed: the failure is an observation of unknown status, if it is stored.
FailFetch(p) ==
  /\ sync[p].phase \in {"fetching", "failing"}
  /\ Record(Noted(p, "UNKNOWN")) \/ UNCHANGED <<resource, obs>>
  /\ sync' = [sync EXCEPT ![p] = [Cleared(@) EXCEPT !.phase = "finishing"]]
  /\ UNCHANGED <<node, readings, inventories, lastRun, now>>
-----------------------------------------------------------------------------
(***************************************************************************)
(* ResourceInventoryReconciler.reconcile, at the very end of a run.        *)
(***************************************************************************)
\* Mutant: what an incomplete inventory left out is missing.
CanMarkAnything(p) == node.avail # "UNAVAILABLE"

CanMarkMissing(p) == sync[p].complete /\ node.avail # "UNAVAILABLE"

\* Mutant: the availability is stored as the status.
OmissionMixed(p) ==
  [at |-> sync[p].at, run |-> sync[p].run,
   status |-> IF CanMarkMissing(p) THEN "MISSING" ELSE "UNKNOWN", avail |-> resource.avail]

Omission(p) ==
  [at |-> sync[p].at, run |-> sync[p].run,
   status |-> IF CanMarkMissing(p) THEN "NOT_OBSERVED" ELSE "UNKNOWN",
   avail |-> IF CanMarkMissing(p) THEN "MISSING" ELSE resource.avail]

\* _append_resource_observation writes once per resource and run.
Unnoted(p) == \A i \in DOMAIN obs : obs[i].run = sync[p].run => obs[i].status = "OBSERVED"

Reconcile(p) ==
  /\ sync[p].phase \in {"scanned", "finishing"} /\ ~sync[p].solo
  /\ IF resource.known /\ ~sync[p].seen /\ Unnoted(p)
     THEN /\ obs' = Append(obs, Omission(p))
          /\ resource' = Omitted(resource, obs', Omission(p))
     ELSE UNCHANGED <<resource, obs>>
  /\ sync' = [sync EXCEPT ![p] = NoSync]
  /\ UNCHANGED <<node, readings, inventories, lastRun, now>>

EndSolo(p) ==
  /\ sync[p].phase = "finishing" /\ sync[p].solo
  /\ sync' = [sync EXCEPT ![p] = NoSync]
  /\ UNCHANGED <<resource, obs, node, readings, inventories, lastRun, now>>

\* The process dies, or an error makes the engine give up the run: what was
\* committed stays, and the inventory is never applied.
Abandon(p) ==
  /\ sync[p].phase # "idle"
  /\ sync' = [sync EXCEPT ![p] = NoSync]
  /\ UNCHANGED <<resource, obs, node, readings, inventories, lastRun, now>>

Tick ==
  /\ now < MaxTime
  /\ now' = now + 1
  /\ UNCHANGED <<resource, obs, node, sync, readings, inventories, lastRun>>

Captures == IF Captured THEN 0..now ELSE {0}

Next ==
  \/ \E p \in Process :
       \/ \E c \in Captures, solo \in {FALSE, Solo} : StartRun(p, c, solo)
       \/ \E a \in Reported : ReadItem(p, a)
       \/ \E lists \in BOOLEAN : PutNode(p, lists)
       \/ ObserveResource(p)
       \/ \E complete \in BOOLEAN : EndScan(p, complete)
       \/ BeginFetch(p)
       \/ ResolveEvidence(p)
       \/ Rediscover(p)
       \/ \E complete \in BOOLEAN : EndRediscovery(p, complete)
       \/ RecordFetch(p)
       \/ FailFetch(p)
       \/ Reconcile(p)
       \/ EndSolo(p)
       \/ Abandon(p)
  \/ Tick

Spec == Init /\ [][Next]_vars
-----------------------------------------------------------------------------
\* The newest of the observations S: by instant, run and key.
Newest(S) ==
  CHOOSE i \in S : \A j \in S : ~After(obs[j], obs[i]) /\ (After(obs[i], obs[j]) \/ j <= i)

\* However late a sighting, a fetch or an omission is recorded, the resource is
\* what the newest authoritative observation of it says, and UNKNOWN while
\* there is none: a failed fetch or an incomplete inventory never changes it
\* (_ensure_resource, reconcile; "evidence ordering protects against delayed
\* reads and delayed inventories", capability-ledger.md:89).
AvailabilityFollowsEvidence ==
  resource.avail = IF Authoritative(obs) = {} THEN "UNKNOWN"
                   ELSE obs[Newest(Authoritative(obs))].avail

\* first_observed_at and last_observed_at span the sightings whatever the order
\* they were recorded in, and failed fetches and omissions do not move them.
WindowSpansSightings ==
  Sightings(obs) # {} =>
    /\ \A i \in Sightings(obs) : resource.first <= obs[i].at /\ obs[i].at <= resource.last
    /\ \E i, j \in Sightings(obs) : obs[i].at = resource.first /\ obs[j].at = resource.last

\* A resource is MISSING only because a complete inventory did not list it and
\* it has not been seen since: not because a run died, was cut short, failed to
\* fetch it, or finished late.
MissingMeansOmitted ==
  resource.avail = "MISSING" =>
    \E v \in inventories :
      /\ ~v.seen
      /\ \A i \in Sightings(obs) : ~After(obs[i], v)

\* The item is as the newest reading of it says, whichever run stored it last.
ItemFollowsReadings ==
  node.known =>
    /\ \E r \in readings : r.at = node.at /\ r.avail = node.avail
    /\ \A r \in readings : r.at <= node.at

\* "Resource omissions are inferred only from complete comparable inventories,
\* never from partial traversal or inaccessible parents"
\* (capability-ledger.md:88): an inventory that read the item as unavailable
\* does not make a resource the item did not list MISSING.
OmissionsHaveAccessibleParent ==
  resource.avail = "MISSING" => \E v \in inventories : ~v.seen /\ ~v.blocked
=============================================================================
