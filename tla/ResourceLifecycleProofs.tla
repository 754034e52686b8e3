----------------------- MODULE ResourceLifecycleProofs -----------------------
(***************************************************************************)
(* The lifecycle for every value of the constants: any number of           *)
(* processes, runs and captures, in any order.                             *)
(***************************************************************************)
EXTENDS ResourceLifecycle, ResourceEvidenceProofs

(***************************************************************************)
(* Typing: a row exists once there is an observation.                      *)
(***************************************************************************)
Typed ==
  /\ TypeOK
  /\ resource.known <=> obs # <<>>
  /\ ~resource.known => resource.avail = "UNKNOWN"

\* The runs are typed.
LEMMA NoSyncTyped == NoSync \in Sync
  BY DEF NoSync, Sync, Reading, Availability

LEMMA SyncUpdates ==
  ASSUME NEW s \in Sync, NEW ph, [s EXCEPT !.phase = ph] \in Sync,
         NEW t \in Nat, NEW a \in Availability, NEW b \in BOOLEAN
  PROVE  /\ [s EXCEPT !.phase = ph, !.avail = a, !.at = t] \in Sync
         /\ [s EXCEPT !.phase = ph, !.at = t] \in Sync
         /\ [s EXCEPT !.phase = ph, !.avail = a] \in Sync
         /\ [s EXCEPT !.blocked = b, !.phase = ph, !.at = t] \in Sync
         /\ [s EXCEPT !.blocked = b, !.at = 0, !.avail = "UNKNOWN", !.phase = ph] \in Sync
         /\ [s EXCEPT !.at = 0, !.avail = "UNKNOWN", !.phase = ph, !.seen = b] \in Sync
         /\ [s EXCEPT !.at = 0, !.avail = "UNKNOWN", !.phase = ph] \in Sync
         /\ [s EXCEPT !.at = 0, !.avail = "UNKNOWN", !.phase = ph, !.complete = b,
                      !.at = t] \in Sync
         /\ [s EXCEPT !.phase = ph, !.seen = b, !.at = t, !.avail = a] \in Sync
         /\ \A h \in Reading : [s EXCEPT !.phase = ph, !.seen = b, !.held = h] \in Sync
  BY DEF Sync, Availability

LEMMA SourceTimeNat ==
  ASSUME TypeOK, NEW p \in Process
  PROVE  SourceTime(p) \in Nat
  BY DEF SourceTime, TypeOK, Sync

\* A run that applies an inventory without the resource is one whose complete
\* inventory is on record: runs that fetch have seen the resource.
Ready(s, invs) ==
  /\ s \in Sync
  /\ ~s.solo /\ s.phase \in {"resolving", "fetching", "failing", "finishing"} => s.seen
  /\ ~s.solo /\ s.phase = "scanned" /\ s.complete /\ ~s.seen =>
       \E v \in invs : v.at = s.at /\ v.run = s.run /\ ~v.seen

AllReady == \A p \in Process : Ready(sync[p], inventories)

\* Each step of a run takes it to a state that is ready again.
Moves(p) == \E g \in Sync : sync' = [sync EXCEPT ![p] = g] /\ Ready(g, inventories')

LEMMA MovesDiscovery ==
  ASSUME Typed, AllReady, NEW p \in Process,
         \/ \E c \in Captures, solo \in {FALSE, Solo} : StartRun(p, c, solo)
         \/ \E a \in Reported : ReadItem(p, a)
         \/ \E lists \in BOOLEAN : PutNode(p, lists)
         \/ ObserveResource(p)
         \/ \E complete \in BOOLEAN : EndScan(p, complete)
  PROVE  Moves(p)
  <1>1. sync \in [Process -> Sync] /\ sync[p] \in Sync /\ SourceTime(p) \in Nat
        /\ sync[p].at \in Nat /\ sync[p].avail \in Availability
    BY SourceTimeNat DEF Typed, TypeOK, Sync
  <1>2. ASSUME NEW c \in Captures, NEW solo \in {FALSE, Solo}, StartRun(p, c, solo)
        PROVE  Moves(p)
    <2> DEFINE ph == IF solo THEN "scanned" ELSE "scanning"
               g == [NoSync EXCEPT !.phase = ph, !.run = lastRun + 1, !.capture = c,
                                   !.solo = solo, !.seen = solo]
    <2>0. solo \in BOOLEAN
      BY ResourceLifecycleAssumption, Zenon
    <2>1. c \in Nat /\ solo \in BOOLEAN /\ lastRun + 1 \in Nat
      BY <2>0 DEF Captures, Typed, TypeOK
    <2>2. g \in Sync
      BY <2>1, NoSyncTyped DEF Sync
    <2>3. g.solo = solo /\ g.phase = ph /\ sync' = [sync EXCEPT ![p] = g]
      BY <1>2 DEF NoSync, StartRun
    <2> HIDE DEF g
    <2> QED
      BY <2>2, <2>3 DEF Moves, Ready
  <1>3. ASSUME NEW a \in Reported, ReadItem(p, a)
        PROVE  Moves(p)
    <2> DEFINE g == [sync[p] EXCEPT !.phase = "putting", !.avail = a, !.at = SourceTime(p)]
    <2>1. a \in Availability /\ [sync[p] EXCEPT !.phase = "putting"] \in Sync
      BY <1>1, ResourceLifecycleAssumption DEF Sync
    <2>2. g \in Sync
      BY <1>1, <2>1, SyncUpdates
    <2>3. g.phase = "putting" /\ sync' = [sync EXCEPT ![p] = g]
      BY <1>1, <1>3 DEF Sync, ReadItem
    <2> HIDE DEF g
    <2> QED
      BY <2>2, <2>3 DEF Moves, Ready
  <1>4. ASSUME NEW lists \in BOOLEAN, PutNode(p, lists)
        PROVE  Moves(p)
    <2> DEFINE b == sync[p].blocked \/ sync[p].avail = "UNAVAILABLE"
               g == [sync[p] EXCEPT !.blocked = b, !.phase = "observing", !.at = SourceTime(p)]
               h == [sync[p] EXCEPT !.blocked = b, !.at = 0, !.avail = "UNKNOWN",
                                    !.phase = "read"]
    <2>1. /\ b \in BOOLEAN /\ [sync[p] EXCEPT !.phase = "observing"] \in Sync
          /\ [sync[p] EXCEPT !.phase = "read"] \in Sync
      BY <1>1 DEF Sync
    <2>2. g \in Sync /\ h \in Sync
      BY <1>1, <2>1, SyncUpdates
    <2>3. g.phase = "observing" /\ h.phase = "read"
      BY <1>1 DEF Sync
    <2>4. sync' = [sync EXCEPT ![p] = IF lists THEN g ELSE h]
      BY <1>4 DEF PutNode, Cleared
    <2> HIDE DEF g, h, b
    <2> QED
      BY <2>2, <2>3, <2>4 DEF Moves, Ready
  <1>5. ASSUME ObserveResource(p)
        PROVE  Moves(p)
    <2> DEFINE g == [sync[p] EXCEPT !.at = 0, !.avail = "UNKNOWN", !.phase = "read",
                                    !.seen = TRUE]
    <2>1. [sync[p] EXCEPT !.phase = "read"] \in Sync
      BY <1>1 DEF Sync
    <2>2. g \in Sync
      BY <1>1, <2>1, SyncUpdates
    <2>3. g.phase = "read" /\ sync' = [sync EXCEPT ![p] = g]
      BY <1>1, <1>5 DEF Sync, ObserveResource, Cleared
    <2> HIDE DEF g
    <2> QED
      BY <2>2, <2>3 DEF Moves, Ready
  <1>6. ASSUME NEW complete \in BOOLEAN, EndScan(p, complete)
        PROVE  Moves(p)
    <2> DEFINE t == IF sync[p].seen THEN 0 ELSE SourceTime(p)
               g == [sync[p] EXCEPT !.at = 0, !.avail = "UNKNOWN", !.phase = "scanned",
                                    !.complete = complete, !.at = t]
               v == Completed(p)
    <2>1. [sync[p] EXCEPT !.phase = "scanned"] \in Sync /\ t \in Nat
      BY <1>1 DEF Sync
    <2>2. sync' = [sync EXCEPT ![p] = g] /\ (complete => v \in inventories')
      BY <1>6 DEF EndScan, Cleared
    <2>3. ~sync[p].seen => v.at = t /\ v.run = sync[p].run /\ ~v.seen
      BY DEF Completed
    <2> HIDE DEF t, v
    <2>4. g \in Sync
      BY <1>1, <2>1, SyncUpdates
    <2>5. /\ g.phase = "scanned" /\ g.complete = complete /\ g.seen = sync[p].seen
          /\ g.at = t /\ g.run = sync[p].run
      BY <1>1 DEF Sync
    <2> HIDE DEF g
    <2> QED
      BY <2>2, <2>3, <2>4, <2>5 DEF Moves, Ready
  <1> QED
    BY <1>2, <1>3, <1>4, <1>5, <1>6

LEMMA MovesFetch ==
  ASSUME Typed, AllReady, NEW p \in Process,
         \/ BeginFetch(p)
         \/ ResolveEvidence(p)
         \/ Rediscover(p)
         \/ \E complete \in BOOLEAN : EndRediscovery(p, complete)
         \/ RecordFetch(p)
         \/ FailFetch(p)
         \/ Reconcile(p)
         \/ EndSolo(p)
         \/ Abandon(p)
  PROVE  Moves(p)
  <1>1. /\ sync \in [Process -> Sync] /\ sync[p] \in Sync /\ SourceTime(p) \in Nat
        /\ sync[p].at \in Nat /\ sync[p].avail \in Availability /\ node.avail \in Availability
        /\ sync[p].held \in Reading /\ sync[p].seen \in BOOLEAN /\ sync[p].solo \in BOOLEAN
    BY SourceTimeNat DEF Typed, TypeOK, Sync, Node
  <1>2. Ready(sync[p], inventories)
    BY DEF AllReady
  <1>3. ASSUME BeginFetch(p)
        PROVE  Moves(p)
    <2> DEFINE g == [sync[p] EXCEPT !.phase = "resolving", !.at = SourceTime(p)]
    <2>1. [sync[p] EXCEPT !.phase = "resolving"] \in Sync
      BY <1>1 DEF Sync
    <2>2. g \in Sync
      BY <1>1, <2>1, SyncUpdates
    <2>3. /\ g.phase = "resolving" /\ g.seen = sync[p].seen /\ sync[p].seen
          /\ sync' = [sync EXCEPT ![p] = g]
      BY <1>1, <1>3 DEF Sync, BeginFetch
    <2> HIDE DEF g
    <2> QED
      BY <2>2, <2>3 DEF Moves, Ready
  <1>4. ASSUME ResolveEvidence(p)
        PROVE  Moves(p)
    <2> DEFINE ph == IF node.known THEN "fetching" ELSE "finishing"
               g == [sync[p] EXCEPT !.phase = ph, !.avail = node.avail]
    <2>1. [sync[p] EXCEPT !.phase = ph] \in Sync /\ ph \in {"fetching", "finishing"}
      BY <1>1 DEF Sync
    <2>2. sync' = [sync EXCEPT ![p] = g] /\ sync[p].phase = "resolving"
      BY <1>4 DEF ResolveEvidence
    <2> HIDE DEF ph
    <2>3. g \in Sync
      BY <1>1, <2>1, SyncUpdates
    <2>4. g.phase = ph /\ g.seen = sync[p].seen /\ g.solo = sync[p].solo
      BY <1>1 DEF Sync
    <2> HIDE DEF g
    <2> QED
      BY <1>2, <2>1, <2>2, <2>3, <2>4 DEF Moves, Ready
  <1>5. ASSUME Rediscover(p)
        PROVE  Moves(p)
    <2> DEFINE h == [at |-> sync[p].at, avail |-> sync[p].avail]
               g == [sync[p] EXCEPT !.phase = "scanning", !.seen = FALSE, !.held = h]
    <2>1. [sync[p] EXCEPT !.phase = "scanning"] \in Sync /\ h \in Reading
      BY <1>1 DEF Sync, Reading
    <2>2. sync' = [sync EXCEPT ![p] = g]
      BY <1>5 DEF Rediscover
    <2> HIDE DEF h
    <2>3. g \in Sync
      BY <1>1, <2>1, SyncUpdates
    <2>4. g.phase = "scanning"
      BY <1>1 DEF Sync
    <2> HIDE DEF g
    <2> QED
      BY <2>2, <2>3, <2>4 DEF Moves, Ready
  <1>6. ASSUME NEW complete \in BOOLEAN, EndRediscovery(p, complete)
        PROVE  Moves(p)
    <2> DEFINE found == complete /\ sync[p].seen
               ph == IF found THEN "fetching" ELSE "failing"
               t == IF found THEN SourceTime(p) ELSE sync[p].held.at
               a == IF found THEN node.avail ELSE sync[p].held.avail
               g == [sync[p] EXCEPT !.phase = ph, !.seen = found, !.at = t, !.avail = a]
    <2>1. /\ [sync[p] EXCEPT !.phase = ph] \in Sync /\ found \in BOOLEAN
          /\ t \in Nat /\ a \in Availability
      BY <1>1 DEF Sync, Reading
    <2>2. sync' = [sync EXCEPT ![p] = g] /\ sync[p].solo
      BY <1>6 DEF EndRediscovery
    <2> HIDE DEF found, ph, t, a
    <2>3. g \in Sync
      BY <1>1, <2>1, SyncUpdates
    <2>4. g.solo = sync[p].solo
      BY <1>1 DEF Sync
    <2> HIDE DEF g
    <2> QED
      BY <2>2, <2>3, <2>4 DEF Moves, Ready
  <1>7. ASSUME RecordFetch(p) \/ FailFetch(p)
        PROVE  Moves(p)
    <2> DEFINE g == [sync[p] EXCEPT !.at = 0, !.avail = "UNKNOWN", !.phase = "finishing"]
    <2>1. [sync[p] EXCEPT !.phase = "finishing"] \in Sync
      BY <1>1 DEF Sync
    <2>2. g \in Sync
      BY <1>1, <2>1, SyncUpdates
    <2>3. /\ g.phase = "finishing" /\ g.seen = sync[p].seen /\ g.solo = sync[p].solo
          /\ sync' = [sync EXCEPT ![p] = g] /\ sync[p].phase \in {"fetching", "failing"}
      BY <1>1, <1>7 DEF Sync, RecordFetch, FailFetch, Cleared
    <2> HIDE DEF g
    <2> QED
      BY <1>2, <2>2, <2>3 DEF Moves, Ready
  <1>8. ASSUME Reconcile(p) \/ EndSolo(p) \/ Abandon(p)
        PROVE  Moves(p)
    <2>1. sync' = [sync EXCEPT ![p] = NoSync] /\ NoSync.phase = "idle"
      BY <1>8 DEF Reconcile, EndSolo, Abandon, NoSync
    <2> QED
      BY <2>1, NoSyncTyped DEF Moves, Ready
  <1> QED
    BY <1>3, <1>4, <1>5, <1>6, <1>7, <1>8
-----------------------------------------------------------------------------
(***************************************************************************)
(* Evidence.  What a step that records an observation o does to the row.   *)
(***************************************************************************)
\* A complete inventory that does not list the resource.
Omits(o, invs) == \E v \in invs : v.at = o.at /\ v.run = o.run /\ ~v.seen

Records(o) ==
  /\ o \in Observation /\ obs' = Append(obs, o)
  /\ resource' \in Resource /\ resource'.known
  /\ resource'.avail = IF o.status # "UNKNOWN" /\ NotBefore(o, obs, Authoritative(obs))
                       THEN o.avail ELSE resource.avail
  /\ o.status # "UNKNOWN" /\ o.avail = "MISSING" =>
       o.status = "NOT_OBSERVED" /\ Omits(o, inventories)
  /\ o.status # "OBSERVED" =>
       \/ obs = <<>>
       \/ resource'.first = resource.first /\ resource'.last = resource.last
  /\ o.status = "OBSERVED" =>
       /\ resource'.first = IF Sightings(obs) = {} THEN o.at ELSE Earlier(resource.first, o.at)
       /\ resource'.last = IF NotBefore(o, obs, Sightings(obs)) THEN o.at ELSE resource.last

LEMMA RecordRecords ==
  ASSUME Typed, NEW o \in Observation, o.avail \in Availability, Record(o)
  PROVE  Records(o)
  <1>1. resource \in Resource /\ o.at \in Nat /\ o.avail \in ResourceAvailability
        /\ o.avail # "MISSING"
    BY DEF Typed, TypeOK, Observation, Availability
  <1>2. /\ resource' = Ensured(resource, obs, o) /\ obs' = Append(obs, o)
        /\ resource' \in Resource /\ resource'.known
    BY <1>1, EnsuredKnown DEF Record
  <1>3. CASE ~resource.known
    <2>1. obs = <<>> /\ resource.avail = "UNKNOWN"
      BY <1>3 DEF Typed
    <2>2. Authoritative(obs) = {} /\ Sightings(obs) = {}
      BY <2>1 DEF Authoritative, Sightings
    <2>3. /\ resource'.avail = IF o.status = "UNKNOWN" THEN "UNKNOWN" ELSE o.avail
          /\ resource'.first = o.at /\ resource'.last = o.at
      BY <1>1, <1>2, <1>3, EnsuredRow
    <2> QED
      BY <1>1, <1>2, <2>1, <2>2, <2>3 DEF Records, NotBefore
  <1>4. CASE resource.known
    <2>1. /\ resource'.avail = IF o.status # "UNKNOWN" /\ NotBefore(o, obs, Authoritative(obs))
                               THEN o.avail ELSE resource.avail
          /\ resource'.last = IF IsLatest(resource, obs, o) THEN o.at ELSE resource.last
          /\ o.status # "OBSERVED" => resource'.first = resource.first
          /\ o.status = "OBSERVED" =>
               resource'.first = IF Sightings(obs) = {} THEN o.at
                                 ELSE Earlier(resource.first, o.at)
      BY <1>1, <1>2, <1>4, EnsuredRow
    <2>2. IsLatest(resource, obs, o) <=>
            o.status = "OBSERVED" /\ NotBefore(o, obs, Sightings(obs))
      BY <1>4 DEF IsLatest
    <2> QED
      BY <1>1, <1>2, <2>1, <2>2 DEF Records
  <1> QED
    BY <1>3, <1>4

LEMMA NotedTyped ==
  ASSUME Typed, NEW p \in Process, NEW status \in Status
  PROVE  Noted(p, status) \in Observation /\ Noted(p, status).avail \in Availability
  BY DEF Noted, Observation, ResourceAvailability, Typed, TypeOK, Sync

LEMMA ReconcileRecords ==
  ASSUME Typed, AllReady, NEW p \in Process, Reconcile(p)
  PROVE  UNCHANGED <<resource, obs>> \/ \E o \in Observation : Records(o)
  <1> DEFINE o == Omission(p)
  <1>1. /\ sync[p].phase \in {"scanned", "finishing"} /\ ~sync[p].solo
        /\ \/ UNCHANGED <<resource, obs>>
           \/ /\ resource.known /\ ~sync[p].seen
              /\ obs' = Append(obs, o)
              /\ resource' = Omitted(resource, obs', o)
    BY DEF Reconcile
  <1>2. /\ resource \in Resource /\ obs \in Seq(Observation) /\ Ready(sync[p], inventories)
        /\ sync[p].at \in Nat /\ sync[p].run \in Nat
    BY DEF Typed, TypeOK, Sync, AllReady
  <1>3. /\ o \in Observation
        /\ o.at = sync[p].at /\ o.run = sync[p].run
        /\ o.status \in {"NOT_OBSERVED", "UNKNOWN"}
        /\ o.status = "NOT_OBSERVED" => o.avail = "MISSING" /\ sync[p].complete
    BY <1>2 DEF Omission, Observation, Status, ResourceAvailability, CanMarkMissing, Resource
  <1> HIDE DEF o
  <1>4. ASSUME resource.known, ~sync[p].seen, obs' = Append(obs, o),
               resource' = Omitted(resource, obs', o)
        PROVE  Records(o)
    <2>1. /\ resource' \in Resource /\ resource'.known
          /\ resource'.avail = IF o.status = "NOT_OBSERVED"
                                  /\ NotBefore(o, obs', Authoritative(obs'))
                               THEN "MISSING" ELSE resource.avail
          /\ resource'.first = resource.first /\ resource'.last = resource.last
      BY <1>2, <1>4, OmittedKnown, OmittedRow
    <2>2. o.status = "NOT_OBSERVED" => Omits(o, inventories)
      BY <1>1, <1>2, <1>3, <1>4 DEF Ready, Omits
    <2>3. o.status # "UNKNOWN" =>
            (NotBefore(o, obs', Authoritative(obs')) <=> NotBefore(o, obs, Authoritative(obs)))
      <3>1. /\ DOMAIN obs' = DOMAIN obs \cup {Len(obs) + 1} /\ obs'[Len(obs) + 1] = o
            /\ \A i \in DOMAIN obs : obs'[i] = obs[i]
        BY <1>2, <1>3, <1>4, Appended
      <3>2. ~After(o, o)
        BY <1>2, <1>3 DEF After
      <3> QED
        BY <3>1, <3>2 DEF NotBefore, Authoritative
    <2> QED
      BY <1>3, <1>4, <2>1, <2>2, <2>3 DEF Records
  <1> QED
    BY <1>1, <1>3, <1>4

\* Each step records nothing, or one observation.
LEMMA ObsSteps ==
  ASSUME Typed, AllReady, [Next]_vars
  PROVE  UNCHANGED <<resource, obs>> \/ \E o \in Observation : Records(o)
  <1>1. ASSUME NEW p \in Process, ObserveResource(p) \/ RecordFetch(p) \/ FailFetch(p)
        PROVE  UNCHANGED <<resource, obs>> \/ \E o \in Observation : Records(o)
    <2>1. \/ Record(Noted(p, "OBSERVED")) \/ Record(Noted(p, "UNKNOWN"))
          \/ UNCHANGED <<resource, obs>>
      BY <1>1 DEF ObserveResource, RecordFetch, FailFetch
    <2>2. "OBSERVED" \in Status /\ "UNKNOWN" \in Status
      BY DEF Status
    <2> QED
      BY <2>1, <2>2, NotedTyped, RecordRecords
  <1>2. ASSUME NEW p \in Process,
               \/ \E c \in Captures, solo \in {FALSE, Solo} : StartRun(p, c, solo)
               \/ \E a \in Reported : ReadItem(p, a)
               \/ \E lists \in BOOLEAN : PutNode(p, lists)
               \/ \E complete \in BOOLEAN : EndScan(p, complete)
               \/ BeginFetch(p) \/ ResolveEvidence(p) \/ Rediscover(p)
               \/ \E complete \in BOOLEAN : EndRediscovery(p, complete)
               \/ EndSolo(p) \/ Abandon(p)
        PROVE  UNCHANGED <<resource, obs>>
    BY <1>2 DEF StartRun, ReadItem, PutNode, EndScan, BeginFetch, ResolveEvidence, Rediscover,
                EndRediscovery, EndSolo, Abandon
  <1>3. Tick \/ UNCHANGED vars => UNCHANGED <<resource, obs>>
    BY DEF Tick, vars
  <1> QED
    BY <1>1, <1>2, <1>3, ReconcileRecords DEF Next

\* What a step leaves of the other rows.
LEMMA RestSteps ==
  ASSUME Typed, [Next]_vars
  PROVE  /\ node' \in Node /\ readings' \subseteq Reading
         /\ inventories' \subseteq Inventory /\ inventories \subseteq inventories'
         /\ lastRun' \in 0..MaxRun /\ now' \in Nat
  <1>1. /\ \A p \in Process : sync[p] \in Sync /\ SourceTime(p) \in Nat
        /\ node \in Node /\ readings \subseteq Reading /\ inventories \subseteq Inventory
        /\ lastRun \in 0..MaxRun /\ MaxRun \in Nat /\ now \in Nat
    BY SourceTimeNat, ResourceLifecycleAssumption DEF Typed, TypeOK
  <1> DEFINE Kept == /\ node' \in Node /\ readings' \subseteq Reading
                     /\ inventories' \subseteq Inventory /\ inventories \subseteq inventories'
                     /\ lastRun' \in 0..MaxRun /\ now' \in Nat
  <1>2. ASSUME NEW p \in Process, NEW lists \in BOOLEAN, PutNode(p, lists)
        PROVE  Kept
    <2>1. sync[p].at \in Nat /\ sync[p].avail \in Availability
      BY <1>1 DEF Sync
    <2>2. node' \in Node /\ readings' \subseteq Reading
      BY <1>1, <1>2, <2>1 DEF PutNode, Put, Node, Reading
    <2> QED
      BY <1>1, <1>2, <2>2 DEF PutNode
  <1>3. ASSUME NEW p \in Process, NEW complete \in BOOLEAN, EndScan(p, complete)
        PROVE  Kept
    <2>1. Completed(p) \in Inventory
      BY <1>1 DEF Completed, Inventory, Sync
    <2> QED
      BY <1>1, <1>3, <2>1 DEF EndScan
  <1>4. ASSUME NEW p \in Process, NEW c, NEW solo, StartRun(p, c, solo)
        PROVE  Kept
    BY <1>1, <1>4 DEF StartRun
  <1>5. ASSUME NEW p \in Process,
               \/ \E a \in Reported : ReadItem(p, a)
               \/ ObserveResource(p)
               \/ BeginFetch(p) \/ ResolveEvidence(p) \/ Rediscover(p)
               \/ \E complete \in BOOLEAN : EndRediscovery(p, complete)
               \/ RecordFetch(p) \/ FailFetch(p)
               \/ Reconcile(p) \/ EndSolo(p) \/ Abandon(p)
        PROVE  Kept
    <2>1. UNCHANGED <<node, readings, inventories, lastRun, now>>
      BY <1>5 DEF ReadItem, ObserveResource, BeginFetch, ResolveEvidence, Rediscover,
                  EndRediscovery, RecordFetch, FailFetch, Reconcile, EndSolo, Abandon
    <2> QED
      BY <1>1, <2>1
  <1>6. ASSUME Tick \/ UNCHANGED vars
        PROVE  Kept
    BY <1>1, <1>6 DEF Tick, vars
  <1> HIDE DEF Kept
  <1>7. Kept
    BY <1>2, <1>3, <1>4, <1>5, <1>6 DEF Next
  <1> QED
    BY <1>7 DEF Kept

LEMMA TypedInit == Init => Typed /\ AllReady
  <1> SUFFICES ASSUME Init PROVE Typed /\ AllReady
    OBVIOUS
  <1>1. resource \in Resource /\ ~resource.known /\ resource.avail = "UNKNOWN" /\ node \in Node
    BY DEF Init, NoResource, Resource, ResourceAvailability, Availability, NoNode, Node
  <1>2. sync \in [Process -> Sync] /\ lastRun \in 0..MaxRun /\ now \in Nat
    BY NoSyncTyped, ResourceLifecycleAssumption DEF Init
  <1>3. AllReady
    BY NoSyncTyped DEF Init, AllReady, Ready, NoSync
  <1> QED
    BY <1>1, <1>2, <1>3 DEF Init, Typed, TypeOK

LEMMA TypedStep == Typed /\ AllReady /\ [Next]_vars => Typed' /\ AllReady'
  <1> SUFFICES ASSUME Typed, AllReady, [Next]_vars PROVE Typed' /\ AllReady'
    OBVIOUS
  <1>1. /\ node' \in Node /\ readings' \subseteq Reading
        /\ inventories' \subseteq Inventory /\ inventories \subseteq inventories'
        /\ lastRun' \in 0..MaxRun /\ now' \in Nat
    BY RestSteps
  <1>2. (\E p \in Process : Moves(p)) \/ UNCHANGED sync
    BY MovesDiscovery, MovesFetch DEF Next, vars, Tick
  <1>3. sync' \in [Process -> Sync] /\ AllReady'
    <2>1. sync \in [Process -> Sync] /\ \A q \in Process : Ready(sync[q], inventories')
      BY <1>1 DEF Typed, TypeOK, AllReady, Ready
    <2>2. CASE UNCHANGED sync
      BY <2>1, <2>2 DEF AllReady, Ready
    <2>3. ASSUME NEW p \in Process, Moves(p) PROVE sync' \in [Process -> Sync] /\ AllReady'
      <3>1. PICK g \in Sync : sync' = [sync EXCEPT ![p] = g] /\ Ready(g, inventories')
        BY <2>3 DEF Moves
      <3>2. \A q \in Process : Ready(sync'[q], inventories')
        BY <2>1, <3>1
      <3> QED
        BY <2>1, <3>1, <3>2 DEF AllReady, Ready
    <2> QED
      BY <1>2, <2>2, <2>3
  <1>4. /\ resource' \in Resource /\ obs' \in Seq(Observation)
        /\ resource'.known <=> obs' # <<>>
        /\ ~resource'.known => resource'.avail = "UNKNOWN"
    <2>1. CASE UNCHANGED <<resource, obs>>
      BY <2>1 DEF Typed, TypeOK
    <2>2. ASSUME NEW o \in Observation, Records(o)
          PROVE  /\ resource' \in Resource /\ resource'.known
                 /\ obs' \in Seq(Observation) /\ obs' # <<>>
      <3>1. /\ obs' \in Seq(Observation) /\ Len(obs') = Len(obs) + 1 /\ Len(obs) \in Nat
        BY <2>2, Appended DEF Records, Typed, TypeOK
      <3>2. obs' # <<>>
        BY <3>1
      <3> QED
        BY <2>2, <3>1, <3>2 DEF Records
    <2> QED
      BY <2>1, <2>2, ObsSteps
  <1> QED
    BY <1>1, <1>3, <1>4 DEF Typed, TypeOK

\* Every step keeps the rows, runs and histories of their types.
THEOREM LifecycleTypeOK == Spec => []TypeOK
  BY TypedInit, TypedStep, PTL DEF Spec, Typed
-----------------------------------------------------------------------------
(***************************************************************************)
(* The newest observation.                                                 *)
(***************************************************************************)
\* i is the newest of the observations S of s.
IsNewest(s, S, i) ==
  i \in S /\ \A j \in S : ~After(s[j], s[i]) /\ (After(s[i], s[j]) \/ j <= i)

LEMMA NewestIsOne ==
  ASSUME NEW s \in Seq(Observation), NEW S \in SUBSET (DOMAIN s), S # {}
  PROVE  \E i \in S : IsNewest(s, S, i) /\ \A j \in S : IsNewest(s, S, j) => j = i
  <1> DEFINE R == {ij \in S \X S : /\ ~After(s[ij[2]], s[ij[1]])
                                   /\ After(s[ij[1]], s[ij[2]]) \/ ij[2] <= ij[1]}
  <1>1. /\ DOMAIN s = 1..Len(s) /\ Len(s) \in Nat
        /\ \A i \in S : i \in Nat /\ s[i] \in Observation
    OBVIOUS
  <1>2. \A i \in S : s[i].at \in Nat /\ s[i].run \in Nat
    BY <1>1 DEF Observation
  <1>3. \A i, j \in S : <<i, j>> \in R <=> /\ ~After(s[j], s[i])
                                           /\ After(s[i], s[j]) \/ j <= i
    OBVIOUS
  <1> HIDE DEF R
  <1>4. ASSUME NEW i \in S, NEW j \in S PROVE <<i, j>> \in R \/ <<j, i>> \in R
    <2>1. i <= j \/ j <= i
      BY <1>1
    <2>2. ~(After(s[i], s[j]) /\ After(s[j], s[i]))
      BY <1>2, AfterOrder
    <2> QED
      BY <1>3, <2>1, <2>2
  <1>5. ASSUME NEW i \in S, NEW j \in S, NEW k \in S, <<i, j>> \in R, <<j, k>> \in R
        PROVE  <<i, k>> \in R
    <2>1. /\ ~After(s[j], s[i]) /\ (After(s[i], s[j]) \/ j <= i)
          /\ ~After(s[k], s[j]) /\ (After(s[j], s[k]) \/ k <= j)
      BY <1>3, <1>5
    <2>2. ~After(s[k], s[i])
      BY <1>2, <2>1, AfterOrder
    <2>3. After(s[i], s[k]) \/ k <= i
      <3>1. CASE After(s[i], s[j])
        BY <1>2, <2>1, <3>1, AfterOrder
      <3>2. CASE After(s[j], s[k])
        BY <1>2, <2>1, <3>2, AfterOrder
      <3>3. CASE j <= i /\ k <= j
        BY <1>1, <3>3
      <3> QED
        BY <2>1, <3>1, <3>2, <3>3
    <2> QED
      BY <1>3, <2>2, <2>3
  <1>6. PICK i \in S : \A j \in S : <<i, j>> \in R
    BY <1>1, <1>4, <1>5, NewestExists
  <1>7. IsNewest(s, S, i)
    BY <1>3, <1>6 DEF IsNewest
  <1>8. ASSUME NEW j \in S, IsNewest(s, S, j) PROVE j = i
    <2>1. /\ ~After(s[i], s[j]) /\ (After(s[j], s[i]) \/ i <= j)
          /\ ~After(s[j], s[i]) /\ (After(s[i], s[j]) \/ j <= i)
      BY <1>7, <1>8 DEF IsNewest
    <2> QED
      BY <1>1, <2>1
  <1> QED
    BY <1>7, <1>8

\* The row is what the newest authoritative observation says.
Follows ==
  /\ Authoritative(obs) = {} => resource.avail = "UNKNOWN"
  /\ \A i \in Authoritative(obs) :
       IsNewest(obs, Authoritative(obs), i) => resource.avail = obs[i].avail

LEMMA FollowsInvariant ==
  ASSUME Typed, Follows
  PROVE  AvailabilityFollowsEvidence
  <1> DEFINE A == Authoritative(obs)
  <1>1. obs \in Seq(Observation) /\ A \in SUBSET (DOMAIN obs)
    BY DEF Typed, TypeOK, Authoritative
  <1>2. CASE A = {}
    BY <1>2 DEF Follows, AvailabilityFollowsEvidence
  <1>3. CASE A # {}
    <2> HIDE DEF A
    <2>1. \E i \in A : IsNewest(obs, A, i)
      BY <1>1, <1>3, NewestIsOne
    <2>2. Newest(A) \in A /\ IsNewest(obs, A, Newest(A))
      BY <2>1 DEF Newest, IsNewest
    <2> QED
      BY <1>3, <2>2 DEF A, Follows, AvailabilityFollowsEvidence
  <1> QED
    BY <1>2, <1>3

\* A new observation is the newest, or leaves the newest what it was.
LEMMA FollowsStep ==
  ASSUME Typed, Follows, NEW o \in Observation, Records(o)
  PROVE  Follows'
  <1> DEFINE A == Authoritative(obs)
             B == Authoritative(obs')
             last == Len(obs) + 1
  <1>1. obs \in Seq(Observation) /\ A \in SUBSET (DOMAIN obs) /\ o.at \in Nat /\ o.run \in Nat
    BY DEF Typed, TypeOK, Authoritative, Observation
  <1>2. /\ obs' \in Seq(Observation) /\ Len(obs) \in Nat /\ DOMAIN obs = 1..Len(obs)
        /\ DOMAIN obs' = DOMAIN obs \cup {last} /\ obs'[last] = o /\ last \notin DOMAIN obs
        /\ \A i \in DOMAIN obs : obs'[i] = obs[i]
    BY <1>1, Appended DEF Records
  <1>3. ASSUME NEW i \in A
        PROVE  obs[i].at \in Nat /\ obs[i].run \in Nat /\ i < last /\ obs'[i] = obs[i]
    <2>1. i \in 1..Len(obs) /\ obs[i] \in Observation
      BY <1>1, <1>2
    <2>2. \A e \in Observation : e.at \in Nat /\ e.run \in Nat
      BY DEF Observation
    <2> QED
      BY <1>2, <2>1, <2>2
  <1>4. CASE o.status = "UNKNOWN"
    <2>1. B = A /\ resource'.avail = resource.avail
      BY <1>2, <1>4 DEF Authoritative, Records
    <2> HIDE DEF A, B
    <2>2. \A i \in A : IsNewest(obs', A, i) <=> IsNewest(obs, A, i)
      BY <1>3 DEF IsNewest
    <2> QED
      BY <1>3, <2>1, <2>2 DEF A, B, Follows
  <1>5. CASE o.status # "UNKNOWN"
    <2>1. B = A \cup {last} /\ B # {} /\ B \in SUBSET (DOMAIN obs')
      BY <1>2, <1>5 DEF Authoritative
    <2>2. CASE NotBefore(o, obs, A)
      <3>1. resource'.avail = o.avail
        BY <1>5, <2>2 DEF Records
      <3>2. \A i \in A : ~After(obs[i], o)
        BY <2>2 DEF NotBefore
      <3> HIDE DEF A, B, last
      <3>3. ASSUME NEW i \in B, IsNewest(obs', B, i) PROVE i = last
        <4>1. CASE i \in A
          <5>1. After(obs[i], o) \/ last <= i
            BY <1>2, <1>3, <2>1, <3>3, <4>1 DEF IsNewest
          <5>2. i < last /\ i \in Nat /\ last \in Nat
            BY <1>1, <1>2, <1>3, <4>1 DEF last
          <5> QED
            BY <3>2, <4>1, <5>1, <5>2
        <4> QED
          BY <2>1, <4>1
      <3> QED
        BY <1>2, <2>1, <3>1, <3>3 DEF B, Follows
    <2>3. CASE ~NotBefore(o, obs, A)
      <3>1. resource'.avail = resource.avail
        BY <2>3 DEF Records
      <3>2. PICK k \in A : After(obs[k], o)
        BY <2>3 DEF NotBefore
      <3> HIDE DEF A, B, last
      <3>3. PICK m \in A : IsNewest(obs, A, m)
        BY <1>1, <3>2, NewestIsOne
      <3>4. After(obs[m], o)
        <4>1. ~After(obs[k], obs[m])
          BY <3>2, <3>3 DEF IsNewest
        <4> QED
          BY <1>1, <1>3, <3>2, <4>1, AfterOrder
      <3>5. ASSUME NEW i \in B, IsNewest(obs', B, i) PROVE i = m
        <4>1. i # last
          <5>1. ~After(obs'[m], obs'[i])
            BY <2>1, <3>5 DEF IsNewest
          <5> QED
            BY <1>2, <1>3, <3>4, <5>1
        <4>2. i \in A
          BY <2>1, <4>1
        <4>3. IsNewest(obs, A, i)
          BY <1>3, <2>1, <3>5, <4>2 DEF IsNewest
        <4> QED
          BY <1>1, <3>2, <3>3, <4>2, <4>3, NewestIsOne
      <3>6. resource.avail = obs[m].avail
        BY <3>3 DEF A, Follows
      <3> QED
        BY <1>3, <2>1, <3>1, <3>5, <3>6 DEF B, Follows
    <2> QED
      BY <2>2, <2>3
  <1> QED
    BY <1>4, <1>5

LEMMA FollowsAlways == Spec => [](Typed /\ AllReady /\ Follows)
  <1>1. Init => Follows
    BY DEF Init, Follows, Authoritative, NoResource
  <1>2. Typed /\ AllReady /\ Follows /\ [Next]_vars => Follows'
    <2>1. ASSUME Typed, Follows, UNCHANGED <<resource, obs>> PROVE Follows'
      BY <2>1 DEF Follows, Authoritative, IsNewest
    <2> QED
      BY <2>1, ObsSteps, FollowsStep
  <1> QED
    BY <1>1, <1>2, TypedInit, TypedStep, PTL DEF Spec

\* Whatever is recorded in whatever order, the resource is what its newest
\* authoritative observation says (_ensure_resource, reconcile).
THEOREM LifecycleEvidence == Spec => []AvailabilityFollowsEvidence
  BY FollowsAlways, FollowsInvariant, PTL
-----------------------------------------------------------------------------
(***************************************************************************)
(* Omissions.  Only a complete inventory without the resource records it   *)
(* as MISSING, with the inventory's own instant and run.                   *)
(***************************************************************************)
MissingOmitted ==
  \A i \in Authoritative(obs) :
    obs[i].avail = "MISSING" =>
      obs[i].status = "NOT_OBSERVED" /\ Omits(obs[i], inventories)

LEMMA MissingStep ==
  ASSUME Typed, AllReady, MissingOmitted, [Next]_vars
  PROVE  MissingOmitted'
  <1>1. inventories \subseteq inventories'
    BY RestSteps
  <1>2. CASE UNCHANGED obs
    BY <1>1, <1>2 DEF MissingOmitted, Authoritative, Omits
  <1>3. ASSUME NEW o \in Observation, Records(o) PROVE MissingOmitted'
    <2>1. /\ DOMAIN obs' = DOMAIN obs \cup {Len(obs) + 1} /\ obs'[Len(obs) + 1] = o
          /\ \A i \in DOMAIN obs : obs'[i] = obs[i]
      BY <1>3, Appended DEF Records, Typed, TypeOK
    <2>2. ASSUME NEW i \in Authoritative(obs'), obs'[i].avail = "MISSING"
          PROVE  obs'[i].status = "NOT_OBSERVED" /\ Omits(obs'[i], inventories')
      <3>1. CASE i \in DOMAIN obs
        BY <1>1, <2>1, <2>2, <3>1 DEF MissingOmitted, Authoritative, Omits
      <3>2. CASE obs'[i] = o
        BY <1>1, <1>3, <2>2, <3>2 DEF Records, Authoritative, Omits
      <3> QED
        BY <2>1, <3>1, <3>2 DEF Authoritative
    <2> QED
      BY <2>2 DEF MissingOmitted
  <1> QED
    BY <1>2, <1>3, ObsSteps

LEMMA MissingInvariant ==
  ASSUME Typed, Follows, MissingOmitted
  PROVE  MissingMeansOmitted
  <1> SUFFICES ASSUME resource.avail = "MISSING"
               PROVE  \E v \in inventories :
                        ~v.seen /\ \A i \in Sightings(obs) : ~After(obs[i], v)
    BY DEF MissingMeansOmitted
  <1> DEFINE A == Authoritative(obs)
  <1>1. obs \in Seq(Observation) /\ A \in SUBSET (DOMAIN obs) /\ A # {}
    BY DEF Typed, TypeOK, Authoritative, Follows
  <1>2. PICK m \in A : IsNewest(obs, A, m)
    <2> HIDE DEF A
    <2> QED
      BY <1>1, NewestIsOne
  <1>3. obs[m].avail = "MISSING"
    BY <1>2 DEF Follows
  <1>4. PICK v \in inventories : v.at = obs[m].at /\ v.run = obs[m].run /\ ~v.seen
    BY <1>2, <1>3 DEF MissingOmitted, Omits
  <1>5. ASSUME NEW i \in Sightings(obs) PROVE ~After(obs[i], v)
    <2>1. i \in A
      BY DEF Sightings, Authoritative
    <2>2. ~After(obs[i], obs[m])
      BY <1>2, <2>1 DEF IsNewest
    <2> QED
      BY <1>4, <2>2 DEF After
  <1> QED
    BY <1>4, <1>5

\* A resource is MISSING only because a complete inventory did not list it, and
\* it has not been seen since (_resource_inventory, reconcile, can_mark_missing).
THEOREM LifecycleMissing == Spec => []MissingMeansOmitted
  <1>1. Init => MissingOmitted
    BY DEF Init, MissingOmitted, Authoritative
  <1> QED
    BY <1>1, FollowsAlways, MissingStep, MissingInvariant, PTL DEF Spec
-----------------------------------------------------------------------------
(***************************************************************************)
(* The row's window, and the item's row.                                   *)
(***************************************************************************)
LEMMA WindowStep ==
  ASSUME Typed, AllReady, WindowSpansSightings, [Next]_vars
  PROVE  WindowSpansSightings'
  <1>1. CASE UNCHANGED <<resource, obs>>
    BY <1>1 DEF WindowSpansSightings, Sightings
  <1>2. ASSUME NEW o \in Observation, Records(o) PROVE WindowSpansSightings'
    <2> DEFINE S == Sightings(obs)
               last == Len(obs) + 1
    <2>1. /\ DOMAIN obs' = DOMAIN obs \cup {last} /\ obs'[last] = o
          /\ \A i \in DOMAIN obs : obs'[i] = obs[i]
      BY <1>2, Appended DEF Records, Typed, TypeOK
    <2>2. resource.first \in Nat /\ resource.last \in Nat /\ o.at \in Nat /\ o.run \in Nat
      BY DEF Typed, TypeOK, Resource, Observation
    <2>3. ASSUME NEW i \in S PROVE i \in DOMAIN obs /\ obs[i].at \in Nat /\ obs'[i] = obs[i]
      <3>1. obs \in Seq(Observation) /\ i \in DOMAIN obs
        BY DEF Sightings, Typed, TypeOK
      <3>2. obs[i] \in Observation
        BY <3>1
      <3>3. \A e \in Observation : e.at \in Nat
        BY DEF Observation
      <3> QED
        BY <2>1, <3>1, <3>2, <3>3
    <2>4. CASE o.status # "OBSERVED"
      <3>1. Sightings(obs') = S
        BY <2>1, <2>4 DEF Sightings
      <3>2. CASE obs = <<>>
        BY <3>1, <3>2 DEF Sightings, WindowSpansSightings
      <3>3. CASE resource'.first = resource.first /\ resource'.last = resource.last
        BY <2>3, <3>1, <3>3 DEF WindowSpansSightings
      <3> QED
        BY <1>2, <2>4, <3>2, <3>3 DEF Records
    <2>5. CASE o.status = "OBSERVED"
      <3>1. Sightings(obs') = S \cup {last}
        BY <2>1, <2>5 DEF Sightings
      <3>2. /\ resource'.first = IF S = {} THEN o.at ELSE Earlier(resource.first, o.at)
            /\ resource'.last = IF NotBefore(o, obs, S) THEN o.at ELSE resource.last
        BY <1>2, <2>5 DEF Records
      <3>3. CASE S = {}
        BY <2>1, <2>2, <3>1, <3>2, <3>3 DEF WindowSpansSightings, NotBefore
      <3>4. CASE S # {}
        <4>1. /\ \A i \in S : resource.first <= obs[i].at /\ obs[i].at <= resource.last
              /\ \E i, j \in S : obs[i].at = resource.first /\ obs[j].at = resource.last
          BY <3>4 DEF WindowSpansSightings
        <4>2. resource'.last = IF o.at >= resource.last THEN o.at ELSE resource.last
          <5>1. CASE NotBefore(o, obs, S)
            <6>1. \A i \in S : obs[i].at <= o.at
              BY <2>2, <2>3, <5>1 DEF NotBefore, After
            <6> QED
              BY <2>2, <2>3, <3>2, <4>1, <5>1, <6>1
          <5>2. CASE ~NotBefore(o, obs, S)
            <6>1. PICK i \in S : After(obs[i], o)
              BY <5>2 DEF NotBefore
            <6>2. obs[i].at >= o.at /\ obs[i].at <= resource.last
              BY <2>2, <2>3, <4>1, <6>1 DEF After
            <6> QED
              BY <2>2, <2>3, <3>2, <5>2, <6>2
          <5> QED
            BY <5>1, <5>2
        <4>3. resource'.first = IF resource.first < o.at THEN resource.first ELSE o.at
          BY <3>2, <3>4 DEF Earlier
        <4> HIDE DEF S, last
        <4>4. \A i \in S \cup {last} :
                resource'.first <= obs'[i].at /\ obs'[i].at <= resource'.last
          BY <2>1, <2>2, <2>3, <4>1, <4>2, <4>3
        <4>5. \E i, j \in S \cup {last} :
                obs'[i].at = resource'.first /\ obs'[j].at = resource'.last
          BY <2>1, <2>2, <2>3, <4>1, <4>2, <4>3
        <4> QED
          BY <3>1, <4>4, <4>5 DEF WindowSpansSightings
      <3> QED
        BY <3>3, <3>4
    <2> QED
      BY <2>4, <2>5
  <1> QED
    BY <1>1, <1>2, ObsSteps

\* first_observed_at and last_observed_at span the sightings, in whatever order
\* they were recorded (_ensure_resource).
THEOREM LifecycleWindow == Spec => []WindowSpansSightings
  <1>1. Init => WindowSpansSightings
    BY DEF Init, WindowSpansSightings, Sightings
  <1> QED
    BY <1>1, FollowsAlways, WindowStep, PTL DEF Spec

\* While there is no row, nothing was read.
ItemRead == ItemFollowsReadings /\ (~node.known => readings = {})

LEMMA ItemStep ==
  ASSUME Typed, ItemRead, [Next]_vars
  PROVE  ItemRead'
  <1>1. CASE UNCHANGED <<node, readings>>
    BY <1>1 DEF ItemRead, ItemFollowsReadings
  <1>2. ASSUME NEW p \in Process, NEW lists \in BOOLEAN, PutNode(p, lists)
        PROVE  ItemRead'
    <2> DEFINE r == [at |-> sync[p].at, avail |-> sync[p].avail]
    <2>1. r.at \in Nat /\ node.at \in Nat /\ \A x \in readings : x.at \in Nat
      BY DEF Typed, TypeOK, Sync, Node, Reading
    <2>2. /\ node' = IF node.known /\ r.at < node.at THEN node
                     ELSE [known |-> TRUE, avail |-> r.avail, at |-> r.at]
          /\ readings' = readings \cup {r}
      BY <1>2 DEF PutNode, Put
    <2> HIDE DEF r
    <2>3. CASE node.known /\ r.at < node.at
      BY <2>1, <2>2, <2>3 DEF ItemRead, ItemFollowsReadings
    <2>4. CASE ~(node.known /\ r.at < node.at)
      <3>1. node'.known /\ node'.at = r.at /\ node'.avail = r.avail
        BY <2>2, <2>4
      <3>2. ASSUME NEW x \in readings PROVE x.at <= r.at
        BY <2>1, <2>4 DEF ItemRead, ItemFollowsReadings
      <3>3. \A x \in readings' : x.at <= r.at
        BY <2>1, <2>2, <3>2
      <3> QED
        BY <2>2, <3>1, <3>3 DEF ItemRead, ItemFollowsReadings
    <2> QED
      BY <2>3, <2>4
  <1>3. ASSUME NEW p \in Process,
               \/ \E c \in Captures, solo \in {FALSE, Solo} : StartRun(p, c, solo)
               \/ \E a \in Reported : ReadItem(p, a)
               \/ ObserveResource(p)
               \/ \E complete \in BOOLEAN : EndScan(p, complete)
               \/ BeginFetch(p) \/ ResolveEvidence(p) \/ Rediscover(p)
               \/ \E complete \in BOOLEAN : EndRediscovery(p, complete)
               \/ RecordFetch(p) \/ FailFetch(p)
               \/ Reconcile(p) \/ EndSolo(p) \/ Abandon(p)
        PROVE  UNCHANGED <<node, readings>>
    BY <1>3 DEF StartRun, ReadItem, ObserveResource, EndScan, BeginFetch, ResolveEvidence,
                Rediscover, EndRediscovery, RecordFetch, FailFetch, Reconcile, EndSolo, Abandon
  <1>4. Tick \/ UNCHANGED vars => UNCHANGED <<node, readings>>
    BY DEF Tick, vars
  <1> QED
    BY <1>1, <1>2, <1>3, <1>4 DEF Next

\* The item's row is the newest reading of it, whichever run stored it last
\* (put_content_node).
THEOREM LifecycleItem == Spec => []ItemFollowsReadings
  <1>1. Init => ItemRead
    BY DEF Init, ItemRead, ItemFollowsReadings, NoNode
  <1>2. Spec => []Typed
    BY TypedInit, TypedStep, PTL DEF Spec
  <1> QED
    BY <1>1, <1>2, ItemStep, PTL DEF Spec, ItemRead
=============================================================================
