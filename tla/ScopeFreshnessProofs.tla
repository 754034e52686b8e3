------------------------ MODULE ScopeFreshnessProofs ------------------------
(***************************************************************************)
(* The markers of a scope for every value of the constants: any number of  *)
(* processes and runs, which record their results in any order, and the    *)
(* queries that load, judge and page in between.                           *)
(***************************************************************************)
EXTENDS ScopeFreshness, TLAPS

(***************************************************************************)
(* The inductive invariant.  Markers are functions of the set of attempts  *)
(* only because no two attempts carry the same stamp, which rests on the   *)
(* run keys: runs have distinct keys and each records one result.          *)
(***************************************************************************)
ScopeTyped ==
  /\ row \in SyncRow
  /\ recorded \subseteq Attempt
  /\ sync \in [Process -> Sync]
  /\ data \in Nat
  /\ lastRun \in Nat
  /\ now \in Nat \ {0}

\* Keys are handed out once, and a run that has yet to record its result has
\* recorded nothing.
RunsDistinct ==
  /\ \A p \in Process : sync[p].phase # "idle" => sync[p].run \in 1..lastRun
  /\ \A p, q \in Process :
       sync[p].phase # "idle" /\ sync[q].phase # "idle" /\ p # q => sync[p].run # sync[q].run
  /\ \A p \in Process : \A a \in sync[p].pending :
       sync[p].phase = "read" /\ a.stamp.run = sync[p].run
  /\ \A a \in recorded : a.stamp.run <= lastRun
  /\ \A p \in Process : sync[p].phase \in {"reading", "read"} =>
       \A a \in recorded : a.stamp.run # sync[p].run

\* Whatever a run has read is in the database.
ReadsStored ==
  /\ \A p \in Process : sync[p].read <= data
  /\ \A p \in Process : \A a \in sync[p].pending : a.read <= data

ScopeInv ==
  /\ ScopeTyped
  /\ RunsDistinct
  /\ ReadsStored
  /\ MarkersOrderFree
  /\ CompleteIsStored
-----------------------------------------------------------------------------
(***************************************************************************)
(* The order of stamps.                                                    *)
(***************************************************************************)
\* A stamp that is not later than one that is not later is not later.
LEMMA LaterTransitive ==
  ASSUME NEW s \in Stamp, NEW t \in Stamp, NEW u \in Stamp,
         ~Later(s, t), ~Later(t, u)
  PROVE  ~Later(s, u)
  BY DEF Stamp, Later

\* Every attempt is later than none.
LEMMA LaterThanNever ==
  ASSUME NEW a \in Attempt
  PROVE  Later(a.stamp, Never) /\ a.stamp \in Stamp /\ a.stamp # Never
  BY DEF Attempt, Stamp, Later, Never

\* Two stamps of which neither is later are one.
LEMMA LaterTotal ==
  ASSUME NEW s \in Stamp, NEW t \in Stamp, ~Later(s, t), ~Later(t, s)
  PROVE  s = t
  <1>1. s.at = t.at /\ s.run = t.run
    BY DEF Stamp, Later
  <1> QED
    BY <1>1 DEF Stamp

\* The latest stamp of a set after one more attempt.
LEMMA LatestAfter ==
  ASSUME NEW S \in SUBSET Attempt, NEW s \in Stamp, IsLatest(s, S), NEW a \in Attempt
  PROVE  IsLatest(IF Later(a.stamp, s) THEN a.stamp ELSE s, S \cup {a})
  <1>1. a.stamp \in Stamp /\ Later(a.stamp, Never)
    BY LaterThanNever
  <1>2. CASE Later(a.stamp, s)
    <2>1. ASSUME NEW b \in S PROVE ~Later(b.stamp, a.stamp)
      <3>1. b.stamp \in Stamp /\ ~Later(b.stamp, s)
        BY LaterThanNever DEF IsLatest
      <3>2. ~Later(s, a.stamp)
        BY <1>1, <1>2 DEF Later, Stamp
      <3> QED
        BY <1>1, <3>1, <3>2, LaterTransitive
    <2>2. ~Later(a.stamp, a.stamp)
      BY <1>1 DEF Later, Stamp
    <2> QED
      BY <1>2, <2>1, <2>2 DEF IsLatest
  <1>3. CASE ~Later(a.stamp, s)
    <2>1. s # Never
      BY <1>1, <1>3
    <2> QED
      BY <1>3, <2>1 DEF IsLatest
  <1> QED
    BY <1>2, <1>3
-----------------------------------------------------------------------------
(***************************************************************************)
(* The order-aware upsert.                                                 *)
(***************************************************************************)
\* A recorded row is a row.
LEMMA UpsertedTyped ==
  ASSUME NEW r \in SyncRow, NEW a \in Attempt
  PROVE  Upserted(r, a) \in SyncRow
  <1>1. a.stamp \in Stamp /\ a.coverage \in Coverage /\ OutcomeOf(a) \in Outcome
    BY LaterThanNever DEF Attempt, OutcomeOf, Outcome
  <1>2. /\ r.attempt \in Stamp /\ r.success \in Stamp /\ r.complete \in Stamp
        /\ r.caps \in Stamp /\ r.outcome \in Outcome /\ r.coverage \in Coverage
    BY DEF SyncRow
  <1> QED
    BY <1>1, <1>2 DEF Upserted, SyncRow

\* Recording an attempt with a stamp of its own keeps every marker the latest of
\* the attempts it stands for, wherever the attempt falls in their order.
LEMMA UpsertedMarkers ==
  ASSUME ScopeTyped, MarkersOrderFree, NEW a \in Attempt,
         \A b \in recorded : b.stamp # a.stamp,
         row' = Upserted(row, a), recorded' = recorded \cup {a}
  PROVE  MarkersOrderFree'
  <1> DEFINE Succeeded == {b \in recorded : OutcomeOf(b) = "SUCCEEDED"}
             Completed == {b \in recorded : b.coverage = "COMPLETE"}
  <1>1. /\ row.attempt \in Stamp /\ row.success \in Stamp /\ row.complete \in Stamp
        /\ recorded \in SUBSET Attempt /\ a.stamp \in Stamp
    BY LaterThanNever DEF ScopeTyped, SyncRow
  <1>2. /\ row'.attempt = IF Later(a.stamp, row.attempt) THEN a.stamp ELSE row.attempt
        /\ row'.outcome = IF Later(a.stamp, row.attempt) THEN OutcomeOf(a) ELSE row.outcome
        /\ row'.coverage = IF Later(a.stamp, row.attempt) THEN a.coverage ELSE row.coverage
        /\ row'.success = IF OutcomeOf(a) = "SUCCEEDED" /\ Later(a.stamp, row.success)
                          THEN a.stamp ELSE row.success
        /\ row'.complete = IF a.coverage = "COMPLETE" /\ Later(a.stamp, row.complete)
                           THEN a.stamp ELSE row.complete
    BY DEF Upserted
  <1>3. IsLatest(row'.attempt, recorded')
    <2>1. IsLatest(row.attempt, recorded)
      BY DEF MarkersOrderFree
    <2> QED
      BY <1>1, <1>2, <2>1, LatestAfter
  <1>4. IsLatest(row'.success, {b \in recorded' : OutcomeOf(b) = "SUCCEEDED"})
    <2>1. CASE OutcomeOf(a) = "SUCCEEDED"
      <3>1. {b \in recorded' : OutcomeOf(b) = "SUCCEEDED"} = Succeeded \cup {a}
        BY <2>1
      <3>2. Succeeded \in SUBSET Attempt /\ IsLatest(row.success, Succeeded)
        BY <1>1 DEF MarkersOrderFree
      <3>3. row'.success = IF Later(a.stamp, row.success) THEN a.stamp ELSE row.success
        BY <1>2, <2>1
      <3> HIDE DEF Succeeded
      <3>4. IsLatest(row'.success, Succeeded \cup {a})
        BY <1>1, <3>2, <3>3, LatestAfter
      <3> QED
        BY <3>1, <3>4
    <2>2. CASE OutcomeOf(a) # "SUCCEEDED"
      <3>1. {b \in recorded' : OutcomeOf(b) = "SUCCEEDED"} = Succeeded
        BY <2>2
      <3> QED
        BY <1>2, <2>2, <3>1 DEF MarkersOrderFree
    <2> QED
      BY <2>1, <2>2
  <1>5. IsLatest(row'.complete, {b \in recorded' : b.coverage = "COMPLETE"})
    <2>1. CASE a.coverage = "COMPLETE"
      <3>1. {b \in recorded' : b.coverage = "COMPLETE"} = Completed \cup {a}
        BY <2>1
      <3>2. Completed \in SUBSET Attempt /\ IsLatest(row.complete, Completed)
        BY <1>1 DEF MarkersOrderFree
      <3>3. row'.complete = IF Later(a.stamp, row.complete) THEN a.stamp ELSE row.complete
        BY <1>2, <2>1
      <3> HIDE DEF Completed
      <3>4. IsLatest(row'.complete, Completed \cup {a})
        BY <1>1, <3>2, <3>3, LatestAfter
      <3> QED
        BY <3>1, <3>4
    <2>2. CASE a.coverage # "COMPLETE"
      <3>1. {b \in recorded' : b.coverage = "COMPLETE"} = Completed
        BY <2>2
      <3> QED
        BY <1>2, <2>2, <3>1 DEF MarkersOrderFree
    <2> QED
      BY <2>1, <2>2
  <1>6. ASSUME NEW b \in recorded', b.stamp = row'.attempt
        PROVE  row'.coverage = b.coverage /\ row'.outcome = OutcomeOf(b)
    <2>1. CASE b = a
      <3>1. Later(a.stamp, row.attempt)
        <4>1. CASE recorded = {}
          BY <4>1, LaterThanNever DEF MarkersOrderFree, IsLatest
        <4>2. CASE recorded # {}
          <5>1. a.stamp # row.attempt
            BY <4>2 DEF MarkersOrderFree, IsLatest
          <5> QED
            BY <1>2, <1>6, <2>1, <5>1
        <4> QED
          BY <4>1, <4>2
      <3> QED
        BY <1>2, <2>1, <3>1
    <2>2. CASE b # a
      <3>1. b \in recorded /\ b.stamp # a.stamp
        BY <2>2
      <3>2. ~Later(a.stamp, row.attempt) /\ b.stamp = row.attempt
        BY <1>2, <1>6, <3>1
      <3> QED
        BY <1>2, <3>1, <3>2 DEF MarkersOrderFree
    <2> QED
      BY <2>1, <2>2
  <1> QED
    BY <1>3, <1>4, <1>5, <1>6 DEF MarkersOrderFree
-----------------------------------------------------------------------------
(***************************************************************************)
(* The steps of a synchronization.                                         *)
(***************************************************************************)
LEMMA InvInit == Init => ScopeInv
  BY DEF Init, ScopeInv, ScopeTyped, RunsDistinct, ReadsStored, MarkersOrderFree,
         CompleteIsStored, IsLatest, EmptyRow, SyncRow, Never, Stamp, Outcome, Coverage,
         NoSync, Sync

\* Steps of queries and of the clock.
LEMMA QuietStep ==
  ASSUME ScopeInv, UNCHANGED <<row, recorded, data, sync, lastRun>>, now' \in Nat \ {0}
  PROVE  ScopeInv'
  BY DEF ScopeInv, ScopeTyped, RunsDistinct, ReadsStored, MarkersOrderFree, CompleteIsStored

\* A run begins, for itself or for a query, with a key no other run has.
LEMMA BeginStep ==
  ASSUME ScopeInv, NEW p \in Process, lastRun' = lastRun + 1,
         sync' = [sync EXCEPT ![p] = Started], UNCHANGED <<row, recorded, data, now>>
  PROVE  ScopeInv'
  <1>0. lastRun \in Nat /\ recorded \subseteq Attempt
    BY DEF ScopeInv, ScopeTyped
  <1>1. /\ Started.phase = "reading" /\ Started.run = lastRun + 1
        /\ Started.read = 0 /\ Started.pending = {}
    BY DEF Started
  <1>2. sync'[p] = Started /\ \A q \in Process : q # p => sync'[q] = sync[q]
    BY DEF ScopeInv, ScopeTyped
  <1>3. ScopeTyped'
    <2>1. Started \in Sync
      BY <1>0 DEF Started, Sync
    <2> QED
      BY <1>0, <2>1 DEF ScopeInv, ScopeTyped
  <1>4. RunsDistinct'
    <2>1. ASSUME NEW q \in Process, q # p, sync[q].phase # "idle"
          PROVE  sync[q].run \in 1..lastRun' /\ sync[q].run # lastRun + 1
      BY <1>0, <2>1 DEF ScopeInv, RunsDistinct
    <2>2. \A a \in recorded : a.stamp.run <= lastRun' /\ a.stamp.run # lastRun + 1
      BY <1>0 DEF ScopeInv, RunsDistinct, Attempt
    <2>3. lastRun + 1 \in 1..lastRun'
      BY <1>0
    <2>4. \A q \in Process : sync'[q].phase # "idle" => sync'[q].run \in 1..lastRun'
      BY <1>1, <1>2, <2>1, <2>3
    <2>5. \A q, r \in Process :
            sync'[q].phase # "idle" /\ sync'[r].phase # "idle" /\ q # r => sync'[q].run # sync'[r].run
      BY <1>1, <1>2, <2>1 DEF ScopeInv, RunsDistinct
    <2>6. \A q \in Process : \A a \in sync'[q].pending :
            sync'[q].phase = "read" /\ a.stamp.run = sync'[q].run
      BY <1>1, <1>2 DEF ScopeInv, RunsDistinct
    <2>7. \A q \in Process : sync'[q].phase \in {"reading", "read"} =>
            \A a \in recorded' : a.stamp.run # sync'[q].run
      BY <1>1, <1>2, <2>2 DEF ScopeInv, RunsDistinct
    <2> QED
      BY <2>2, <2>4, <2>5, <2>6, <2>7 DEF RunsDistinct
  <1>5. ReadsStored'
    BY <1>1, <1>2 DEF ScopeInv, ScopeTyped, ReadsStored
  <1>6. MarkersOrderFree' /\ CompleteIsStored'
    BY DEF ScopeInv, MarkersOrderFree, CompleteIsStored
  <1> QED
    BY <1>3, <1>4, <1>5, <1>6 DEF ScopeInv

\* A run ends or its process dies.
LEMMA StopStep ==
  ASSUME ScopeInv, NEW p \in Process, sync' = [sync EXCEPT ![p] = NoSync],
         UNCHANGED <<row, recorded, data, lastRun, now>>
  PROVE  ScopeInv'
  <1>1. sync'[p] = NoSync /\ \A q \in Process : q # p => sync'[q] = sync[q]
    BY DEF ScopeInv, ScopeTyped
  <1>2. NoSync \in Sync
    BY DEF NoSync, Sync
  <1>3. ScopeTyped'
    BY <1>2 DEF ScopeInv, ScopeTyped
  <1>4. RunsDistinct'
    BY <1>1 DEF ScopeInv, RunsDistinct, NoSync
  <1>5. ReadsStored'
    BY <1>1 DEF ScopeInv, ScopeTyped, ReadsStored, NoSync
  <1>6. MarkersOrderFree' /\ CompleteIsStored'
    BY DEF ScopeInv, MarkersOrderFree, CompleteIsStored
  <1> QED
    BY <1>3, <1>4, <1>5, <1>6 DEF ScopeInv

\* A run stays what it is but for what it has read and its result: it keeps its
\* key, and a result has that key and stored reads.
LEMMA ScanStep ==
  ASSUME ScopeInv, NEW p \in Process, NEW n \in Sync,
         sync[p].phase = "reading", n.phase \in {"reading", "read"}, n.run = sync[p].run,
         \A a \in n.pending : n.phase = "read" /\ a.stamp.run = n.run /\ a.read <= data',
         sync' = [sync EXCEPT ![p] = n],
         data' \in Nat, data <= data', n.read <= data',
         UNCHANGED <<row, recorded, lastRun, now>>
  PROVE  ScopeInv'
  <1>1. sync'[p] = n /\ \A q \in Process : q # p => sync'[q] = sync[q]
    BY DEF ScopeInv, ScopeTyped
  <1>2. ScopeTyped'
    BY DEF ScopeInv, ScopeTyped
  <1>3. RunsDistinct'
    BY <1>1 DEF ScopeInv, RunsDistinct
  <1>4. ReadsStored'
    <2>1. ASSUME NEW q \in Process PROVE sync'[q].read <= data'
      <3>1. CASE q = p
        BY <1>1, <3>1
      <3>2. CASE q # p
        <4>1. sync[q].read \in Nat /\ data \in Nat /\ sync[q].read <= data
          BY DEF ScopeInv, ScopeTyped, ReadsStored, Sync
        <4> QED
          BY <1>1, <3>2, <4>1
      <3> QED
        BY <3>1, <3>2
    <2>2. ASSUME NEW q \in Process, NEW a \in sync'[q].pending PROVE a.read <= data'
      <3>1. CASE q = p
        BY <1>1, <2>2, <3>1
      <3>2. CASE q # p
        <4>1. a \in Attempt /\ data \in Nat /\ a.read <= data
          BY <1>1, <2>2, <3>2 DEF ScopeInv, ScopeTyped, ReadsStored, Sync
        <4> QED
          BY <4>1 DEF Attempt
      <3> QED
        BY <3>1, <3>2
    <2> QED
      BY <2>1, <2>2 DEF ReadsStored
  <1>5. MarkersOrderFree'
    BY DEF ScopeInv, MarkersOrderFree
  <1>6. CompleteIsStored'
    <2>1. ASSUME NEW a \in recorded PROVE a.read <= data'
      BY DEF ScopeInv, ScopeTyped, CompleteIsStored, Attempt
    <2> QED
      BY <2>1 DEF CompleteIsStored
  <1> QED
    BY <1>2, <1>3, <1>4, <1>5, <1>6 DEF ScopeInv

\* A run is the record of its fields.
LEMMA RunIsRecord ==
  ASSUME ScopeTyped, NEW p \in Process
  PROVE  sync[p] = [phase |-> sync[p].phase, run |-> sync[p].run,
                    read |-> sync[p].read, pending |-> sync[p].pending]
  BY DEF ScopeTyped, Sync

\* What the updates of a run leave it as.
LEMMA ReadUpdate ==
  ASSUME ScopeTyped, NEW p \in Process, NEW t
  PROVE  [sync EXCEPT ![p].read = t]
           = [sync EXCEPT ![p] = [phase |-> sync[p].phase, run |-> sync[p].run,
                                  read |-> t, pending |-> sync[p].pending]]
  <1>0. sync[p] = [phase |-> sync[p].phase, run |-> sync[p].run,
                   read |-> sync[p].read, pending |-> sync[p].pending]
    BY RunIsRecord
  <1>1. [sync EXCEPT ![p].read = t] = [sync EXCEPT ![p] = [sync[p] EXCEPT !.read = t]]
    OBVIOUS
  <1>2. [sync[p] EXCEPT !.read = t]
          = [phase |-> sync[p].phase, run |-> sync[p].run, read |-> t, pending |-> sync[p].pending]
    BY <1>0
  <1> QED
    BY <1>1, <1>2, Zenon

LEMMA ResultUpdate ==
  ASSUME ScopeTyped, NEW p \in Process, NEW f, NEW result
  PROVE  [sync EXCEPT ![p].phase = f, ![p].pending = result]
           = [sync EXCEPT ![p] = [phase |-> f, run |-> sync[p].run,
                                  read |-> sync[p].read, pending |-> result]]
  <1>0. sync[p] = [phase |-> sync[p].phase, run |-> sync[p].run,
                   read |-> sync[p].read, pending |-> sync[p].pending]
    BY RunIsRecord
  <1> DEFINE phased == [sync[p] EXCEPT !.phase = f]
  <1>1. phased = [phase |-> f, run |-> sync[p].run, read |-> sync[p].read,
                  pending |-> sync[p].pending]
    BY <1>0
  <1>2. [sync[p] EXCEPT !.phase = f, !.pending = result] = [phased EXCEPT !.pending = result]
    OBVIOUS
  <1>3. [sync EXCEPT ![p].phase = f, ![p].pending = result]
          = [sync EXCEPT ![p] = [sync[p] EXCEPT !.phase = f, !.pending = result]]
    OBVIOUS
  <1> HIDE DEF phased
  <1>4. [phased EXCEPT !.pending = result]
          = [phase |-> f, run |-> sync[p].run, read |-> sync[p].read, pending |-> result]
    BY <1>1
  <1> QED
    BY <1>2, <1>3, <1>4, Zenon

LEMMA ReplayUpdate ==
  ASSUME ScopeTyped, NEW p \in Process, NEW t, NEW result
  PROVE  [sync EXCEPT ![p].phase = "read", ![p].read = t, ![p].pending = result]
           = [sync EXCEPT ![p] = [phase |-> "read", run |-> sync[p].run,
                                  read |-> t, pending |-> result]]
  <1>0. sync[p] = [phase |-> sync[p].phase, run |-> sync[p].run,
                   read |-> sync[p].read, pending |-> sync[p].pending]
    BY RunIsRecord
  <1> DEFINE phased == [sync[p] EXCEPT !.phase = "read"]
             reading == [phased EXCEPT !.read = t]
  <1>1. phased = [phase |-> "read", run |-> sync[p].run, read |-> sync[p].read,
                  pending |-> sync[p].pending]
    BY <1>0
  <1>2. [sync[p] EXCEPT !.phase = "read", !.read = t, !.pending = result]
          = [reading EXCEPT !.pending = result]
    OBVIOUS
  <1>3. [sync EXCEPT ![p].phase = "read", ![p].read = t, ![p].pending = result]
          = [sync EXCEPT ![p] = [sync[p] EXCEPT !.phase = "read", !.read = t, !.pending = result]]
    OBVIOUS
  <1> HIDE DEF phased
  <1>4. reading = [phase |-> "read", run |-> sync[p].run, read |-> t, pending |-> sync[p].pending]
    BY <1>1
  <1> HIDE DEF reading
  <1>5. [reading EXCEPT !.pending = result]
          = [phase |-> "read", run |-> sync[p].run, read |-> t, pending |-> result]
    BY <1>4
  <1> QED
    BY <1>2, <1>3, <1>5, Zenon

\* The fields of a run.
LEMMA RunFields ==
  ASSUME ScopeTyped, NEW p \in Process
  PROVE  /\ sync[p].phase \in {"idle", "reading", "read", "finishing"}
         /\ sync[p].run \in Nat /\ sync[p].read \in Nat /\ sync[p].pending \subseteq Attempt
  BY DEF ScopeTyped, Sync

\* Storing an object leaves it as recent as it was and as what is stored.
LEMMA ObservedIsRecent ==
  ASSUME NEW d \in Nat, NEW t \in Nat
  PROVE  Observed(d, t) \in Nat /\ d <= Observed(d, t) /\ t <= Observed(d, t)
  BY DEF Observed

LEMMA ReadPageStep ==
  ASSUME ScopeInv, NEW p \in Process, ReadPage(p)
  PROVE  ScopeInv'
  <1> DEFINE n == [phase |-> sync[p].phase, run |-> sync[p].run,
                   read |-> now, pending |-> sync[p].pending]
  <1>1. ScopeTyped /\ data \in Nat /\ now \in Nat
    BY DEF ScopeInv, ScopeTyped
  <1>2. sync' = [sync EXCEPT ![p] = n]
    <2>1. sync' = [sync EXCEPT ![p].read = now]
      BY DEF ReadPage
    <2> QED
      BY <1>1, <2>1, ReadUpdate, Zenon
  <1>3. n \in Sync
    BY <1>1, RunFields DEF Sync
  <1>4. data' \in Nat /\ data <= data' /\ now <= data'
    BY <1>1, ObservedIsRecent DEF ReadPage
  <1>5. sync[p].phase = "reading" /\ sync[p].pending = {}
    BY DEF ReadPage, ScopeInv, RunsDistinct
  <1>6. /\ n.phase = "reading" /\ n.run = sync[p].run
        /\ n.read = now /\ n.pending = {}
    BY <1>5
  <1>7. UNCHANGED <<row, recorded, lastRun, now>>
    BY DEF ReadPage
  <1> HIDE DEF n
  <1> QED
    BY <1>2, <1>3, <1>4, <1>5, <1>6, <1>7, ScanStep

LEMMA EndScanStep ==
  ASSUME ScopeInv, NEW p \in Process, NEW c \in Coverage, NEW mute \in BOOLEAN,
         EndScan(p, c, mute)
  PROVE  ScopeInv'
  <1> DEFINE a == [stamp |-> [at |-> now, run |-> sync[p].run], coverage |-> c,
                   mute |-> mute, read |-> sync[p].read]
             n == [phase |-> "read", run |-> sync[p].run,
                   read |-> sync[p].read, pending |-> {a}]
  <1>1. ScopeTyped /\ data \in Nat /\ now \in Nat \ {0} /\ lastRun \in Nat
    BY DEF ScopeInv, ScopeTyped
  <1>2. sync' = [sync EXCEPT ![p] = n]
    BY <1>1, ResultUpdate DEF EndScan
  <1>3. sync[p].phase = "reading" /\ sync[p].run \in Nat \ {0} /\ sync[p].read \in Nat
    BY <1>1, RunFields DEF EndScan, ScopeInv, RunsDistinct
  <1>4. a \in Attempt /\ a.stamp.run = sync[p].run /\ a.read = sync[p].read
    BY <1>1, <1>3 DEF Attempt
  <1>5. sync[p].read <= data
    BY DEF ScopeInv, ReadsStored
  <1>6. UNCHANGED <<row, recorded, data, lastRun, now>>
    BY DEF EndScan
  <1> HIDE DEF a
  <1>7. n \in Sync
    BY <1>3, <1>4 DEF Sync
  <1>8. /\ n.phase = "read" /\ n.run = sync[p].run
        /\ n.read = sync[p].read /\ n.pending = {a}
    OBVIOUS
  <1> HIDE DEF n
  <1>9. /\ data' \in Nat /\ data <= data' /\ n.read <= data'
        /\ \A b \in n.pending : n.phase = "read" /\ b.stamp.run = n.run /\ b.read <= data'
    BY <1>1, <1>4, <1>5, <1>6, <1>8
  <1> QED
    BY <1>2, <1>3, <1>6, <1>7, <1>8, <1>9, ScanStep

LEMMA ReplayCaptureStep ==
  ASSUME ScopeInv, NEW p \in Process, NEW t \in 1..now, ReplayCapture(p, t)
  PROVE  ScopeInv'
  <1> DEFINE a == [stamp |-> [at |-> t, run |-> sync[p].run], coverage |-> "COMPLETE",
                   mute |-> FALSE, read |-> t]
             n == [phase |-> "read", run |-> sync[p].run, read |-> t, pending |-> {a}]
  <1>1. ScopeTyped /\ data \in Nat /\ t \in Nat \ {0} /\ lastRun \in Nat
    BY DEF ScopeInv, ScopeTyped
  <1>2. sync' = [sync EXCEPT ![p] = n]
    <2>1. sync' = [sync EXCEPT ![p].phase = "read", ![p].read = t, ![p].pending = {a}]
      BY DEF ReplayCapture
    <2> HIDE DEF a
    <2>2. [sync EXCEPT ![p].phase = "read", ![p].read = t, ![p].pending = {a}]
            = [sync EXCEPT ![p] = n]
      BY <1>1, ReplayUpdate, Zenon
    <2> QED
      BY <2>1, <2>2, Zenon
  <1>3. sync[p].phase = "reading" /\ sync[p].run \in Nat \ {0}
    BY <1>1, RunFields DEF ReplayCapture, ScopeInv, RunsDistinct
  <1>4. a \in Attempt /\ a.stamp.run = sync[p].run /\ a.read = t
    BY <1>1, <1>3 DEF Attempt, Coverage
  <1>5. data' \in Nat /\ data <= data' /\ t <= data'
    BY <1>1, ObservedIsRecent DEF ReplayCapture
  <1>6. UNCHANGED <<row, recorded, lastRun, now>>
    BY DEF ReplayCapture
  <1> HIDE DEF a
  <1>7. n \in Sync
    BY <1>1, <1>3, <1>4 DEF Sync
  <1>8. /\ n.phase = "read" /\ n.run = sync[p].run
        /\ n.read = t /\ n.pending = {a}
    OBVIOUS
  <1> HIDE DEF n
  <1> QED
    BY <1>2, <1>3, <1>4, <1>5, <1>6, <1>7, <1>8, ScanStep

\* The result of a run has a stamp of its own, is stored, and is recorded once.
LEMMA RecordStep ==
  ASSUME ScopeInv, NEW p \in Process, RecordAttempt(p)
  PROVE  ScopeInv'
  <1> DEFINE n == [phase |-> "finishing", run |-> sync[p].run,
                   read |-> sync[p].read, pending |-> {}]
  <1>1. ScopeTyped
    BY DEF ScopeInv
  <1>2. sync' = [sync EXCEPT ![p] = n]
    BY <1>1, ResultUpdate DEF RecordAttempt
  <1>3. PICK a \in sync[p].pending : row' = Upserted(row, a) /\ recorded' = recorded \cup {a}
    BY DEF RecordAttempt
  <1>4. sync[p].phase = "read" /\ UNCHANGED <<data, lastRun, now>>
    BY DEF RecordAttempt
  <1>5. a \in Attempt
    BY <1>1, <1>3, RunFields
  <1>6. a.stamp.run = sync[p].run /\ a.read <= data /\ sync[p].run \in 1..lastRun
    BY <1>3, <1>4 DEF ScopeInv, RunsDistinct, ReadsStored
  <1>7. \A b \in recorded : b.stamp # a.stamp
    BY <1>4, <1>6 DEF ScopeInv, RunsDistinct
  <1>8. n \in Sync
    BY <1>1, RunFields DEF Sync
  <1>9. n.phase = "finishing" /\ n.run = sync[p].run /\ n.read = sync[p].read /\ n.pending = {}
    OBVIOUS
  <1> HIDE DEF n
  <1>10. sync'[p] = n /\ \A q \in Process : q # p => sync'[q] = sync[q]
    BY <1>1, <1>2 DEF ScopeTyped
  <1>11. ScopeTyped'
    BY <1>1, <1>2, <1>3, <1>4, <1>5, <1>8, UpsertedTyped DEF ScopeTyped
  <1>12. RunsDistinct'
    <2>1. \A q \in Process : sync'[q].phase # "idle" => sync'[q].run \in 1..lastRun'
      BY <1>4, <1>6, <1>9, <1>10 DEF ScopeInv, RunsDistinct
    <2>2. \A q, r \in Process :
            sync'[q].phase # "idle" /\ sync'[r].phase # "idle" /\ q # r => sync'[q].run # sync'[r].run
      BY <1>4, <1>9, <1>10 DEF ScopeInv, RunsDistinct
    <2>3. \A q \in Process : \A b \in sync'[q].pending :
            sync'[q].phase = "read" /\ b.stamp.run = sync'[q].run
      BY <1>9, <1>10 DEF ScopeInv, RunsDistinct
    <2>4. \A b \in recorded' : b.stamp.run <= lastRun'
      BY <1>3, <1>4, <1>6 DEF ScopeInv, RunsDistinct
    <2>5. ASSUME NEW q \in Process, sync'[q].phase \in {"reading", "read"}, NEW b \in recorded'
          PROVE  b.stamp.run # sync'[q].run
      <3>1. q # p
        BY <1>9, <1>10, <2>5
      <3>2. sync'[q] = sync[q] /\ sync[q].run # sync[p].run
        BY <1>4, <1>10, <2>5, <3>1 DEF ScopeInv, RunsDistinct
      <3> QED
        BY <1>3, <1>6, <2>5, <3>2 DEF ScopeInv, RunsDistinct
    <2> QED
      BY <2>1, <2>2, <2>3, <2>4, <2>5 DEF RunsDistinct
  <1>13. ReadsStored'
    BY <1>4, <1>9, <1>10 DEF ScopeInv, ReadsStored
  <1>14. MarkersOrderFree'
    BY <1>1, <1>3, <1>5, <1>7, UpsertedMarkers DEF ScopeInv
  <1>15. CompleteIsStored'
    BY <1>3, <1>4, <1>6 DEF ScopeInv, CompleteIsStored
  <1> QED
    BY <1>11, <1>12, <1>13, <1>14, <1>15 DEF ScopeInv
-----------------------------------------------------------------------------
LEMMA InvNext == ScopeInv /\ [Next]_vars => ScopeInv'
  <1> SUFFICES ASSUME ScopeInv, [Next]_vars
               PROVE  ScopeInv'
    OBVIOUS
  <1>0. now \in Nat \ {0}
    BY DEF ScopeInv, ScopeTyped
  <1>1. CASE UNCHANGED vars
    BY <1>0, <1>1, QuietStep DEF vars
  <1>2. CASE Tick
    BY <1>0, <1>2, QuietStep DEF Tick
  <1>3. ASSUME NEW p \in Process, SyncStep(p)
        PROVE  ScopeInv'
    <2>1. CASE StartRun(p)
      BY <2>1, BeginStep DEF StartRun
    <2>2. CASE ReadPage(p)
      BY <2>2, ReadPageStep
    <2>3. CASE RecordAttempt(p)
      BY <2>3, RecordStep
    <2>4. CASE EndRun(p) \/ Crash(p)
      BY <2>4, StopStep DEF EndRun, Crash
    <2>5. CASE \E c \in Coverage, mute \in BOOLEAN : EndScan(p, c, mute)
      BY <2>5, EndScanStep
    <2>6. CASE \E t \in 1..now : ReplayCapture(p, t)
      BY <2>6, ReplayCaptureStep
    <2> QED
      BY <1>3, <2>1, <2>2, <2>3, <2>4, <2>5, <2>6 DEF SyncStep
  <1>4. ASSUME NEW p \in Process, QueryStep(p)
        PROVE  ScopeInv'
    <2>1. CASE Refresh(p)
      BY <2>1, BeginStep DEF Refresh
    <2>2. CASE ~Refresh(p)
      <3>1. UNCHANGED <<row, recorded, data, sync, lastRun, now>>
        BY <1>4, <2>2 DEF QueryStep, BeginQuery, NextPage, Load, ReadClock, Decide,
                          RefuseRefresh, Refreshed, Answer, EndQuery
      <3> QED
        BY <1>0, <3>1, QuietStep
    <2> QED
      BY <2>1, <2>2
  <1> QED
    BY <1>1, <1>2, <1>3, <1>4 DEF Next

THEOREM ScopeInvariance == Spec => []ScopeInv
  <1> QED
    BY InvInit, InvNext, PTL DEF Spec

\* The row is a function of the attempts recorded, in whatever order any number
\* of runs recorded them.
THEOREM MarkersAreOrderFree == Spec => []MarkersOrderFree
  <1>1. ScopeInv => MarkersOrderFree
    BY DEF ScopeInv
  <1> QED
    BY <1>1, ScopeInvariance, PTL

\* Whatever a recorded attempt has read is in the database.
THEOREM CompleteScopesAreStored == Spec => []CompleteIsStored
  <1>1. ScopeInv => CompleteIsStored
    BY DEF ScopeInv
  <1> QED
    BY <1>1, ScopeInvariance, PTL

\* A scope is called current for a requirement only if its latest attempt is its
\* complete snapshot.
THEOREM CurrentScopesHideNothing == Spec => []CurrentHidesNothing
  <1>1. ScopeInv => CurrentHidesNothing
    <2> SUFFICES ASSUME ScopeInv, NEW need \in Requirement, Current(row, need, now),
                        NEW a \in recorded
                 PROVE  ~Later(a.stamp, row.complete)
      BY DEF CurrentHidesNothing
    <2>1. /\ a.stamp \in Stamp /\ row.attempt \in Stamp /\ row.complete \in Stamp
          /\ row.outcome \in Outcome
      BY LaterThanNever DEF ScopeInv, ScopeTyped, SyncRow
    <2>2. ~Later(a.stamp, row.attempt)
      BY DEF ScopeInv, MarkersOrderFree, IsLatest
    <2>3. ~Later(row.attempt, row.complete)
      <3>1. row.attempt # Never
        BY <2>2, LaterThanNever DEF ScopeInv, ScopeTyped
      <3>2. PICK b \in recorded : b.stamp = row.attempt
        BY <3>1 DEF ScopeInv, MarkersOrderFree, IsLatest
      <3>3. CASE row.coverage = "COMPLETE"
        <4>1. b \in {c \in recorded : c.coverage = "COMPLETE"}
          BY <3>2, <3>3 DEF ScopeInv, MarkersOrderFree
        <4> QED
          BY <3>2, <4>1 DEF ScopeInv, MarkersOrderFree, IsLatest
      <3>4. CASE row.coverage # "COMPLETE"
        BY <3>1, <3>4 DEF Current, LatestIncomplete
      <3> QED
        BY <3>3, <3>4
    <2> QED
      BY <2>1, <2>2, <2>3, LaterTransitive
  <1> QED
    BY <1>1, ScopeInvariance, PTL
-----------------------------------------------------------------------------
(***************************************************************************)
(* Queries.  A query reads the data, the clock and the row one after the   *)
(* other.  Its revision guard makes one of the three: while it is clean,   *)
(* what it read is what is stored.                                         *)
(***************************************************************************)
Loaded == {"loaded", "timed", "reloaded", "decided", "answered"}

\* What a query q has read, when the row is r and the data d.
Fits(q, r, d) ==
  /\ q.phase \in {"refreshing", "reloading"} => q.page = 1
  /\ q.phase # "idle" /\ ~Paginated => q.page = 1
  /\ q.phase \in {"timed", "refreshing", "reloading", "reloaded", "decided"} => q.clock # 0
  /\ q.clean /\ q.page # 1 => q.first = d
  /\ q.phase \in Loaded => (q.clean => q.value = d) /\ (q.page = 1 => q.value = q.first)
  /\ q.phase = "decided" /\ q.clean =>
       q.asOf = r.complete /\ q.satisfied = Satisfied(r, q.need, q.clock)
  /\ q.phase = "answered" => q.value = q.first

QueryInv == query \in [Process -> Query] /\ \A p \in Process : Fits(query[p], row, data)

\* An answered query has cited an attempt that was recorded then, or none.
Serves(q, S) ==
  q.phase = "answered" =>
    /\ q.asOf = Never \/ \E b \in S : b.stamp = q.asOf
    /\ \A a \in S : a.stamp = q.asOf => a.read <= q.value

LEMMA NeverStamp == Never \in Stamp
  BY DEF Never, Stamp

LEMMA NoQueryFits == NoQuery \in Query /\ \A r, d : Fits(NoQuery, r, d)
  BY DEF NoQuery, Query, Mode, Never, Stamp, Fits, Loaded

\* A query that is no longer clean fits whatever is written, and keeps the rest.
LEMMA TouchedFits ==
  ASSUME NEW q \in Query, NEW r, NEW d, NEW s, NEW e, Fits(q, r, d)
  PROVE  LET n == [q EXCEPT !.clean = FALSE] IN
         /\ n \in Query /\ Fits(n, s, e) /\ n.phase = q.phase /\ n.page = q.page
         /\ n.asOf = q.asOf /\ n.value = q.value /\ n.clock = q.clock
  <1> DEFINE n == [q EXCEPT !.clean = FALSE]
  <1>1. /\ n \in Query /\ n.clean = FALSE /\ n.phase = q.phase /\ n.page = q.page
        /\ n.asOf = q.asOf /\ n.value = q.value /\ n.first = q.first /\ n.clock = q.clock
    BY DEF Query
  <1> HIDE DEF n
  <1>2. Fits(n, s, e)
    BY <1>1 DEF Fits
  <1> QED
    BY <1>1, <1>2 DEF n

QueryPhase == {"idle", "loading", "loaded", "timed", "refreshing", "reloading",
               "reloaded", "decided", "answered"}

\* What the updates of a query leave it as.
LEMMA QueryUpdates ==
  ASSUME NEW q \in Query, NEW f \in QueryPhase, NEW k \in Nat, NEW w \in Nat,
         NEW s \in Stamp, NEW b \in BOOLEAN
  PROVE  /\ [q EXCEPT !.phase = f] \in Query
         /\ [q EXCEPT !.phase = f, !.clean = TRUE] \in Query
         /\ [q EXCEPT !.phase = f, !.page = k, !.clean = TRUE] \in Query
         /\ [q EXCEPT !.clock = k, !.phase = f] \in Query
         /\ [q EXCEPT !.value = k, !.first = w, !.phase = f] \in Query
         /\ [q EXCEPT !.phase = f, !.asOf = s, !.satisfied = b] \in Query
  BY DEF Query, QueryPhase

\* The step of one query while nothing is written.
LEMMA OneQuery ==
  ASSUME QueryInv, NEW p \in Process, NEW g \in Query, query' = [query EXCEPT ![p] = g],
         UNCHANGED <<row, data>>, Fits(g, row, data)
  PROVE  QueryInv'
  BY DEF QueryInv

\* A transaction makes every query unclean.
LEMMA AllQueries ==
  ASSUME QueryInv, query' = Touched
  PROVE  /\ QueryInv'
         /\ \A p \in Process : /\ query'[p].phase = query[p].phase
                               /\ query'[p].asOf = query[p].asOf
                               /\ query'[p].value = query[p].value
  <1>1. ASSUME NEW p \in Process
        PROVE  /\ query'[p] \in Query /\ Fits(query'[p], row', data')
               /\ query'[p].phase = query[p].phase
               /\ query'[p].asOf = query[p].asOf /\ query'[p].value = query[p].value
    <2>1. query[p] \in Query /\ Fits(query[p], row, data)
      BY DEF QueryInv
    <2>2. query'[p] = [query[p] EXCEPT !.clean = FALSE]
      BY DEF Touched
    <2> QED
      BY <2>1, <2>2, TouchedFits
  <1>2. query' \in [Process -> Query]
    BY <1>1 DEF Touched
  <1> QED
    BY <1>1, <1>2 DEF QueryInv
-----------------------------------------------------------------------------
(***************************************************************************)
(* The steps of a query, each on its own row.                              *)
(***************************************************************************)
\* Query p becomes g, and nothing else changes.
Becomes(p, g) == /\ g \in Query /\ Fits(g, row, data)
                 /\ query' = [query EXCEPT ![p] = g]
                 /\ UNCHANGED <<row, recorded, data, sync, lastRun, now>>

LEMMA QueryFields ==
  ASSUME QueryInv, ScopeTyped, NEW p \in Process
  PROVE  /\ query[p] \in Query /\ Fits(query[p], row, data)
         /\ query[p].page \in Nat /\ query[p].first \in Nat /\ query[p].need \in [mode : Mode, age : Nat]
         /\ query[p].phase \in {"idle", "loading", "loaded", "timed", "refreshing", "reloading",
                                "reloaded", "decided", "answered"}
         /\ query[p].clean \in BOOLEAN /\ query[p].value \in Nat
         /\ row.complete \in Stamp /\ data \in Nat /\ now \in Nat \ {0}
  BY DEF QueryInv, Query, ScopeTyped, SyncRow

LEMMA LoadStep ==
  ASSUME QueryInv, ScopeTyped, NEW p \in Process, Load(p)
  PROVE  \E g \in Query : Becomes(p, g) /\ g.phase # "answered"
  <1> DEFINE q == query[p]
             w == IF q.page = 1 THEN data ELSE q.first
             f == IF q.phase = "loading" THEN "loaded" ELSE "reloaded"
             g == [q EXCEPT !.value = data, !.first = w, !.phase = f]
  <1>1. /\ q \in Query /\ Fits(q, row, data) /\ data \in Nat /\ w \in Nat
        /\ f \in {"loaded", "reloaded"} /\ q.phase \in {"loading", "reloading"}
        /\ UNCHANGED <<row, recorded, data, sync, lastRun, now>>
    BY QueryFields DEF Load
  <1>2. query' = [query EXCEPT ![p] = g]
    BY DEF Load
  <1>3. f = "reloaded" => q.phase = "reloading"
    BY <1>1
  <1> HIDE DEF f
  <1>4. /\ g \in Query /\ g.phase = f /\ g.page = q.page /\ g.clock = q.clock
        /\ g.clean = q.clean /\ g.first = w /\ g.value = data
    <2> HIDE DEF q, w
    <2>1. g \in Query
      BY <1>1, NeverStamp, QueryUpdates DEF QueryPhase
    <2> QED
      BY <1>1, <2>1 DEF Query
  <1> HIDE DEF g
  <1>5. Fits(g, row, data)
    BY <1>1, <1>3, <1>4 DEF Fits, Loaded
  <1> QED
    BY <1>1, <1>2, <1>4, <1>5 DEF Becomes

LEMMA SatisfiedBoolean ==
  ASSUME NEW r, NEW need, NEW t
  PROVE  Satisfied(r, need, t) \in BOOLEAN
  BY DEF Satisfied

LEMMA ReadClockStep ==
  ASSUME QueryInv, ScopeTyped, NEW p \in Process, ReadClock(p)
  PROVE  \E g \in Query : Becomes(p, g) /\ g.phase # "answered"
  <1> DEFINE q == query[p]
             g == [q EXCEPT !.clock = now, !.phase = "timed"]
  <1>1. /\ q \in Query /\ Fits(q, row, data) /\ now \in Nat \ {0} /\ q.phase = "loaded"
        /\ UNCHANGED <<row, recorded, data, sync, lastRun, now>>
    BY QueryFields DEF ReadClock
  <1>2. query' = [query EXCEPT ![p] = g]
    BY DEF ReadClock
  <1>3. /\ g \in Query /\ g.phase = "timed" /\ g.page = q.page /\ g.clock = now
        /\ g.clean = q.clean /\ g.first = q.first /\ g.value = q.value
    <2> HIDE DEF q
    <2>1. g \in Query
      BY <1>1, NeverStamp, QueryUpdates DEF QueryPhase
    <2> QED
      BY <1>1, <2>1 DEF Query
  <1> HIDE DEF g
  <1>4. Fits(g, row, data)
    BY <1>1, <1>3 DEF Fits, Loaded
  <1> QED
    BY <1>1, <1>2, <1>3, <1>4 DEF Becomes

LEMMA DecideStep ==
  ASSUME QueryInv, ScopeTyped, NEW p \in Process, Decide(p)
  PROVE  \E g \in Query : Becomes(p, g) /\ g.phase # "answered"
  <1> DEFINE q == query[p]
             c == row.complete
             b == Satisfied(row, q.need, q.clock)
             g == [q EXCEPT !.phase = "decided", !.asOf = c, !.satisfied = b]
  <1>1. /\ q \in Query /\ Fits(q, row, data) /\ q.phase \in {"timed", "reloaded"}
        /\ c \in Stamp
        /\ UNCHANGED <<row, recorded, data, sync, lastRun, now>>
    BY QueryFields DEF Decide
  <1>2. query' = [query EXCEPT ![p] = g]
    BY DEF Decide
  <1>3. b \in BOOLEAN
    BY SatisfiedBoolean
  <1>4. /\ g \in Query /\ g.phase = "decided" /\ g.page = q.page /\ g.clock = q.clock
        /\ g.clean = q.clean /\ g.first = q.first /\ g.value = q.value /\ g.need = q.need
        /\ g.asOf = c /\ g.satisfied = b
    <2> HIDE DEF q, b, c
    <2>1. g \in Query
      BY <1>1, <1>3, QueryUpdates DEF QueryPhase
    <2> QED
      BY <1>1, <2>1 DEF Query
  <1> HIDE DEF g
  <1>5. g.satisfied = Satisfied(row, g.need, g.clock) /\ g.asOf = row.complete
    BY <1>4
  <1> HIDE DEF q, b, c
  <1>6. Fits(g, row, data)
    BY <1>1, <1>4, <1>5 DEF Fits, Loaded
  <1> QED
    BY <1>1, <1>2, <1>4, <1>6 DEF Becomes, q

LEMMA NextPageStep ==
  ASSUME QueryInv, ScopeTyped, NEW p \in Process, NextPage(p)
  PROVE  \E g \in Query : Becomes(p, g) /\ g.phase # "answered"
  <1> DEFINE q == query[p]
             k == q.page + 1
             g == [q EXCEPT !.phase = "loading", !.page = k, !.clean = TRUE]
  <1>1. /\ q \in Query /\ Fits(q, row, data) /\ q.phase = "answered" /\ q.clean /\ Paginated
        /\ k \in Nat
        /\ UNCHANGED <<row, recorded, data, sync, lastRun, now>>
    BY QueryFields DEF NextPage, CursorHolds
  <1>2. query' = [query EXCEPT ![p] = g]
    BY DEF NextPage
  <1>3. /\ g \in Query /\ g.phase = "loading" /\ g.first = q.first
    <2> HIDE DEF q, k
    <2>1. g \in Query
      BY <1>1, NeverStamp, QueryUpdates DEF QueryPhase
    <2> QED
      BY <1>1, <2>1 DEF Query
  <1> HIDE DEF g
  <1>4. q.first = data
    BY <1>1 DEF Fits, Loaded
  <1>5. Fits(g, row, data)
    BY <1>1, <1>3, <1>4 DEF Fits, Loaded
  <1> QED
    BY <1>1, <1>2, <1>3, <1>5 DEF Becomes

LEMMA BeginQueryStep ==
  ASSUME QueryInv, ScopeTyped, NEW p \in Process, NEW need \in Requirement,
         BeginQuery(p, need)
  PROVE  \E g \in Query : Becomes(p, g) /\ g.phase # "answered"
  <1> DEFINE g == [NoQuery EXCEPT !.phase = "loading", !.need = need,
                                  !.page = 1, !.clean = TRUE]
  <1>1. /\ query' = [query EXCEPT ![p] = g]
        /\ UNCHANGED <<row, recorded, data, sync, lastRun, now>>
    BY DEF BeginQuery
  <1>2. need \in [mode : Mode, age : Nat]
    BY ScopeFreshnessAssumption
  <1>3. g \in Query /\ g.phase = "loading" /\ g.page = 1
    BY <1>2, NeverStamp DEF NoQuery, Query
  <1> HIDE DEF g
  <1>4. Fits(g, row, data)
    BY <1>3 DEF Fits, Loaded
  <1> QED
    BY <1>1, <1>3, <1>4 DEF Becomes

\* A refresh is refused or over: everything is read again.
LEMMA ReloadStep ==
  ASSUME QueryInv, ScopeTyped, NEW p \in Process, RefuseRefresh(p) \/ Refreshed(p)
  PROVE  \E g \in Query : Becomes(p, g) /\ g.phase # "answered"
  <1> DEFINE q == query[p]
             g == [q EXCEPT !.phase = "reloading", !.clean = TRUE]
  <1>1. /\ q \in Query /\ Fits(q, row, data)
        /\ (q.phase = "timed" /\ q.page = 1) \/ q.phase = "refreshing"
        /\ UNCHANGED <<row, recorded, data, sync, lastRun, now>>
    BY QueryFields DEF RefuseRefresh, Refreshed, Wanting
  <1>2. query' = [query EXCEPT ![p] = g]
    BY DEF RefuseRefresh, Refreshed
  <1>3. /\ g \in Query /\ g.phase = "reloading" /\ g.page = q.page /\ g.clock = q.clock
    <2> HIDE DEF q
    <2>1. g \in Query
      BY <1>1, NeverStamp, QueryUpdates DEF QueryPhase
    <2> QED
      BY <1>1, <2>1 DEF Query
  <1> HIDE DEF g
  <1>4. Fits(g, row, data)
    BY <1>1, <1>3 DEF Fits, Loaded
  <1> QED
    BY <1>1, <1>2, <1>3, <1>4 DEF Becomes

LEMMA EndQueryStep ==
  ASSUME QueryInv, NEW p \in Process, EndQuery(p)
  PROVE  \E g \in Query : Becomes(p, g) /\ g.phase # "answered"
  BY NoQueryFits DEF EndQuery, Becomes, NoQuery

\* What holds when an answer is given.
LEMMA AnswerStep ==
  ASSUME QueryInv, ScopeTyped, NEW p \in Process, Answer(p)
  PROVE  \E g \in Query :
           /\ Becomes(p, g) /\ query[p].phase = "decided"
           /\ g.value = query[p].value /\ g.asOf = query[p].asOf
           /\ Paginated => /\ query[p].value = data /\ query[p].asOf = row.complete
                           /\ query[p].satisfied =
                                Satisfied(row, query[p].need, query[p].clock)
  <1> DEFINE q == query[p]
             g == [q EXCEPT !.phase = "answered"]
  <1>1. /\ q \in Query /\ Fits(q, row, data) /\ q.phase = "decided" /\ (Paginated => q.clean)
        /\ UNCHANGED <<row, recorded, data, sync, lastRun, now>>
    BY QueryFields DEF Answer, GuardHolds
  <1>2. query' = [query EXCEPT ![p] = g]
    BY DEF Answer
  <1>3. /\ g \in Query /\ g.phase = "answered" /\ g.page = q.page /\ g.asOf = q.asOf
        /\ g.clean = q.clean /\ g.first = q.first /\ g.value = q.value
    <2> HIDE DEF q
    <2>1. g \in Query
      BY <1>1, NeverStamp, QueryUpdates DEF QueryPhase
    <2> QED
      BY <1>1, <2>1 DEF Query
  <1> HIDE DEF g
  <1>4. q.value = q.first
    BY <1>1 DEF Fits, Loaded
  <1>5. Fits(g, row, data)
    BY <1>1, <1>3, <1>4 DEF Fits, Loaded
  <1>6. Paginated => /\ q.value = data /\ q.asOf = row.complete
                     /\ q.satisfied = Satisfied(row, q.need, q.clock)
    BY <1>1 DEF Fits, Loaded
  <1> QED
    BY <1>1, <1>2, <1>3, <1>5, <1>6 DEF Becomes

\* The process of the query runs the refresh itself: a run begins, which is a
\* transaction.
LEMMA RefreshStep ==
  ASSUME QueryInv, ScopeTyped, NEW p \in Process, Refresh(p)
  PROVE  /\ QueryInv'
         /\ \A o \in Process : query'[o].phase = "answered" =>
              /\ query[o].phase = "answered"
              /\ query'[o].value = query[o].value /\ query'[o].asOf = query[o].asOf
  <1> DEFINE q == [query[p] EXCEPT !.clean = FALSE]
             g == [q EXCEPT !.phase = "refreshing"]
  <1>1. /\ query[p] \in Query /\ Fits(query[p], row, data)
        /\ query[p].phase = "timed" /\ query[p].page = 1
    BY QueryFields DEF Refresh, Wanting
  <1>2. /\ q \in Query /\ q.page = 1 /\ q.clock = query[p].clock /\ q.clean = FALSE
    BY <1>1 DEF Query
  <1>3. query' = [Touched EXCEPT ![p] = g]
    BY DEF Refresh, Touched
  <1> HIDE DEF q
  <1>4. g \in Query /\ g.phase = "refreshing" /\ g.page = 1 /\ g.clock = query[p].clock
        /\ g.clean = FALSE
    <2>1. g \in Query
      BY <1>2, NeverStamp, QueryUpdates DEF QueryPhase
    <2> QED
      BY <1>2, <2>1 DEF Query
  <1> HIDE DEF g
  <1>5. Fits(g, row', data')
    BY <1>1, <1>4 DEF Fits, Loaded
  <1>6. ASSUME NEW o \in Process, o # p
        PROVE  /\ query'[o] \in Query /\ Fits(query'[o], row', data')
               /\ query'[o].phase = query[o].phase
               /\ query'[o].value = query[o].value /\ query'[o].asOf = query[o].asOf
    <2>1. query[o] \in Query /\ Fits(query[o], row, data)
      BY DEF QueryInv
    <2>2. query'[o] = [query[o] EXCEPT !.clean = FALSE]
      BY <1>3, <1>6 DEF Touched
    <2> QED
      BY <2>1, <2>2, TouchedFits
  <1>7. query'[p] = g /\ DOMAIN query' = Process
    BY <1>3 DEF Touched
  <1>8. query' \in [Process -> Query]
    BY <1>3, <1>4, <1>6, <1>7 DEF Touched
  <1> QED
    BY <1>4, <1>5, <1>6, <1>7, <1>8 DEF QueryInv
-----------------------------------------------------------------------------
(***************************************************************************)
(* Every step, as a query sees it.                                         *)
(***************************************************************************)
Bounded == lastRun \in 0..MaxRun /\ data \in 0..MaxTime /\ now \in 1..MaxTime

\* A step of a query that does not refresh.
LEMMA QueryBecomes ==
  ASSUME QueryInv, ScopeTyped, NEW p \in Process, QueryStep(p), ~Refresh(p)
  PROVE  \E g \in Query :
           /\ Becomes(p, g)
           /\ g.phase = "answered" =>
                /\ query[p].phase = "decided"
                /\ g.value = query[p].value /\ g.asOf = query[p].asOf
                /\ Paginated => /\ query[p].value = data /\ query[p].asOf = row.complete
                                /\ query[p].satisfied =
                                     Satisfied(row, query[p].need, query[p].clock)
  <1>1. CASE Answer(p)
    BY <1>1, AnswerStep
  <1>2. CASE ~Answer(p)
    <2>1. \E g \in Query : Becomes(p, g) /\ g.phase # "answered"
      BY <1>2, LoadStep, ReadClockStep, DecideStep, NextPageStep, BeginQueryStep, ReloadStep,
         EndQueryStep DEF QueryStep
    <2> QED
      BY <2>1
  <1> QED
    BY <1>1, <1>2

\* A step of a synchronization or of the clock.
LEMMA QueryUnderWrites ==
  ASSUME QueryInv, ScopeTyped, NEW p \in Process, SyncStep(p)
  PROVE  /\ QueryInv'
         /\ \A o \in Process : query'[o].phase = "answered" =>
              /\ query[o].phase = "answered"
              /\ query'[o].value = query[o].value /\ query'[o].asOf = query[o].asOf
  <1>1. CASE Crash(p)
    <2>1. query' = [query EXCEPT ![p] = NoQuery] /\ UNCHANGED <<row, data>>
      BY <1>1 DEF Crash
    <2>2. QueryInv'
      BY <2>1, NoQueryFits, OneQuery
    <2>3. NoQuery.phase # "answered"
      BY DEF NoQuery
    <2> QED
      BY <2>1, <2>2, <2>3 DEF QueryInv
  <1>2. CASE \E c \in Coverage, mute \in BOOLEAN : EndScan(p, c, mute)
    BY <1>2 DEF EndScan, QueryInv
  <1>3. CASE query' = Touched
    BY <1>3, AllQueries
  <1> QED
    BY <1>1, <1>2, <1>3
    DEF SyncStep, StartRun, ReadPage, RecordAttempt, EndRun, ReplayCapture

LEMMA QueryNext ==
  ASSUME QueryInv, ScopeTyped, [Next]_vars
  PROVE  QueryInv'
  <1>1. CASE UNCHANGED <<query, row, data>>
    BY <1>1 DEF QueryInv
  <1>2. ASSUME NEW p \in Process, QueryStep(p), ~Refresh(p) PROVE QueryInv'
    BY <1>2, QueryBecomes, OneQuery DEF Becomes
  <1> QED
    BY <1>1, <1>2, RefreshStep, QueryUnderWrites DEF Next, vars, Tick

LEMMA BoundedNext ==
  ASSUME Bounded, [Next]_vars
  PROVE  Bounded'
  <1>1. CASE UNCHANGED vars \/ Tick
    BY <1>1, ScopeFreshnessAssumption DEF Bounded, vars, Tick
  <1>2. ASSUME NEW p \in Process, SyncStep(p) PROVE Bounded'
    <2>1. ASSUME NEW t \in 1..now, data' = Observed(data, t), UNCHANGED <<lastRun, now>>
          PROVE  Bounded'
      BY <2>1, ScopeFreshnessAssumption DEF Bounded, Observed
    <2>2. CASE ReadPage(p)
      BY <2>1, <2>2 DEF ReadPage, Bounded
    <2>3. CASE \E t \in 1..now : ReplayCapture(p, t)
      BY <2>1, <2>3 DEF ReplayCapture
    <2>4. CASE StartRun(p)
      BY <2>4, ScopeFreshnessAssumption DEF StartRun, Bounded
    <2>5. CASE RecordAttempt(p) \/ EndRun(p) \/ Crash(p)
      BY <2>5 DEF RecordAttempt, EndRun, Crash, Bounded
    <2>6. CASE \E c \in Coverage, mute \in BOOLEAN : EndScan(p, c, mute)
      BY <2>6 DEF EndScan, Bounded
    <2> QED
      BY <1>2, <2>2, <2>3, <2>4, <2>5, <2>6 DEF SyncStep
  <1>3. ASSUME NEW p \in Process, QueryStep(p) PROVE Bounded'
    <2>1. CASE Refresh(p)
      BY <2>1, ScopeFreshnessAssumption DEF Bounded, Refresh
    <2>2. CASE ~Refresh(p)
      <3>1. UNCHANGED <<data, lastRun, now>>
        BY <1>3, <2>2 DEF QueryStep, BeginQuery, NextPage, Load, ReadClock, Decide,
                          RefuseRefresh, Refreshed, Answer, EndQuery
      <3> QED
        BY <3>1 DEF Bounded
    <2> QED
      BY <2>1, <2>2
  <1> QED
    BY <1>1, <1>2, <1>3 DEF Next

LEMMA QueryAlways == Spec => [](ScopeInv /\ QueryInv /\ Bounded)
  <1>1. Init => QueryInv /\ Bounded
    BY NoQueryFits, ScopeFreshnessAssumption DEF Init, QueryInv, Bounded
  <1>2. ScopeInv => ScopeTyped
    BY DEF ScopeInv
  <1>3. ScopeInv /\ QueryInv /\ Bounded /\ [Next]_vars => QueryInv' /\ Bounded'
    BY <1>2, QueryNext, BoundedNext
  <1> QED
    BY <1>1, <1>3, ScopeInvariance, PTL DEF Spec

\* Every step keeps the row, the runs and the queries of their types.
THEOREM ScopeTypeOK == Spec => []TypeOK
  <1>1. ScopeInv /\ QueryInv /\ Bounded => TypeOK
    BY DEF ScopeInv, ScopeTyped, QueryInv, Bounded, TypeOK
  <1> QED
    BY <1>1, QueryAlways, PTL

\* All pages of one listing show the same data, whatever is written between them.
THEOREM ScopePagesAgree == Spec => []PagesAgree
  <1>1. QueryInv => PagesAgree
    BY DEF QueryInv, Fits, PagesAgree
  <1> QED
    BY <1>1, QueryAlways, PTL
-----------------------------------------------------------------------------
(***************************************************************************)
(* Answers, when queries are guarded by a revision.                        *)
(***************************************************************************)
AllServe == \A p \in Process : Serves(query[p], recorded)

\* What the row calls complete is an attempt whose data is stored.
LEMMA SnapshotStored ==
  ASSUME ScopeInv
  PROVE  /\ row.complete = Never \/ \E b \in recorded : b.stamp = row.complete
         /\ \A a \in recorded : a.read <= data
  BY DEF ScopeInv, MarkersOrderFree, IsLatest, CompleteIsStored

\* What an answer cites stays recorded, and no later attempt has its stamp.
LEMMA ServesStill ==
  ASSUME ScopeInv, [Next]_vars, NEW q, NEW n, Serves(q, recorded), n.phase = q.phase,
         n.asOf = q.asOf, n.value = q.value
  PROVE  Serves(n, recorded')
  <1>1. ASSUME NEW p \in Process, RecordAttempt(p) PROVE Serves(n, recorded')
    <2>1. PICK a \in sync[p].pending : recorded' = recorded \cup {a} /\ sync[p].phase = "read"
      BY <1>1 DEF RecordAttempt
    <2>2. a \in Attempt
      BY RunFields DEF ScopeInv
    <2>3. \A b \in recorded : b.stamp # a.stamp
      BY <2>1 DEF ScopeInv, RunsDistinct
    <2>4. a.stamp # Never
      BY <2>2, LaterThanNever
    <2> QED
      BY <2>1, <2>3, <2>4 DEF Serves
  <1>2. ASSUME NEW p \in Process, SyncStep(p), ~RecordAttempt(p) PROVE recorded' = recorded
    BY <1>2 DEF SyncStep, StartRun, ReadPage, EndRun, Crash, EndScan, ReplayCapture
  <1>3. ASSUME NEW p \in Process, QueryStep(p) PROVE recorded' = recorded
    BY <1>3 DEF QueryStep, BeginQuery, NextPage, Load, ReadClock, Decide, Refresh,
                RefuseRefresh, Refreshed, Answer, EndQuery
  <1>4. UNCHANGED vars \/ Tick => recorded' = recorded
    BY DEF vars, Tick
  <1>5. recorded' = recorded => Serves(n, recorded')
    BY DEF Serves
  <1> QED
    BY <1>1, <1>2, <1>3, <1>4, <1>5 DEF Next

LEMMA ServeNext ==
  ASSUME Paginated, ScopeInv, QueryInv, AllServe, [Next]_vars
  PROVE  AllServe'
  <1> SUFFICES ASSUME NEW o \in Process, query'[o].phase = "answered"
               PROVE  Serves(query'[o], recorded')
    BY DEF AllServe, Serves
  <1>0. ScopeTyped /\ Serves(query[o], recorded)
    BY DEF ScopeInv, AllServe
  <1>1. CASE /\ query[o].phase = "answered"
             /\ query'[o].value = query[o].value /\ query'[o].asOf = query[o].asOf
    BY <1>0, <1>1, ServesStill
  <1>2. CASE UNCHANGED query
    BY <1>1, <1>2
  <1>3. ASSUME NEW p \in Process, QueryStep(p), ~Refresh(p)
        PROVE  Serves(query'[o], recorded')
    <2>1. PICK g \in Query :
            /\ Becomes(p, g)
            /\ g.phase = "answered" =>
                 /\ g.value = query[p].value /\ g.asOf = query[p].asOf
                 /\ query[p].value = data /\ query[p].asOf = row.complete
      BY <1>0, <1>3, QueryBecomes
    <2>2. query' = [query EXCEPT ![p] = g] /\ recorded' = recorded
      BY <2>1 DEF Becomes
    <2>3. CASE o # p
      BY <1>1, <2>2, <2>3
    <2>4. CASE o = p
      <3>1. query'[o] = g
        BY <2>2, <2>4 DEF QueryInv
      <3> QED
        BY <2>1, <2>2, <3>1, SnapshotStored DEF Serves
    <2> QED
      BY <2>3, <2>4
  <1> QED
    BY <1>0, <1>1, <1>2, <1>3, RefreshStep, QueryUnderWrites DEF Next, vars, Tick

\* An answer carries the data of the snapshot it cites, although the data, the
\* clock and the row were read one after the other (_query).
THEOREM AnswersAreOfTheirSnapshot ==
  ASSUME Paginated
  PROVE  Spec => []AnswersServeTheirSnapshot
  <1>1. Init => AllServe
    BY DEF Init, AllServe, Serves, NoQuery
  <1>2. ScopeInv /\ QueryInv /\ AllServe /\ [Next]_vars => AllServe'
    BY ServeNext
  <1>3. AllServe => AnswersServeTheirSnapshot
    BY DEF AllServe, Serves, AnswersServeTheirSnapshot
  <1> QED
    BY <1>1, <1>2, <1>3, QueryAlways, PTL DEF Spec

\* A row that satisfies a strict requirement at t names a complete attempt that
\* meets it, and no attempt is later.
LEMMA SatisfiedSnapshot ==
  ASSUME ScopeInv, NEW need \in [mode : Mode, age : Nat], NEW t \in Nat \ {0},
         need.mode \in {"MAX_AGE", "REQUIRE_CURRENT"}, Satisfied(row, need, t)
  PROVE  \E a \in recorded :
           /\ a.coverage = "COMPLETE" /\ a.read <= data
           /\ a.stamp.at + need.age >= t
           /\ \A b \in recorded : ~Later(b.stamp, a.stamp)
  <1>1. /\ row.attempt \in Stamp /\ row.complete \in Stamp /\ row.outcome \in Outcome
        /\ recorded \subseteq Attempt /\ need.age \in Nat
        /\ row.attempt.at \in Nat /\ row.complete.at \in Nat
    BY DEF ScopeInv, ScopeTyped, SyncRow, Stamp
  <1>2. /\ \A b \in recorded : ~Later(b.stamp, row.attempt)
        /\ row.attempt = Never \/ \E b \in recorded : b.stamp = row.attempt
        /\ \A b \in recorded : b.stamp = row.attempt => row.coverage = b.coverage
        /\ row.complete = Never \/ \E b \in recorded : b.stamp = row.complete /\ b.coverage = "COMPLETE"
        /\ \A b \in recorded : b.coverage = "COMPLETE" => ~Later(b.stamp, row.complete)
        /\ \A b \in recorded : b.read <= data
    BY DEF ScopeInv, MarkersOrderFree, IsLatest, CompleteIsStored
  <1>3. CASE need.mode = "REQUIRE_CURRENT"
    <2>1. row.coverage = "COMPLETE" /\ row.attempt.at >= t
      BY <1>3 DEF Satisfied, Established
    <2>2. row.attempt # Never
      BY <1>1, <2>1 DEF Never
    <2>3. PICK a \in recorded : a.stamp = row.attempt
      BY <1>2, <2>2
    <2>4. a.stamp.at + need.age >= t
      BY <1>1, <2>1, <2>3
    <2> QED
      BY <1>2, <2>1, <2>3, <2>4
  <1>4. CASE need.mode = "MAX_AGE"
    <2>1. row.complete # Never /\ t - row.complete.at <= need.age /\ ~LatestIncomplete(row)
      BY <1>4 DEF Satisfied, Current
    <2>2. PICK a \in recorded : a.stamp = row.complete /\ a.coverage = "COMPLETE"
      BY <1>2, <2>1
    <2>3. ~Later(row.attempt, row.complete)
      <3>1. a.stamp \in Stamp /\ Later(a.stamp, Never) /\ row.attempt # Never
        BY <1>1, <1>2, <2>2, LaterThanNever
      <3>2. PICK b \in recorded : b.stamp = row.attempt
        BY <1>2, <3>1
      <3>3. CASE row.coverage = "COMPLETE"
        BY <1>2, <3>2, <3>3
      <3>4. CASE row.coverage # "COMPLETE"
        BY <2>1, <3>1, <3>4 DEF LatestIncomplete
      <3> QED
        BY <3>3, <3>4
    <2>4. ASSUME NEW b \in recorded PROVE ~Later(b.stamp, a.stamp)
      <3>1. b.stamp \in Stamp /\ ~Later(b.stamp, row.attempt)
        BY <1>1, <1>2, LaterThanNever
      <3> QED
        BY <1>1, <2>2, <2>3, <3>1, LaterTransitive
    <2>5. a.stamp.at + need.age >= t
      BY <1>1, <2>1, <2>2
    <2> QED
      BY <1>2, <2>2, <2>4, <2>5
  <1> QED
    BY <1>3, <1>4

\* An answer whose requirement is satisfied carries the data of a complete
\* attempt that meets the requirement, and nothing recorded by then is later
\* (_query, evaluate_freshness).
THEOREM SatisfiedAnswersAreFresh ==
  ASSUME Paginated
  PROVE  Spec => SatisfiedMeansFresh
  <1> DEFINE Fresh(q) ==
        \E a \in recorded :
          /\ a.coverage = "COMPLETE" /\ a.read <= q.value
          /\ a.stamp.at + q.need.age >= q.clock
          /\ \A b \in recorded : ~Later(b.stamp, a.stamp)
             FreshStep ==
        \A p \in Process :
          LET q == query[p]
          IN query'[p].phase = "answered" /\ q.phase = "decided" /\ q.satisfied
                /\ q.need.mode \in {"MAX_AGE", "REQUIRE_CURRENT"} => Fresh(q)
  <1>1. ASSUME ScopeInv, QueryInv, [Next]_vars PROVE FreshStep
    <2> SUFFICES ASSUME NEW o \in Process, query'[o].phase = "answered",
                        query[o].phase = "decided", query[o].satisfied,
                        query[o].need.mode \in {"MAX_AGE", "REQUIRE_CURRENT"}
                 PROVE  Fresh(query[o])
      OBVIOUS
    <2>0. ScopeTyped
      BY <1>1 DEF ScopeInv
    <2>1. query'[o].phase # query[o].phase
      OBVIOUS
    <2>2. PICK p \in Process : QueryStep(p) /\ ~Refresh(p)
      BY <1>1, <2>0, <2>1, RefreshStep, QueryUnderWrites DEF Next, vars, Tick
    <2>3. PICK g \in Query :
            /\ Becomes(p, g)
            /\ g.phase = "answered" =>
                 /\ query[p].value = data
                 /\ query[p].satisfied = Satisfied(row, query[p].need, query[p].clock)
      BY <1>1, <2>0, <2>2, QueryBecomes
    <2>4. o = p /\ query'[p] = g
      BY <1>1, <2>1, <2>3 DEF Becomes, QueryInv
    <2>5. /\ query[p].need \in [mode : Mode, age : Nat] /\ query[p].clock \in Nat \ {0}
      BY <1>1, <2>4 DEF QueryInv, Query, Fits
    <2> QED
      BY <1>1, <2>3, <2>4, <2>5, SatisfiedSnapshot
  <1>2. ScopeInv /\ QueryInv /\ [Next]_vars => [FreshStep]_vars
    BY <1>1
  <1>3. [][FreshStep]_vars => SatisfiedMeansFresh
    BY PTL DEF SatisfiedMeansFresh
  <1> QED
    BY <1>2, <1>3, QueryAlways, PTL DEF Spec
=============================================================================
