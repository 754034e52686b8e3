--------------------------- MODULE ScopeFreshness ---------------------------
(***************************************************************************)
(* What is known about one synchronization scope (sync/state.py), how      *)
(* synchronizations record it (sync/engine.py, sync/observability.py), and *)
(* how a query turns it into an answer that claims a freshness             *)
(* (sync/freshness.py, the _query method of core/api.py).                  *)
(*                                                                         *)
(* Several processes synchronize the same scope.  Each reads it, goes on   *)
(* with its other scopes, and records its scope results when it finishes,  *)
(* one transaction each: results of different runs reach the sync_state    *)
(* row in any order, and an imported browser capture may be older than     *)
(* everything recorded.  A query reads data, the clock and the row one     *)
(* after the other, all while synchronizations write.                      *)
(*                                                                         *)
(* The data of the scope is represented by one of its objects, and that by *)
(* the instant it was last observed (last_observed_at).                    *)
(***************************************************************************)
EXTENDS Integers, FiniteSets

CONSTANTS
  Process,      \* processes that synchronize
  Asker,        \* the ones that also query
  Requirement,  \* the freshness requirements queries are made with
  Paginated,    \* whether the query guards its page with a database revision
  MaxRun,       \* bound: synchronization runs
  MaxTime,      \* bound: the clock
  MaxPage       \* bound: the pages of one listing

Coverage == {"COMPLETE", "PARTIAL", "FAILED"}  \* STALE and UNKNOWN act as PARTIAL
Outcome == {"SUCCEEDED", "FAILED"}
Mode == {"CACHE_ONLY", "MAX_AGE", "REFRESH_IF_STALE", "REQUIRE_CURRENT"}

ASSUME ScopeFreshnessAssumption ==
  /\ Asker \subseteq Process
  /\ Requirement \subseteq [mode : Mode, age : Nat]
  /\ Paginated \in BOOLEAN
  /\ MaxRun \in Nat
  /\ MaxTime \in Nat \ {0}
  /\ MaxPage \in Nat

\* When an attempt was made and by which run; Never stands for SQL NULL.
Stamp == [at : Nat, run : Nat]
Never == [at |-> 0, run |-> 0]

Later(s, t) == s.at > t.at \/ (s.at = t.at /\ s.run > t.run)

\* One call of record_attempt.  mute: the source reported no capabilities.
\* read: when the attempt read the object, 0 if it did not.
Attempt == [stamp : [at : Nat \ {0}, run : Nat \ {0}], coverage : Coverage,
            mute : BOOLEAN, read : Nat]

\* Mutant: the coverage is recorded as the outcome.
OutcomeIsCoverage(a) == a.coverage

\* _outcome: the engine calls an attempt failed when it covered nothing.
OutcomeOf(a) == IF a.coverage = "FAILED" THEN "FAILED" ELSE "SUCCEEDED"

VARIABLES
  row,       \* the sync_state row of the scope
  recorded,  \* history: the attempts recorded in it
  data,      \* last_observed_at of the scope's object
  sync,      \* sync[p]: the run of process p
  query,     \* query[p]: the query of process p
  lastRun,   \* the largest sync_run_key handed out
  now

vars == <<row, recorded, data, sync, query, lastRun, now>>

\* caps: the attempt whose capabilities the row holds.  No caller passes
\* record_attempt a configured_max_age, so the row's is always NULL.
SyncRow == [attempt : Stamp, outcome : Outcome, coverage : Coverage, success : Stamp,
            complete : Stamp, caps : Stamp]

\* Before the first attempt there is no row; every attempt is later than Never.
EmptyRow == [attempt |-> Never, outcome |-> "FAILED", coverage |-> "FAILED",
             success |-> Never, complete |-> Never, caps |-> Never]

\* pending: the scope result the run has yet to record.
Sync == [phase : {"idle", "reading", "read", "finishing"}, run : Nat, read : Nat,
         pending : SUBSET Attempt]
NoSync == [phase |-> "idle", run |-> 0, read |-> 0, pending |-> {}]

\* clean: no transaction has committed since the query took its revision;
\* value: data as the query loaded it, first: as its first page loaded it;
\* asOf, satisfied: the decision it made.
Query == [phase : {"idle", "loading", "loaded", "timed", "refreshing", "reloading",
                   "reloaded", "decided", "answered"},
          need : [mode : Mode, age : Nat], page : Nat, clean : BOOLEAN, value : Nat,
          first : Nat, clock : Nat, asOf : Stamp, satisfied : BOOLEAN]
NoQuery == [phase |-> "idle", need |-> [mode |-> "CACHE_ONLY", age |-> 0], page |-> 0,
            clean |-> FALSE, value |-> 0, first |-> 0, clock |-> 0, asOf |-> Never,
            satisfied |-> FALSE]

TypeOK ==
  /\ row \in SyncRow
  /\ recorded \subseteq Attempt
  /\ data \in 0..MaxTime
  /\ sync \in [Process -> Sync]
  /\ query \in [Process -> Query]
  /\ lastRun \in 0..MaxRun
  /\ now \in Nat

Init ==
  /\ row = EmptyRow
  /\ recorded = {}
  /\ data = 0
  /\ sync = [p \in Process |-> NoSync]
  /\ query = [p \in Process |-> NoQuery]
  /\ lastRun = 0
  /\ now = 1
-----------------------------------------------------------------------------
(***************************************************************************)
(* SyncStateRepository.record_attempt: the order-aware upsert.             *)
(***************************************************************************)
\* Mutant: whatever is recorded last is the latest attempt.
UpsertedLastWins(r, a) ==
  [r EXCEPT !.attempt = a.stamp, !.outcome = OutcomeOf(a), !.coverage = a.coverage,
            !.success = IF OutcomeOf(a) = "SUCCEEDED" THEN a.stamp ELSE @,
            !.complete = IF a.coverage = "COMPLETE" THEN a.stamp ELSE @]

Upserted(r, a) ==
  LET newer == Later(a.stamp, r.attempt)
      success == OutcomeOf(a) = "SUCCEEDED" /\ Later(a.stamp, r.success)
      complete == a.coverage = "COMPLETE" /\ Later(a.stamp, r.complete)
  IN [attempt  |-> IF newer THEN a.stamp ELSE r.attempt,
      outcome  |-> IF newer THEN OutcomeOf(a) ELSE r.outcome,
      coverage |-> IF newer THEN a.coverage ELSE r.coverage,
      success  |-> IF success THEN a.stamp ELSE r.success,
      complete |-> IF complete THEN a.stamp ELSE r.complete,
      caps     |-> IF newer /\ ~a.mute THEN a.stamp ELSE r.caps]

\* Every write transaction changes the revision running queries compare.
Touched == [q \in Process |-> [query[q] EXCEPT !.clean = FALSE]]
-----------------------------------------------------------------------------
(***************************************************************************)
(* A synchronization run.                                                  *)
(***************************************************************************)
Started == [phase |-> "reading", run |-> lastRun + 1, read |-> 0, pending |-> {}]

\* SyncRunRecorder.start, for a synchronization nobody's query asked for.
StartRun(p) ==
  /\ sync[p].phase = "idle" /\ query[p].phase = "idle"
  /\ lastRun < MaxRun
  /\ lastRun' = lastRun + 1
  /\ sync' = [sync EXCEPT ![p] = Started]
  /\ query' = Touched
  /\ UNCHANGED <<row, recorded, data, now>>

\* Mutant: the stored object is overwritten by whoever wrote last.
ObservedLastWins(d, t) == t

\* put_content_node, put_course: an older observation leaves the object alone.
Observed(d, t) == IF t < d THEN d ELSE t

\* The live source reads a page with the object and stores it.
ReadPage(p) ==
  /\ sync[p].phase = "reading" /\ sync[p].read = 0
  /\ sync' = [sync EXCEPT ![p].read = now]
  /\ data' = Observed(data, now)
  /\ query' = Touched
  /\ UNCHANGED <<row, recorded, lastRun, now>>

\* The scope result is made when the reading of the scope has ended: complete
\* if everything was read, failed if nothing was.
EndScan(p, c, mute) ==
  /\ sync[p].phase = "reading"
  /\ c = "COMPLETE" => sync[p].read # 0
  /\ c = "FAILED" => sync[p].read = 0
  /\ sync' = [sync EXCEPT ![p].phase = "read",
                           ![p].pending = {[stamp |-> [at |-> now, run |-> sync[p].run],
                                            coverage |-> c, mute |-> mute,
                                            read |-> sync[p].read]}]
  /\ UNCHANGED <<row, recorded, data, query, lastRun, now>>

\* A browser capture taken at t is replayed: everything is stored, and the
\* result is stamped, with the instant of the capture.
ReplayCapture(p, t) ==
  /\ sync[p].phase = "reading" /\ sync[p].read = 0
  /\ sync' = [sync EXCEPT ![p].phase = "read", ![p].read = t,
                           ![p].pending = {[stamp |-> [at |-> t, run |-> sync[p].run],
                                            coverage |-> "COMPLETE", mute |-> FALSE,
                                            read |-> t]}]
  /\ data' = Observed(data, t)
  /\ query' = Touched
  /\ UNCHANGED <<row, recorded, lastRun, now>>

\* _finish, reached after the other scopes, the resources and the jobs,
\* records the scope results.
RecordAttempt(p) ==
  /\ sync[p].phase = "read"
  /\ \E a \in sync[p].pending :
       /\ row' = Upserted(row, a)
       /\ recorded' = recorded \cup {a}
  /\ sync' = [sync EXCEPT ![p].phase = "finishing", ![p].pending = {}]
  /\ query' = Touched
  /\ UNCHANGED <<data, lastRun, now>>

\* SyncRunRecorder.finish, also after an error (_finish_failed), when what was
\* not recorded is lost.
EndRun(p) ==
  /\ sync[p].phase # "idle"
  /\ sync' = [sync EXCEPT ![p] = NoSync]
  /\ query' = Touched
  /\ UNCHANGED <<row, recorded, data, lastRun, now>>

\* The process dies, its query with it.
Crash(p) ==
  /\ sync[p].phase # "idle" \/ query[p].phase # "idle"
  /\ sync' = [sync EXCEPT ![p] = NoSync]
  /\ query' = [query EXCEPT ![p] = NoQuery]
  /\ UNCHANGED <<row, recorded, data, lastRun, now>>
-----------------------------------------------------------------------------
(***************************************************************************)
(* evaluate_freshness.                                                     *)
(***************************************************************************)
\* Mutant: only failed attempts count as incomplete.
LatestFailed(r) == r.outcome = "FAILED" /\ Later(r.attempt, r.complete)

LatestIncomplete(r) ==
  /\ r.attempt # Never
  /\ r.outcome = "FAILED" \/ r.coverage # "COMPLETE"
  /\ Later(r.attempt, r.complete)

\* The status CURRENT; only MAX_AGE sets a limit to the age.
Current(r, need, t) ==
  /\ r.complete # Never
  /\ need.mode = "MAX_AGE" => t - r.complete.at <= need.age
  /\ ~LatestIncomplete(r)

\* Mutant: a complete snapshot is current whenever it was made.
EstablishedAnytime(r, t) ==
  /\ r.outcome = "SUCCEEDED" /\ r.coverage = "COMPLETE"
  /\ r.complete.at = r.attempt.at

Established(r, t) ==
  /\ r.outcome = "SUCCEEDED" /\ r.coverage = "COMPLETE"
  /\ r.complete.at = r.attempt.at
  /\ r.attempt.at >= t

\* ALLOW_STALE decides like CACHE_ONLY.  REFRESH_IF_STALE needs a configured
\* maximum age.
Satisfied(r, need, t) ==
  \/ need.mode = "CACHE_ONLY"
  \/ need.mode = "REQUIRE_CURRENT" /\ Established(r, t)
  \/ need.mode = "MAX_AGE" /\ Current(r, need, t)

ShouldRefresh(r, need, t) ==
  need.mode \in {"MAX_AGE", "REQUIRE_CURRENT"} /\ ~Satisfied(r, need, t)
-----------------------------------------------------------------------------
(***************************************************************************)
(* CourseLibrary._query.                                                   *)
(***************************************************************************)
\* The first page of a query: the revision is taken before anything is read.
BeginQuery(p, need) ==
  /\ p \in Asker
  /\ query[p].phase = "idle" /\ sync[p].phase = "idle"
  /\ query' = [query EXCEPT ![p] = [NoQuery EXCEPT !.phase = "loading", !.need = need,
                                                   !.page = 1, !.clean = TRUE]]
  /\ UNCHANGED <<row, recorded, data, sync, lastRun, now>>

\* Mutant: a cursor is accepted whatever has changed since.
CursorHoldsAlways(p) == TRUE

\* _pagination: the cursor names the revision of the page it continues.
CursorHolds(p) == query[p].clean

NextPage(p) ==
  /\ Paginated
  /\ query[p].phase = "answered" /\ query[p].page < MaxPage
  /\ CursorHolds(p)
  /\ query' = [query EXCEPT ![p].phase = "loading", ![p].page = @ + 1, ![p].clean = TRUE]
  /\ UNCHANGED <<row, recorded, data, sync, lastRun, now>>

Load(p) ==
  /\ query[p].phase \in {"loading", "reloading"}
  /\ query' = [query EXCEPT ![p].value = data,
                            ![p].first = IF query[p].page = 1 THEN data ELSE @,
                            ![p].phase = IF @ = "loading" THEN "loaded" ELSE "reloaded"]
  /\ UNCHANGED <<row, recorded, data, sync, lastRun, now>>

ReadClock(p) ==
  /\ query[p].phase = "loaded"
  /\ query' = [query EXCEPT ![p].clock = now, ![p].phase = "timed"]
  /\ UNCHANGED <<row, recorded, data, sync, lastRun, now>>

Wanting(p) ==
  query[p].phase = "timed" /\ ShouldRefresh(row, query[p].need, query[p].clock)

\* The freshness decision, made on the row as it is now for the instant read
\* before; final after a refresh, and without an engine or for a historical
\* question.
Decide(p) ==
  /\ query[p].phase \in {"timed", "reloaded"}
  /\ Wanting(p) => query[p].page = 1
  /\ query' = [query EXCEPT ![p].phase = "decided",
                            ![p].asOf = row.complete,
                            ![p].satisfied = Satisfied(row, query[p].need, query[p].clock)]
  /\ UNCHANGED <<row, recorded, data, sync, lastRun, now>>

\* SyncEngine.refresh_scope, run by the querying process itself.
Refresh(p) ==
  /\ Wanting(p) /\ query[p].page = 1
  /\ lastRun < MaxRun
  /\ lastRun' = lastRun + 1
  /\ sync' = [sync EXCEPT ![p] = Started]
  /\ query' = [Touched EXCEPT ![p].phase = "refreshing"]
  /\ UNCHANGED <<row, recorded, data, now>>

\* The scope cannot be refreshed: an error in the answer, which is read again.
RefuseRefresh(p) ==
  /\ Wanting(p) /\ query[p].page = 1
  /\ query' = [query EXCEPT ![p].phase = "reloading", ![p].clean = TRUE]
  /\ UNCHANGED <<row, recorded, data, sync, lastRun, now>>

\* Mutant: the decision is made again, but the items are not.
RefreshedUnread(p) ==
  /\ query[p].phase = "refreshing" /\ sync[p].phase = "idle"
  /\ query' = [query EXCEPT ![p].phase = "reloaded", ![p].clean = TRUE]
  /\ UNCHANGED <<row, recorded, data, sync, lastRun, now>>

\* The refresh is over, well or badly: a new revision, and everything is read
\* again.
Refreshed(p) ==
  /\ query[p].phase = "refreshing" /\ sync[p].phase = "idle"
  /\ query' = [query EXCEPT ![p].phase = "reloading", ![p].clean = TRUE]
  /\ UNCHANGED <<row, recorded, data, sync, lastRun, now>>

\* Mutant: the revision is not compared.
GuardHoldsAlways(p) == TRUE

GuardHolds(p) == Paginated => query[p].clean

Answer(p) ==
  /\ query[p].phase = "decided"
  /\ GuardHolds(p)
  /\ query' = [query EXCEPT ![p].phase = "answered"]
  /\ UNCHANGED <<row, recorded, data, sync, lastRun, now>>

\* "local data changed while reading a page", "a continuation page cannot
\* refresh source data", or the caller has its answer.
EndQuery(p) ==
  /\ \/ query[p].phase = "decided" /\ ~GuardHolds(p)
     \/ Wanting(p) /\ query[p].page > 1
     \/ query[p].phase = "answered"
  /\ query' = [query EXCEPT ![p] = NoQuery]
  /\ UNCHANGED <<row, recorded, data, sync, lastRun, now>>

Tick ==
  /\ now < MaxTime
  /\ now' = now + 1
  /\ UNCHANGED <<row, recorded, data, sync, query, lastRun>>

SyncStep(p) ==
  \/ StartRun(p) \/ ReadPage(p) \/ RecordAttempt(p) \/ EndRun(p) \/ Crash(p)
  \/ \E c \in Coverage, mute \in BOOLEAN : EndScan(p, c, mute)
  \/ \E t \in 1..now : ReplayCapture(p, t)

QueryStep(p) ==
  \/ \E need \in Requirement : BeginQuery(p, need)
  \/ NextPage(p) \/ Load(p) \/ ReadClock(p) \/ Decide(p) \/ Refresh(p)
  \/ RefuseRefresh(p) \/ Refreshed(p) \/ Answer(p) \/ EndQuery(p)

Next == Tick \/ \E p \in Process : SyncStep(p) \/ QueryStep(p)

Spec == Init /\ [][Next]_vars
-----------------------------------------------------------------------------
(***************************************************************************)
(* Properties.                                                             *)
(***************************************************************************)
\* stamp is the latest of the stamps in S, Never if there is none.
IsLatest(stamp, S) ==
  /\ \/ stamp = Never /\ S = {}
     \/ \E a \in S : a.stamp = stamp
  /\ \A a \in S : ~Later(a.stamp, stamp)

\* The markers of the row are functions of the set of attempts recorded, in
\* whatever order the runs recorded them: a delayed run neither moves a marker
\* back nor loses its own success.
MarkersOrderFree ==
  /\ IsLatest(row.attempt, recorded)
  /\ IsLatest(row.success, {a \in recorded : OutcomeOf(a) = "SUCCEEDED"})
  /\ IsLatest(row.complete, {a \in recorded : a.coverage = "COMPLETE"})
  /\ \A a \in recorded : a.stamp = row.attempt =>
       row.coverage = a.coverage /\ row.outcome = OutcomeOf(a)

\* What SyncState refuses to load ("last complete observation cannot be newer
\* than last success") is never stored, or the scope could not be read again.
RowLoadable ==
  /\ ~Later(row.success, row.attempt)
  /\ ~Later(row.complete, row.success)
  /\ ~Later(row.caps, row.attempt)

\* No recording moves a marker back, and the capabilities of the scope change
\* only with an attempt later than all before it.
MarkersNeverRegress ==
  [][/\ ~Later(row.attempt, row'.attempt)
     /\ ~Later(row.success, row'.success)
     /\ ~Later(row.complete, row'.complete)
     /\ row'.caps # row.caps => Later(row'.attempt, row.attempt)]_vars

\* What the row calls complete is in the database: the stored object is at
\* least as recent as every recorded attempt read it.
CompleteIsStored == \A a \in recorded : a.read <= data

\* A scope is called current only if no recorded attempt after its complete
\* snapshot is known to have failed or to be partial.
CurrentHidesNothing ==
  \A need \in Requirement : Current(row, need, now) =>
    \A a \in recorded : ~Later(a.stamp, row.complete)

\* An answer carries the data of the complete snapshot it cites, although the
\* data, the clock and the sync_state row were read one after the other.
AnswersServeTheirSnapshot ==
  \A p \in Process, a \in recorded :
    query[p].phase = "answered" /\ a.stamp = query[p].asOf => query[p].value >= a.read

\* When an answer is given whose requirement is satisfied, a complete attempt
\* meets the requirement, its data is in the answer, and no attempt recorded by
\* then is later: nothing that happened since the row was read contradicts it.
SatisfiedMeansFresh ==
  [][\A p \in Process :
       LET q == query[p]
       IN query'[p].phase = "answered" /\ q.phase = "decided" /\ q.satisfied
             /\ q.need.mode \in {"MAX_AGE", "REQUIRE_CURRENT"} =>
          \E a \in recorded :
            /\ a.coverage = "COMPLETE" /\ a.read <= q.value
            /\ a.stamp.at + q.need.age >= q.clock
            /\ \A b \in recorded : ~Later(b.stamp, a.stamp)]_vars

\* All pages of one listing show the same data.
PagesAgree ==
  \A p \in Process : query[p].phase = "answered" => query[p].value = query[p].first
=============================================================================
