------------------------------ MODULE LocalJobs ------------------------------
(***************************************************************************)
(* The durable queue of local work (sync/jobs.py, migration 0009): one row *)
(* of local_job per content-derived identity, planned as chains            *)
(*     parse -> index        parse -> extract -> reconcile                 *)
(* for a verified resource version and extract -> reconcile for a          *)
(* structured observation, and executed by sync processes that claim a     *)
(* row under a lease, work outside any transaction, and record the result  *)
(* under the token of their claim.                                         *)
(*                                                                         *)
(* Every Database.transaction() is BEGIN IMMEDIATE on one SQLite file, so  *)
(* one transaction is one action here and everything between two           *)
(* transactions of a process interleaves with the other processes.         *)
(***************************************************************************)
EXTENDS Integers, FiniteSets

CONSTANTS
  Version,       \* verified resource versions (plan_resource)
  Observation,   \* canonical structured observations (plan_observation)
  Process,       \* processes that may run a synchronization
  NoJob,         \* "no job": an absent dependency, an unclaimed worker
  MaxAttempts,   \* max_attempts of every row
  Lease,         \* lease duration, in ticks
  MaxJobs,       \* max_jobs of a run
  Upgradable,    \* bound: kinds of job whose component may be upgraded
  MaxRelease,    \* bound: releases of such a component
  MaxTime,       \* bound: after this instant time only passes to expire leases
  MaxCrashes     \* bound: process crashes

Kind == {"parse", "index", "extract", "reconcile"}
Release == 1 .. MaxRelease
Input == Version \cup Observation

\* A contract names the release of the component behind each kind of job;
\* 0 stands for a component the job's identity does not mention.
Contract == {c \in [Kind -> Release] : \A k \in Kind \ Upgradable : c[k] = 1}
PartialContract == [Kind -> Release \cup {0}]
NoResult == [k \in Kind |-> 0]

ASSUME LocalJobsAssumption ==
  /\ Version \cap Observation = {}
  /\ MaxAttempts \in Nat \ {0}
  /\ Lease \in Nat \ {0}
  /\ MaxJobs \in Nat \ {0}
  /\ Upgradable \subseteq Kind
  /\ MaxRelease \in Nat \ {0}
  /\ MaxTime \in Nat
  /\ MaxCrashes \in Nat
-----------------------------------------------------------------------------
(***************************************************************************)
(* Identities.  input_identity hashes the input and the releases of the    *)
(* components on the path that leads to the job, so it is that path here.  *)
(***************************************************************************)
Upstream(k) ==
  CASE k = "parse"     -> {"parse"}
    [] k = "index"     -> {"parse", "index"}
    [] k = "extract"   -> {"parse", "extract"}
    [] k = "reconcile" -> {"parse", "extract", "reconcile"}

Path(i, k) == IF i \in Version THEN Upstream(k) ELSE Upstream(k) \ {"parse"}

KindsOf(i) == IF i \in Version THEN Kind ELSE {"extract", "reconcile"}

JobFor(i, k, c) ==
  [input |-> i, kind |-> k,
   contract |-> [x \in Kind |-> IF x \in Path(i, k) THEN c[x] ELSE 0]]

Job == UNION {{JobFor(i, k, c) : k \in KindsOf(i), c \in Contract} : i \in Input}

ASSUME NoJobAssumption == NoJob \notin Job

Dependency(j) ==
  CASE j.kind = "reconcile" -> JobFor(j.input, "extract", j.contract)
    [] j.kind \in {"index", "extract"} /\ j.input \in Version ->
         JobFor(j.input, "parse", j.contract)
    [] OTHER -> NoJob

\* The jobs one call of plan_resource or plan_observation schedules.
PlanOf(i, c) == {JobFor(i, k, c) : k \in KindsOf(i)}

\* schedule() is called for parse, index, extract, reconcile in this order.
Rank(k) == CASE k = "parse" -> 1 [] k = "index" -> 2
             [] k = "extract" -> 3 [] k = "reconcile" -> 4
-----------------------------------------------------------------------------
VARIABLES
  job,        \* job[j]: the row of j; status "ABSENT" before it is scheduled
  lastKey,    \* the largest job_key handed out
  proc,       \* proc[p]: the local state of process p
  installed,  \* the component releases a process started now would load
  now,        \* utc_now()
  crashes     \* how many processes have crashed

vars == <<job, lastKey, proc, installed, now, crashes>>

Status == {"ABSENT", "PENDING", "RUNNING", "SUCCEEDED", "FAILED"}

\* A token is compared only with the token of the same row, and every claim
\* of a row raises attempts, so the attempt number stands for the fresh uuid.
NoToken == 0
NoLease == 0

Row == [status: Status, key: Nat, attempts: 0 .. MaxAttempts, available: Nat,
        lease: Nat, token: 0 .. MaxAttempts, result: PartialContract]

Phase == {"idle", "planning", "recovering", "claiming", "executing", "finishing"}

\* The claim a process works under, and the result its execution gave.
Task == [job: Job \cup {NoJob}, token: 0 .. MaxAttempts, result: PartialContract]
NoTask == [job |-> NoJob, token |-> NoToken, result |-> NoResult]

Proc == [phase: Phase, contract: Contract, selected: SUBSET Job, clock: Nat,
         claimed: 0 .. MaxJobs, task: Task]

Working(P) == P.phase \in {"executing", "finishing"}

TypeOK ==
  /\ job \in [Job -> Row]
  /\ lastKey \in Nat
  /\ proc \in [Process -> Proc]
  /\ \A p \in Process : Working(proc[p]) => proc[p].task.job \in Job
  /\ installed \in Contract
  /\ now \in Nat
  /\ crashes \in 0 .. MaxCrashes

AbsentRow == [status |-> "ABSENT", key |-> 0, attempts |-> 0, available |-> 0,
              lease |-> NoLease, token |-> NoToken, result |-> NoResult]

IdleProc == [phase |-> "idle", contract |-> [k \in Kind |-> 1], selected |-> {},
             clock |-> 0, claimed |-> 0, task |-> NoTask]

Init ==
  /\ job = [j \in Job |-> AbsentRow]
  /\ lastKey = 0
  /\ proc = [p \in Process |-> IdleProc]
  /\ installed = [k \in Kind |-> 1]
  /\ now = 0
  /\ crashes = 0

Scheduled == {j \in Job : job[j].status # "ABSENT"}
Succeeded == {j \in Job : job[j].status = "SUCCEEDED"}
Released(d) == d = NoJob \/ d \in Succeeded
-----------------------------------------------------------------------------
(***************************************************************************)
(* Planning: one transaction inserts the missing rows of a chain and       *)
(* leaves the existing ones alone (ON CONFLICT DO NOTHING).  A row's       *)
(* payload and dependency are functions of its identity, so the identity   *)
(* collision error cannot arise.  Only the order of job_key matters: each  *)
(* plan that inserts takes a block of four.                                *)
(***************************************************************************)
NewRow(j) ==
  [status |-> "PENDING", key |-> lastKey + Rank(j.kind), attempts |-> 0, available |-> now,
   lease |-> NoLease, token |-> NoToken, result |-> NoResult]

Schedule(S) ==
  LET missing == S \ Scheduled
  IN /\ job' = [j \in Job |-> IF j \in missing THEN NewRow(j) ELSE job[j]]
     /\ lastKey' = IF missing = {} THEN lastKey ELSE lastKey + 4

\* A sync process starts; the code it runs stays loaded until it exits.
StartSession(p) ==
  /\ proc[p].phase = "idle"
  /\ proc' = [proc EXCEPT ![p].phase = "planning", ![p].contract = installed]
  /\ UNCHANGED <<job, lastKey, installed, now, crashes>>

\* A synchronization ends normally only after running what it planned.
EndSession(p) ==
  /\ proc[p].phase = "planning"
  /\ proc[p].selected = {}
  /\ proc' = [proc EXCEPT ![p] = IdleProc]
  /\ UNCHANGED <<job, lastKey, installed, now, crashes>>

\* The engine plans the chain of an input it discovered or fetched and adds
\* the keys to the ones this run may work on.
Plan(p, i) ==
  /\ proc[p].phase = "planning"
  /\ Schedule(PlanOf(i, proc[p].contract))
  /\ proc' = [proc EXCEPT ![p].selected = @ \cup PlanOf(i, proc[p].contract)]
  /\ UNCHANGED <<installed, now, crashes>>

\* LocalJobRunner.run reads the clock once, for the whole run.
Started(P) == [P EXCEPT !.phase = "recovering", !.clock = now]

BeginRun(p) ==
  /\ proc[p].phase = "planning"
  /\ proc' = [proc EXCEPT ![p] = Started(@)]
  /\ UNCHANGED <<job, lastKey, installed, now, crashes>>

\* A run given no job_keys works on the whole table, other releases' rows too.
BeginWholeQueueRun(p) ==
  /\ proc[p].phase = "planning"
  /\ proc[p].selected = {}
  /\ proc' = [proc EXCEPT ![p] = [Started(@) EXCEPT !.selected = Job]]
  /\ UNCHANGED <<job, lastKey, installed, now, crashes>>

\* Mutant: whatever is RUNNING counts as interrupted.
ExpiredIfRunning(row, clock) == row.status = "RUNNING"

Expired(row, clock) == row.status = "RUNNING" /\ row.lease <= clock

Freed(row) == [row EXCEPT !.lease = NoLease, !.token = NoToken]

\* Mutant: an exhausted row goes back to waiting.
RecoveredAlwaysWaiting(row, clock) ==
  [Freed(row) EXCEPT !.status = "PENDING", !.available = clock]

RecoveredRow(row, clock) ==
  [Freed(row) EXCEPT !.status = IF row.attempts < MaxAttempts THEN "PENDING" ELSE "FAILED",
                     !.available = clock]

RecoverInterrupted(p) ==
  /\ proc[p].phase = "recovering"
  /\ job' = [j \in Job |->
               IF j \in proc[p].selected /\ Expired(job[j], proc[p].clock)
                 THEN RecoveredRow(job[j], proc[p].clock)
                 ELSE job[j]]
  /\ proc' = [proc EXCEPT ![p].phase = "claiming"]
  /\ UNCHANGED <<lastKey, installed, now, crashes>>
-----------------------------------------------------------------------------
(***************************************************************************)
(* Claiming and executing.                                                 *)
(***************************************************************************)
\* Mutant: the dependency is not looked at.
ClaimableOutOfOrder(p) ==
  {j \in proc[p].selected :
     /\ job[j].status = "PENDING"
     /\ job[j].available <= proc[p].clock
     /\ job[j].attempts < MaxAttempts}

Claimable(p) ==
  {j \in proc[p].selected :
     /\ job[j].status = "PENDING"
     /\ job[j].available <= proc[p].clock
     /\ job[j].attempts < MaxAttempts
     /\ Released(Dependency(j))}

Leased(row, clock) == [row EXCEPT !.lease = clock + Lease, !.token = row.attempts + 1]

\* Mutant: the attempt is not counted.
ClaimedUncounted(row, clock) == [Leased(row, clock) EXCEPT !.status = "RUNNING"]

ClaimedRow(row, clock) ==
  [Leased(row, clock) EXCEPT !.status = "RUNNING", !.attempts = @ + 1]

NewTask(j) == [job |-> j, token |-> job[j].attempts + 1, result |-> NoResult]

Engaged(P, task) == [P EXCEPT !.phase = "executing", !.task = task, !.claimed = @ + 1]

\* Mutant: the run's bound is forgotten.
ClaimsLeftAlways(p) == TRUE

ClaimsLeft(p) == proc[p].claimed < MaxJobs

Claim(p) ==
  /\ proc[p].phase = "claiming"
  /\ ClaimsLeft(p)
  /\ \E j \in Claimable(p) :
       /\ \A i \in Claimable(p) : job[j].key <= job[i].key
       /\ job' = [job EXCEPT ![j] = ClaimedRow(@, proc[p].clock)]
       /\ proc' = [proc EXCEPT ![p] = Engaged(@, NewTask(j))]
  /\ UNCHANGED <<lastKey, installed, now, crashes>>

\* max_jobs are claimed, or nothing is claimable: the run reports its counts
\* and the synchronization goes on, with its next course or to its end.
EndRun(p) ==
  /\ proc[p].phase = "claiming"
  /\ ~ClaimsLeft(p) \/ Claimable(p) = {}
  /\ proc' = [proc EXCEPT ![p] = [IdleProc EXCEPT !.phase = "planning",
                                                  !.contract = proc[p].contract]]
  /\ UNCHANGED <<job, lastKey, installed, now, crashes>>

\* The loaded component must be the one the row was planned for; an
\* extraction of a version also needs the recorded result of its parse job.
ContractHolds(p, j) ==
  /\ proc[p].contract[j.kind] = j.contract[j.kind]
  /\ j.kind = "extract" => Released(Dependency(j))

\* Mutant: the extraction reads the installed parser's document.
ParserInstalled(p, j) == proc[p].contract["parse"]

ParserBehind(p, j) == job[Dependency(j)].result["parse"]

\* Which releases the recorded artifact comes from.
Produced(p, j) ==
  [k \in Kind |->
     IF k = j.kind THEN proc[p].contract[k]
     ELSE IF k = "parse" /\ j.kind = "extract" /\ j.input \in Version
       THEN ParserBehind(p, j)
       ELSE 0]

\* _execute runs outside the queue's transactions and may raise at any time.
Execute(p) ==
  /\ proc[p].phase = "executing"
  /\ \/ proc' = [proc EXCEPT ![p].phase = "finishing"]
     \/ /\ ContractHolds(p, proc[p].task.job)
        /\ proc' = [proc EXCEPT ![p].phase = "finishing",
                                ![p].task.result = Produced(p, proc[p].task.job)]
  /\ UNCHANGED <<job, lastKey, installed, now, crashes>>

\* Mutant: the token is not compared.
HoldsRunningRow(p) == job[proc[p].task.job].status = "RUNNING"

HoldsLease(p) ==
  LET row == job[proc[p].task.job]
  IN row.status = "RUNNING" /\ row.token = proc[p].task.token

FinishedRow(row, result) ==
  [Freed(row) EXCEPT !.status = IF result = NoResult THEN "FAILED" ELSE "SUCCEEDED",
                     !.result = result]

Finish(p) ==
  /\ proc[p].phase = "finishing"
  /\ HoldsLease(p)
  /\ job' = [job EXCEPT ![proc[p].task.job] = FinishedRow(@, proc[p].task.result)]
  /\ proc' = [proc EXCEPT ![p].phase = "claiming", ![p].task = NoTask]
  /\ UNCHANGED <<lastKey, installed, now, crashes>>

\* "local job lease was lost" escapes run(): the whole run is abandoned.
LeaseLost(p) ==
  /\ proc[p].phase = "finishing"
  /\ ~HoldsLease(p)
  /\ proc' = [proc EXCEPT ![p] = IdleProc]
  /\ UNCHANGED <<job, lastKey, installed, now, crashes>>
-----------------------------------------------------------------------------
(***************************************************************************)
(* The environment.                                                        *)
(***************************************************************************)
\* LocalJobQueue.retry_failed, called by an operator of the library.
RetryFailed(j) ==
  /\ job[j].status = "FAILED"
  /\ job[j].attempts < MaxAttempts
  /\ job' = [job EXCEPT ![j].status = "PENDING", ![j].available = now]
  /\ UNCHANGED <<lastKey, proc, installed, now, crashes>>

\* The process dies, or an error outside _execute ends its run.
Crash(p) ==
  /\ proc[p].phase # "idle"
  /\ crashes < MaxCrashes
  /\ crashes' = crashes + 1
  /\ proc' = [proc EXCEPT ![p] = IdleProc]
  /\ UNCHANGED <<job, lastKey, installed, now>>

Upgrade(k) ==
  /\ k \in Upgradable
  /\ installed[k] < MaxRelease
  /\ installed' = [installed EXCEPT ![k] = @ + 1]
  /\ UNCHANGED <<job, lastKey, proc, now, crashes>>

Tick ==
  /\ now < MaxTime \/ \E j \in Job : job[j].lease > now
  /\ now' = now + 1
  /\ UNCHANGED <<job, lastKey, proc, installed, crashes>>

RunStep(p) ==
  \/ BeginRun(p) \/ RecoverInterrupted(p) \/ Claim(p) \/ EndRun(p)
  \/ Execute(p) \/ Finish(p) \/ LeaseLost(p)

Next ==
  \/ \E p \in Process : \/ StartSession(p)
                        \/ EndSession(p)
                        \/ BeginWholeQueueRun(p)
                        \/ \E i \in Input : Plan(p, i)
                        \/ RunStep(p)
                        \/ Crash(p)
  \/ \E j \in Job : RetryFailed(j)
  \/ \E k \in Kind : Upgrade(k)
  \/ Tick

Spec == Init /\ [][Next]_vars

\* A live process takes its next step and time passes; synchronizations are
\* repeated, every repetition rediscovers every input (and so plans it) and
\* finishes after finitely many courses.
Fairness ==
  /\ WF_vars(Tick)
  /\ \A p \in Process :
       /\ WF_vars(StartSession(p))
       /\ WF_vars(RunStep(p))
       /\ SF_vars(EndSession(p))
       /\ \A i \in Input : SF_vars(Plan(p, i))

FairSpec == Spec /\ Fairness
-----------------------------------------------------------------------------
(***************************************************************************)
(* Safety.                                                                 *)
(***************************************************************************)
\* The CHECK constraints of local_job as the transitions keep them, and more:
\* a waiting row always has an attempt left, so the "attempts exhausted" case
\* of a PENDING row in LocalJobQueue.counts is dead, and exactly the rows that
\* were claimed at least once can be over.
RowCoherent(row) ==
  /\ (row.status = "RUNNING") = (row.token # NoToken)
  /\ (row.status = "RUNNING") = (row.lease # NoLease)
  /\ (row.status = "SUCCEEDED") = (row.result # NoResult)
  /\ row.status = "PENDING" => row.attempts < MaxAttempts
  /\ row.status \in {"RUNNING", "SUCCEEDED", "FAILED"} => row.attempts > 0
  /\ row.status = "ABSENT" => row.attempts = 0

\* Every row is coherent after every transaction, whoever ran it.
RowsCoherent == \A j \in Job : RowCoherent(job[j])

\* No job is attempted before its dependency has succeeded, and none is
\* scheduled without it: overview.md's "idempotent jobs keyed by exact input
\* versions" run in the order the planner gave them, whatever is retried,
\* recovered or replanned.
DependenciesFirst ==
  \A j \in Job :
    LET d == Dependency(j)
    IN /\ job[j].attempts > 0 => Released(d)
       /\ j \in Scheduled /\ d # NoJob => d \in Scheduled /\ job[d].key < job[j].key

\* Two processes never both hold the lease of a row, though both may be
\* executing it: at most one of the results can be recorded.
OneHolder ==
  \A p, q \in Process :
    /\ Working(proc[p]) /\ Working(proc[q])
    /\ proc[p].task.job = proc[q].task.job
    /\ HoldsLease(p) /\ HoldsLease(q)
    => p = q

\* A process that finds its lease lost had it for the whole lease counted from
\* the start of its run: nobody takes a row over before that instant.
LostOnlyAfterExpiry ==
  \A p \in Process :
    Working(proc[p]) /\ ~HoldsLease(p) => proc[p].clock + Lease <= now

\* The recorded result of a parse or an extraction comes from exactly the
\* releases in the job's identity, whatever is installed when it runs: an
\* extraction is pinned to the document of its own parse job.
PinnedTo(j, result) ==
  /\ result[j.kind] = j.contract[j.kind]
  /\ j.kind \in {"parse", "extract"} => result = j.contract

ArtifactsPinned == \A j \in Succeeded : PinnedTo(j, job[j].result)

\* The step of one row that LeasesHonoured allows.
ClaimHonoured(j) ==
  /\ job[j].status = "RUNNING" /\ job'[j].token # job[j].token
       => \/ job[j].lease <= now
          \/ \E p \in Process : /\ proc[p].phase = "finishing"
                                /\ proc[p].task.job = j
                                /\ proc[p].task.token = job[j].token
                                /\ job'[j].result = proc[p].task.result
  /\ job[j].status = "SUCCEEDED" => job'[j] = job[j]

\* A row leaves the hands of a claim only by the finish of its claimant or
\* after the lease has expired, and a result once recorded is never replaced.
LeasesHonoured == [][\A j \in Job : ClaimHonoured(j)]_vars

(***************************************************************************)
(* The facts about claims in flight on which the safety properties rest.   *)
(***************************************************************************)
\* A row's token is that of its latest attempt, and no run's clock is ahead.
ClaimsInFlight ==
  /\ \A j \in Job : /\ job[j].token \in {NoToken, job[j].attempts}
                    /\ job[j].key <= lastKey
  /\ \A p \in Process :
       /\ proc[p].clock <= now
       /\ Working(proc[p]) =>
            LET task == proc[p].task
            IN /\ task.token \in 1 .. job[task.job].attempts
               /\ HoldsLease(p) => job[task.job].lease = proc[p].clock + Lease
               /\ task.result = NoResult \/ PinnedTo(task.job, task.result)

\* No two processes work under the same claim.
ClaimsDistinct ==
  \A p, q \in Process :
    /\ Working(proc[p]) /\ Working(proc[q])
    /\ proc[p].task.job = proc[q].task.job
    /\ proc[p].task.token = proc[q].task.token
    => p = q

IndInv ==
  /\ TypeOK
  /\ RowsCoherent
  /\ DependenciesFirst
  /\ LostOnlyAfterExpiry
  /\ ArtifactsPinned
  /\ ClaimsInFlight
  /\ ClaimsDistinct
-----------------------------------------------------------------------------
(***************************************************************************)
(* Liveness: every scheduled job is eventually over, waits for a job that  *)
(* failed, or belongs to a release no later run plans for.                 *)
(***************************************************************************)
Ancestors(j) ==
  {i \in Job : i = Dependency(j) \/ (Dependency(j) # NoJob /\ i = Dependency(Dependency(j)))}

Settled(j) ==
  \/ job[j].status \in {"SUCCEEDED", "FAILED"}
  \/ \E i \in Ancestors(j) : job[i].status = "FAILED"
  \/ \E k \in Kind : j.contract[k] \notin {0, installed[k]}

JobsSettle == \A j \in Job : j \in Scheduled ~> Settled(j)

Requires == {e \in Job \X Job : e[2] = Dependency(e[1])}

\* The queue implements the ledger: the starts of a job are its attempts and
\* it is done when its row has SUCCEEDED.
Ledger ==
  INSTANCE JobLedger WITH
    Budget <- MaxAttempts,
    starts <- [j \in Job |-> job[j].attempts],
    done <- Succeeded

LedgerRefined == Ledger!LedgerSpec
=============================================================================
