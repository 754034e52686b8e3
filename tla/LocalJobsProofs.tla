--------------------------- MODULE LocalJobsProofs ---------------------------
(***************************************************************************)
(* Safety of the local-job queue for every value of the constants: any     *)
(* number of inputs, processes, releases, attempts and crashes.            *)
(***************************************************************************)
EXTENDS LocalJobs, TLAPS

(***************************************************************************)
(* What a job identity is made of.                                         *)
(***************************************************************************)
\* Every job is built from an input, one of its kinds and a full contract.
LEMMA JobParts ==
  ASSUME NEW j \in Job
  PROVE  \E i \in Input, c \in Contract :
           /\ j.kind \in KindsOf(i)
           /\ j = JobFor(i, j.kind, c)
           /\ j.input = i
           /\ j.contract = [x \in Kind |-> IF x \in Path(i, j.kind) THEN c[x] ELSE 0]
  <1>1. PICK i \in Input : j \in {JobFor(i, k, c) : k \in KindsOf(i), c \in Contract}
    BY DEF Job
  <1>2. PICK k \in KindsOf(i), c \in Contract : j = JobFor(i, k, c)
    BY <1>1
  <1>3. j.kind = k /\ j.input = i
    BY <1>2 DEF JobFor
  <1>4. j.contract = [x \in Kind |-> IF x \in Path(i, k) THEN c[x] ELSE 0]
    BY <1>2 DEF JobFor
  <1> QED
    BY <1>2, <1>3, <1>4

\* A job's kind and partial contract are well typed.
LEMMA JobTyped ==
  ASSUME NEW j \in Job
  PROVE  j.kind \in Kind /\ j.contract \in PartialContract /\ j.input \in Input
  <1>1. PICK i \in Input, c \in Contract :
           /\ j.kind \in KindsOf(i)
           /\ j.input = i
           /\ j.contract = [x \in Kind |-> IF x \in Path(i, j.kind) THEN c[x] ELSE 0]
    BY JobParts
  <1> QED
    BY <1>1 DEF KindsOf, Kind, PartialContract, Contract

\* The jobs a plan schedules are jobs.
LEMMA PlanIsJobs ==
  ASSUME NEW i \in Input, NEW c \in Contract
  PROVE  PlanOf(i, c) \subseteq Job
  BY DEF PlanOf, Job

\* Restricting a contract to a path keeps what the shorter path needs.
LEMMA DependencyOfPlanned ==
  ASSUME NEW i \in Input, NEW c \in Contract, NEW k \in KindsOf(i)
  PROVE  LET d == Dependency(JobFor(i, k, c))
         IN /\ k = "parse" => d = NoJob
            /\ k = "extract" /\ i \notin Version => d = NoJob
            /\ k = "reconcile" => d = JobFor(i, "extract", c)
            /\ k \in {"index", "extract"} /\ i \in Version => d = JobFor(i, "parse", c)
  <1> DEFINE j == JobFor(i, k, c)
  <1>1. j.kind = k /\ j.input = i
    BY DEF JobFor
  <1>2. j.contract = [x \in Kind |-> IF x \in Path(i, k) THEN c[x] ELSE 0]
    BY DEF JobFor
  <1>3. ASSUME NEW e \in Kind, Path(i, e) \subseteq Path(i, k)
        PROVE  JobFor(i, e, j.contract) = JobFor(i, e, c)
    <2>1. [x \in Kind |-> IF x \in Path(i, e) THEN j.contract[x] ELSE 0]
            = [x \in Kind |-> IF x \in Path(i, e) THEN c[x] ELSE 0]
      BY <1>2, <1>3
    <2> QED
      BY <2>1 DEF JobFor
  <1>4. k = "reconcile" => Path(i, "extract") \subseteq Path(i, k)
    BY DEF Path, Upstream
  <1>5. k \in {"index", "extract"} /\ i \in Version => Path(i, "parse") \subseteq Path(i, k)
    BY DEF Path, Upstream
  <1>6. "extract" \in Kind /\ "parse" \in Kind
    BY DEF Kind
  <1>7. k = "reconcile" => Dependency(j) = JobFor(i, "extract", c)
    BY <1>1, <1>3, <1>4, <1>6 DEF Dependency
  <1>8. k \in {"index", "extract"} /\ i \in Version => Dependency(j) = JobFor(i, "parse", c)
    BY <1>1, <1>3, <1>5, <1>6 DEF Dependency
  <1>9. k = "parse" \/ (k = "extract" /\ i \notin Version) => Dependency(j) = NoJob
    BY <1>1 DEF Dependency
  <1> QED
    BY <1>7, <1>8, <1>9

\* A job waits for nothing or for an earlier job of the same plan.
LEMMA DependencyInPlan ==
  ASSUME NEW i \in Input, NEW c \in Contract, NEW j \in PlanOf(i, c),
         Dependency(j) # NoJob
  PROVE  Dependency(j) \in PlanOf(i, c) /\ Rank(Dependency(j).kind) < Rank(j.kind)
  <1>1. PICK k \in KindsOf(i) : j = JobFor(i, k, c)
    BY DEF PlanOf
  <1>2. j.kind = k
    BY <1>1 DEF JobFor
  <1>3. k \in Kind
    BY DEF KindsOf, Kind
  <1>4. CASE k = "reconcile"
    <2>1. Dependency(j) = JobFor(i, "extract", c)
      BY <1>1, <1>4, DependencyOfPlanned
    <2>2. "extract" \in KindsOf(i) /\ JobFor(i, "extract", c).kind = "extract"
      BY DEF KindsOf, Kind, JobFor
    <2> QED
      BY <1>2, <1>4, <2>1, <2>2 DEF PlanOf, Rank
  <1>5. CASE k \in {"index", "extract"} /\ i \in Version
    <2>1. Dependency(j) = JobFor(i, "parse", c)
      BY <1>1, <1>5, DependencyOfPlanned
    <2>2. "parse" \in KindsOf(i) /\ JobFor(i, "parse", c).kind = "parse"
      BY <1>5 DEF KindsOf, Kind, JobFor
    <2> QED
      BY <1>2, <1>5, <2>1, <2>2 DEF PlanOf, Rank
  <1>6. k = "index" => i \in Version
    BY DEF KindsOf
  <1>7. k = "parse" \/ (k = "extract" /\ i \notin Version) => Dependency(j) = NoJob
    BY <1>1, DependencyOfPlanned
  <1> QED
    BY <1>3, <1>4, <1>5, <1>6, <1>7 DEF Kind

\* Every job belongs to a plan.
LEMMA JobInPlan ==
  ASSUME NEW j \in Job
  PROVE  \E i \in Input, c \in Contract : j \in PlanOf(i, c)
  BY DEF Job, PlanOf

\* A dependency is absent or a job.
LEMMA DependencyIsJob ==
  ASSUME NEW j \in Job
  PROVE  Dependency(j) \in Job \cup {NoJob}
  <1>1. PICK i \in Input, c \in Contract : j \in PlanOf(i, c)
    BY JobInPlan
  <1> QED
    BY <1>1, DependencyInPlan, PlanIsJobs

\* The document an extraction of a version reads is of the planned parser.
LEMMA ExtractionPinned ==
  ASSUME NEW j \in Job, j.kind = "extract", j.input \in Version
  PROVE  /\ Dependency(j) \in Job
         /\ Dependency(j).kind = "parse"
         /\ Dependency(j).contract["parse"] = j.contract["parse"]
  <1>1. PICK i \in Input, c \in Contract :
           /\ j.kind \in KindsOf(i)
           /\ j = JobFor(i, j.kind, c)
           /\ j.input = i
           /\ j.contract = [x \in Kind |-> IF x \in Path(i, j.kind) THEN c[x] ELSE 0]
    BY JobParts
  <1>2. Dependency(j) = JobFor(i, "parse", c)
    BY <1>1, DependencyOfPlanned
  <1>3. "parse" \in KindsOf(i) /\ "parse" \in Kind
    BY <1>1 DEF KindsOf, Kind
  <1>4. Dependency(j) \in Job
    BY <1>2, <1>3 DEF Job
  <1>5. "parse" \in Path(i, "parse") /\ "parse" \in Path(i, "extract")
    BY <1>1 DEF Path, Upstream
  <1>6. Dependency(j).kind = "parse" /\ Dependency(j).contract["parse"] = c["parse"]
    BY <1>2, <1>3, <1>5 DEF JobFor
  <1>7. j.contract["parse"] = c["parse"]
    BY <1>1, <1>3, <1>5
  <1> QED
    BY <1>4, <1>6, <1>7
-----------------------------------------------------------------------------
(***************************************************************************)
(* Type correctness.                                                       *)
(***************************************************************************)
\* What each row operation returns.
LEMMA FreedRow ==
  ASSUME NEW row \in Row
  PROVE  /\ Freed(row) \in Row
         /\ Freed(row).lease = NoLease /\ Freed(row).token = NoToken
         /\ Freed(row).status = row.status /\ Freed(row).key = row.key
         /\ Freed(row).attempts = row.attempts /\ Freed(row).available = row.available
         /\ Freed(row).result = row.result
  <1>1. 0 \in 0 .. MaxAttempts
    BY LocalJobsAssumption
  <1>2. Freed(row) \in Row
    BY <1>1 DEF Freed, Row, NoLease, NoToken
  <1>3. /\ Freed(row).lease = NoLease /\ Freed(row).token = NoToken
        /\ Freed(row).status = row.status /\ Freed(row).key = row.key
        /\ Freed(row).attempts = row.attempts /\ Freed(row).available = row.available
        /\ Freed(row).result = row.result
    BY DEF Freed, Row
  <1> QED
    BY <1>2, <1>3

LEMMA RecoveredRowFacts ==
  ASSUME NEW row \in Row, NEW clock \in Nat
  PROVE  LET R == RecoveredRow(row, clock)
         IN /\ R \in Row
            /\ R.status = IF row.attempts < MaxAttempts THEN "PENDING" ELSE "FAILED"
            /\ R.lease = NoLease /\ R.token = NoToken
            /\ R.key = row.key /\ R.attempts = row.attempts /\ R.result = row.result
  <1> DEFINE f == Freed(row)
  <1>1. f \in Row /\ f.lease = NoLease /\ f.token = NoToken /\ f.key = row.key
        /\ f.attempts = row.attempts /\ f.result = row.result
    BY FreedRow
  <1>2. RecoveredRow(row, clock) =
          [f EXCEPT !.status = IF row.attempts < MaxAttempts THEN "PENDING" ELSE "FAILED",
                    !.available = clock]
    BY DEF RecoveredRow
  <1> HIDE DEF f
  <1> QED
    BY <1>1, <1>2 DEF Row, Status

LEMMA ClaimedRowFacts ==
  ASSUME NEW row \in Row, NEW clock \in Nat, row.attempts < MaxAttempts
  PROVE  LET R == ClaimedRow(row, clock)
         IN /\ R \in Row
            /\ R.status = "RUNNING" /\ R.attempts = row.attempts + 1
            /\ R.lease = clock + Lease /\ R.token = row.attempts + 1
            /\ R.key = row.key /\ R.result = row.result
  <1> USE LocalJobsAssumption
  <1> DEFINE f == Leased(row, clock)
  <1>1. row.attempts + 1 \in 0 .. MaxAttempts /\ clock + Lease \in Nat
    BY DEF Row
  <1>2. f \in Row
    BY <1>1 DEF Leased, Row
  <1>3. f.lease = clock + Lease /\ f.token = row.attempts + 1
        /\ f.key = row.key /\ f.attempts = row.attempts /\ f.result = row.result
    BY DEF Leased, Row
  <1>4. ClaimedRow(row, clock) = [f EXCEPT !.status = "RUNNING", !.attempts = @ + 1]
    BY DEF ClaimedRow
  <1> HIDE DEF f
  <1> QED
    BY <1>1, <1>2, <1>3, <1>4 DEF Row, Status

LEMMA FinishedRowFacts ==
  ASSUME NEW row \in Row, NEW result \in PartialContract
  PROVE  LET R == FinishedRow(row, result)
         IN /\ R \in Row
            /\ R.status = IF result = NoResult THEN "FAILED" ELSE "SUCCEEDED"
            /\ R.lease = NoLease /\ R.token = NoToken
            /\ R.key = row.key /\ R.attempts = row.attempts /\ R.result = result
  <1> DEFINE f == Freed(row)
  <1>1. f \in Row /\ f.lease = NoLease /\ f.token = NoToken /\ f.key = row.key
        /\ f.attempts = row.attempts /\ f.result = row.result
    BY FreedRow
  <1>2. FinishedRow(row, result) =
          [f EXCEPT !.status = IF result = NoResult THEN "FAILED" ELSE "SUCCEEDED",
                    !.result = result]
    BY DEF FinishedRow
  <1> HIDE DEF f
  <1> QED
    BY <1>1, <1>2 DEF Row, Status

LEMMA ConstantsTyped ==
  /\ NoResult \in PartialContract
  /\ AbsentRow \in Row
  /\ IdleProc \in Proc
  /\ [k \in Kind |-> 1] \in Contract
  /\ NoTask \in Task
  /\ Contract \subseteq PartialContract
  <1> USE LocalJobsAssumption DEF Release
  <1>1. NoResult \in PartialContract
    BY DEF NoResult, PartialContract
  <1>2. AbsentRow \in Row
    BY <1>1 DEF AbsentRow, Row, Status, NoToken, NoLease
  <1>3. [k \in Kind |-> 1] \in Contract
    BY DEF Contract
  <1>4. NoTask \in Task
    BY <1>1 DEF NoTask, Task, NoToken
  <1>5. IdleProc \in Proc
    BY <1>3, <1>4 DEF IdleProc, Proc, Phase
  <1>6. Contract \subseteq PartialContract
    BY DEF Contract, PartialContract
  <1> QED
    BY <1>1, <1>2, <1>3, <1>4, <1>5, <1>6

\* What an execution records is a partial contract.
LEMMA ProducedTyped ==
  ASSUME TypeOK, NEW p \in Process, NEW j \in Job
  PROVE  Produced(p, j) \in PartialContract
  <1>1. proc[p].contract \in PartialContract
    BY ConstantsTyped DEF TypeOK, Proc
  <1>2. ASSUME j.kind = "extract", j.input \in Version
        PROVE  ParserBehind(p, j) \in Release \cup {0}
    <2>1. Dependency(j) \in Job
      BY <1>2, ExtractionPinned
    <2>2. job[Dependency(j)].result \in PartialContract
      BY <2>1 DEF TypeOK, Row
    <2> QED
      BY <2>2 DEF ParserBehind, PartialContract, Kind
  <1> QED
    BY <1>1, <1>2 DEF Produced, PartialContract

\* A planned row is a row.
LEMMA NewRowFacts ==
  ASSUME TypeOK, NEW j \in Job
  PROVE  LET R == NewRow(j)
         IN /\ R \in Row
            /\ R.status = "PENDING" /\ R.attempts = 0
            /\ R.lease = NoLease /\ R.token = NoToken
            /\ R.key = lastKey + Rank(j.kind) /\ R.result = NoResult
  <1>1. Rank(j.kind) \in Nat
    BY JobTyped DEF Rank, Kind
  <1> QED
    BY <1>1, ConstantsTyped, LocalJobsAssumption
    DEF NewRow, TypeOK, Row, Status, NoLease, NoToken

\* What each step does to the process that takes it.
LEMMA StartedFacts ==
  ASSUME TypeOK, NEW P \in Proc
  PROVE  /\ Started(P) \in Proc
         /\ [Started(P) EXCEPT !.selected = Job] \in Proc
         /\ ~Working(Started(P)) /\ ~Working([Started(P) EXCEPT !.selected = Job])
         /\ Started(P).clock = now /\ [Started(P) EXCEPT !.selected = Job].clock = now
  <1>1. Started(P) \in Proc /\ Started(P).clock = now /\ Started(P).phase = "recovering"
    BY DEF Started, Proc, Phase, TypeOK
  <1> QED
    BY <1>1 DEF Proc, Working

LEMMA EngagedFacts ==
  ASSUME NEW P \in Proc, NEW task \in Task, P.claimed + 1 \in 0 .. MaxJobs
  PROVE  LET E == Engaged(P, task)
         IN E \in Proc /\ E.task = task /\ E.clock = P.clock /\ E.phase = "executing"
  <1> DEFINE e == [P EXCEPT !.phase = "executing", !.task = task]
  <1>1. e \in Proc /\ e.claimed = P.claimed
    BY DEF Proc, Phase
  <1>2. [e EXCEPT !.claimed = @ + 1] \in Proc
    <2> HIDE DEF e
    <2> QED
      BY <1>1 DEF Proc
  <1>3. Engaged(P, task) = [e EXCEPT !.claimed = @ + 1]
    BY DEF Engaged, Proc
  <1>4. LET E == Engaged(P, task)
        IN E.task = task /\ E.clock = P.clock /\ E.phase = "executing"
    BY DEF Engaged, Proc, Phase
  <1> QED
    BY <1>2, <1>3, <1>4

LEMMA TypeInit == Init => TypeOK
  BY ConstantsTyped, LocalJobsAssumption DEF Init, TypeOK, Working, IdleProc

LEMMA TypeNext == TypeOK /\ [Next]_vars => TypeOK'
  <1> SUFFICES ASSUME TypeOK, [Next]_vars PROVE TypeOK'
    OBVIOUS
  <1> USE LocalJobsAssumption
  <1>a. ASSUME NEW p \in Process, NEW P \in Proc, Working(P) => P.task.job \in Job,
               proc' = [proc EXCEPT ![p] = P]
        PROVE  /\ proc' \in [Process -> Proc]
               /\ \A q \in Process : Working(proc'[q]) => proc'[q].task.job \in Job
    BY <1>a DEF TypeOK
  <1>b. ~Working(IdleProc)
    BY DEF Working, IdleProc
  <1>1. ASSUME NEW p \in Process, StartSession(p) PROVE TypeOK'
    BY <1>1 DEF StartSession, TypeOK, Proc, Phase, Working
  <1>2. ASSUME NEW p \in Process, EndSession(p) PROVE TypeOK'
    BY <1>2, <1>a, <1>b, ConstantsTyped DEF EndSession, TypeOK
  <1>3. ASSUME NEW p \in Process, NEW i \in Input, Plan(p, i) PROVE TypeOK'
    <2>1. PlanOf(i, proc[p].contract) \subseteq Job
      BY PlanIsJobs DEF TypeOK, Proc
    <2>2. /\ proc' \in [Process -> Proc]
          /\ \A q \in Process : Working(proc'[q]) => proc'[q].task.job \in Job
      BY <1>3, <2>1 DEF Plan, TypeOK, Proc, Working
    <2>3. job' \in [Job -> Row] /\ lastKey' \in Nat
      BY <1>3, NewRowFacts DEF Plan, Schedule, TypeOK
    <2> QED
      BY <1>3, <2>2, <2>3 DEF Plan, TypeOK
  <1>4. ASSUME NEW p \in Process, BeginWholeQueueRun(p) PROVE TypeOK'
    BY <1>4, <1>a, StartedFacts DEF BeginWholeQueueRun, TypeOK
  <1>5. ASSUME NEW p \in Process, BeginRun(p) PROVE TypeOK'
    BY <1>5, <1>a, StartedFacts DEF BeginRun, TypeOK
  <1>6. ASSUME NEW p \in Process, RecoverInterrupted(p) PROVE TypeOK'
    <2>1. proc[p].clock \in Nat
      BY DEF TypeOK, Proc
    <2>2. job' \in [Job -> Row]
      BY <1>6, <2>1, RecoveredRowFacts DEF RecoverInterrupted, TypeOK
    <2>3. /\ proc' \in [Process -> Proc]
          /\ \A q \in Process : Working(proc'[q]) => proc'[q].task.job \in Job
      BY <1>6 DEF RecoverInterrupted, TypeOK, Proc, Phase, Working
    <2> QED
      BY <1>6, <2>2, <2>3 DEF RecoverInterrupted, TypeOK
  <1>7. ASSUME NEW p \in Process, Claim(p) PROVE TypeOK'
    <2>1. PICK j \in Claimable(p) :
             /\ job' = [job EXCEPT ![j] = ClaimedRow(@, proc[p].clock)]
             /\ proc' = [proc EXCEPT ![p] = Engaged(@, NewTask(j))]
      BY <1>7 DEF Claim
    <2>2. j \in Job /\ job[j].attempts < MaxAttempts
      BY DEF Claimable, TypeOK, Proc
    <2>3. job[j] \in Row /\ proc[p] \in Proc /\ proc[p].clock \in Nat
      BY <2>2 DEF TypeOK, Proc
    <2>4. job' \in [Job -> Row]
      BY <2>1, <2>2, <2>3, ClaimedRowFacts DEF TypeOK
    <2>5. NewTask(j) \in Task /\ NewTask(j).job = j
      <3>1. job[j].attempts + 1 \in 0 .. MaxAttempts
        BY <2>2, <2>3 DEF Row
      <3> QED
        BY <2>2, <3>1, ConstantsTyped DEF NewTask, Task
    <2>6. proc[p].claimed + 1 \in 0 .. MaxJobs
      BY <1>7 DEF Claim, ClaimsLeft, TypeOK, Proc
    <2>7. Engaged(proc[p], NewTask(j)) \in Proc /\ Engaged(proc[p], NewTask(j)).task.job \in Job
      BY <2>2, <2>3, <2>5, <2>6, EngagedFacts
    <2>8. /\ proc' \in [Process -> Proc]
          /\ \A q \in Process : Working(proc'[q]) => proc'[q].task.job \in Job
      BY <1>a, <2>1, <2>7
    <2> QED
      BY <1>7, <2>4, <2>8 DEF Claim, TypeOK
  <1>8. ASSUME NEW p \in Process, EndRun(p) PROVE TypeOK'
    <2>1. /\ [IdleProc EXCEPT !.phase = "planning", !.contract = proc[p].contract] \in Proc
          /\ ~Working([IdleProc EXCEPT !.phase = "planning", !.contract = proc[p].contract])
      BY ConstantsTyped DEF TypeOK, Proc, Phase, Working
    <2> QED
      BY <1>8, <1>a, <2>1 DEF EndRun, TypeOK
  <1>9. ASSUME NEW p \in Process, Execute(p) PROVE TypeOK'
    <2>1. proc[p].phase = "executing" /\ proc[p].task.job \in Job
      BY <1>9 DEF Execute, TypeOK, Working
    <2>2. Produced(p, proc[p].task.job) \in PartialContract
      BY <2>1, ProducedTyped
    <2> QED
      BY <1>9, <2>1, <2>2 DEF Execute, TypeOK, Proc, Task, Phase, Working
  <1>10. ASSUME NEW p \in Process, Finish(p) PROVE TypeOK'
    <2>1. proc[p].task.result \in PartialContract
      BY DEF TypeOK, Proc, Task
    <2>2. job' \in [Job -> Row]
      BY <1>10, <2>1, FinishedRowFacts DEF Finish, TypeOK
    <2>3. /\ proc' \in [Process -> Proc]
          /\ \A q \in Process : Working(proc'[q]) => proc'[q].task.job \in Job
      BY <1>10, ConstantsTyped DEF Finish, TypeOK, Proc, Phase, Working
    <2> QED
      BY <1>10, <2>2, <2>3 DEF Finish, TypeOK
  <1>11. ASSUME NEW p \in Process, LeaseLost(p) PROVE TypeOK'
    BY <1>11, <1>a, <1>b, ConstantsTyped DEF LeaseLost, TypeOK
  <1>12. ASSUME NEW p \in Process, Crash(p) PROVE TypeOK'
    BY <1>12, <1>a, <1>b, ConstantsTyped DEF Crash, TypeOK
  <1>13. ASSUME NEW j \in Job, RetryFailed(j) PROVE TypeOK'
    BY <1>13 DEF RetryFailed, TypeOK, Row, Status
  <1>14. ASSUME NEW k \in Kind, Upgrade(k) PROVE TypeOK'
    BY <1>14 DEF Upgrade, TypeOK, Contract, Release
  <1>15. ASSUME Tick PROVE TypeOK'
    BY <1>15 DEF Tick, TypeOK
  <1>16. CASE UNCHANGED vars
    BY <1>16 DEF vars, TypeOK
  <1> QED
    BY <1>1, <1>2, <1>3, <1>4, <1>5, <1>6, <1>7, <1>8, <1>9, <1>10, <1>11, <1>12,
       <1>13, <1>14, <1>15, <1>16 DEF Next, RunStep

\* Every state is well typed: rows keep their bounds on attempts and tokens,
\* and a process that works has a job.
THEOREM TypeCorrect == Spec => []TypeOK
  BY TypeInit, TypeNext, PTL DEF Spec
-----------------------------------------------------------------------------
(***************************************************************************)
(* The inductive invariant.                                                *)
(***************************************************************************)
LEMMA InvInit == Init => IndInv
  <1> SUFFICES ASSUME Init PROVE IndInv
    OBVIOUS
  <1>1. TypeOK
    BY TypeInit
  <1>2. ASSUME NEW p \in Process PROVE ~Working(proc[p]) /\ proc[p].clock = 0
    BY DEF Init, Working, IdleProc
  <1>3. ASSUME NEW j \in Job PROVE job[j] = AbsentRow
    BY DEF Init
  <1>4. RowsCoherent
    BY <1>3 DEF RowsCoherent, RowCoherent, AbsentRow, NoToken, NoLease
  <1>5. DependenciesFirst
    BY <1>3 DEF DependenciesFirst, AbsentRow, Scheduled
  <1>6. LostOnlyAfterExpiry
    BY <1>2 DEF LostOnlyAfterExpiry
  <1>7. ArtifactsPinned
    BY <1>3 DEF ArtifactsPinned, Succeeded, AbsentRow
  <1>8. ClaimsInFlight
    <2>1. lastKey = 0 /\ now = 0
      BY DEF Init
    <2> QED
      BY <1>2, <1>3, <2>1 DEF ClaimsInFlight, AbsentRow
  <1>9. ClaimsDistinct
    BY <1>2 DEF ClaimsDistinct
  <1> QED
    BY <1>1, <1>4, <1>5, <1>6, <1>7, <1>8, <1>9 DEF IndInv

\* A process that leaves its work, or was not working, disturbs nothing.
LEMMA IdleStep ==
  ASSUME IndInv, TypeOK', NEW p \in Process, NEW P \in Proc,
         ~Working(P), P.clock <= now,
         proc' = [proc EXCEPT ![p] = P], UNCHANGED <<job, lastKey, now>>
  PROVE  IndInv'
  <1>1. ASSUME NEW q \in Process
        PROVE  /\ proc'[q] = IF q = p THEN P ELSE proc[q]
               /\ Working(proc'[q]) => q # p /\ proc'[q] = proc[q]
               /\ proc'[q].clock <= now
    BY DEF IndInv, TypeOK, ClaimsInFlight
  <1>2. RowsCoherent'
    BY DEF IndInv, RowsCoherent
  <1>3. DependenciesFirst'
    BY DEF IndInv, DependenciesFirst, Scheduled, Released, Succeeded
  <1>4. ASSUME NEW q \in Process, Working(proc'[q])
        PROVE  HoldsLease(q)' = HoldsLease(q)
    BY <1>1, <1>4 DEF HoldsLease
  <1>5. LostOnlyAfterExpiry'
    BY <1>1, <1>4 DEF IndInv, LostOnlyAfterExpiry
  <1>6. ArtifactsPinned'
    BY DEF IndInv, ArtifactsPinned, Succeeded
  <1>7. ClaimsInFlight'
    BY <1>1, <1>4 DEF IndInv, ClaimsInFlight
  <1>8. ClaimsDistinct'
    BY <1>1 DEF IndInv, ClaimsDistinct
  <1> QED
    BY <1>2, <1>3, <1>5, <1>6, <1>7, <1>8 DEF IndInv

\* The result an execution produces is pinned to the releases of its job.
LEMMA ProducedPinned ==
  ASSUME IndInv, NEW p \in Process, NEW j \in Job, ContractHolds(p, j)
  PROVE  PinnedTo(j, Produced(p, j))
  <1> DEFINE result == Produced(p, j)
  <1>1. PICK i \in Input, c \in Contract :
           /\ j.kind \in KindsOf(i)
           /\ j.input = i
           /\ j.contract = [x \in Kind |-> IF x \in Path(i, j.kind) THEN c[x] ELSE 0]
    BY JobParts
  <1>2. j.kind \in Kind
    BY JobTyped
  <1>3. result[j.kind] = j.contract[j.kind]
    BY <1>2 DEF Produced, ContractHolds
  <1>4. CASE j.kind = "parse"
    <2>1. Path(i, j.kind) = {"parse"}
      BY <1>1, <1>4 DEF Path, Upstream, KindsOf
    <2>2. \A k \in Kind : result[k] = j.contract[k]
      BY <1>1, <1>3, <1>4, <2>1 DEF Produced
    <2>3. result = j.contract
      BY <1>1, <2>2 DEF Produced
    <2> QED
      BY <1>3, <2>3 DEF PinnedTo
  <1>5. CASE j.kind = "extract" /\ j.input \in Version
    <2> DEFINE d == Dependency(j)
    <2>1. d \in Job /\ d.kind = "parse" /\ d.contract["parse"] = j.contract["parse"]
      BY <1>5, ExtractionPinned
    <2>2. d \in Succeeded
      BY <1>5, <2>1, NoJobAssumption DEF ContractHolds, Released
    <2>3. job[d].result = d.contract
      BY <2>1, <2>2 DEF IndInv, ArtifactsPinned, PinnedTo
    <2>4. ParserBehind(p, j) = j.contract["parse"]
      BY <2>1, <2>3 DEF ParserBehind
    <2>5. Path(i, j.kind) = {"parse", "extract"}
      BY <1>1, <1>5 DEF Path, Upstream
    <2>6. \A k \in Kind : result[k] = j.contract[k]
      BY <1>1, <1>3, <1>5, <2>4, <2>5 DEF Produced
    <2>7. result = j.contract
      BY <1>1, <2>6 DEF Produced
    <2> QED
      BY <1>3, <2>7 DEF PinnedTo
  <1>6. CASE j.kind = "extract" /\ j.input \notin Version
    <2>1. Path(i, j.kind) = {"extract"}
      BY <1>1, <1>6 DEF Path, Upstream
    <2>2. \A k \in Kind : result[k] = j.contract[k]
      BY <1>1, <1>3, <1>6, <2>1 DEF Produced
    <2>3. result = j.contract
      BY <1>1, <2>2 DEF Produced
    <2> QED
      BY <1>3, <2>3 DEF PinnedTo
  <1>7. CASE j.kind \notin {"parse", "extract"}
    BY <1>3, <1>7 DEF PinnedTo
  <1> QED
    BY <1>4, <1>5, <1>6, <1>7

\* Dependencies stay ordered by a step that plans nothing, loses no result and
\* first attempts only released jobs.
LEMMA DependenciesKept ==
  ASSUME IndInv,
         Scheduled' = Scheduled, Succeeded \subseteq Succeeded',
         \A j \in Job : job'[j].key = job[j].key,
         \A j \in Job : job'[j].attempts > 0 =>
                          job[j].attempts > 0 \/ Released(Dependency(j))
  PROVE  DependenciesFirst'
  <1> SUFFICES ASSUME NEW j \in Job
               PROVE  LET d == Dependency(j)
                      IN /\ job'[j].attempts > 0 => Released(d)'
                         /\ j \in Scheduled' /\ d # NoJob =>
                              d \in Scheduled' /\ job'[d].key < job'[j].key
    BY DEF DependenciesFirst
  <1> DEFINE d == Dependency(j)
  <1>1. /\ job[j].attempts > 0 => Released(d)
        /\ j \in Scheduled /\ d # NoJob => d \in Scheduled /\ job[d].key < job[j].key
    BY DEF IndInv, DependenciesFirst
  <1>2. Released(d) => Released(d)'
    BY DEF Released
  <1>3. d # NoJob => d \in Job
    BY DependencyIsJob
  <1> QED
    BY <1>1, <1>2, <1>3

\* Planning adds rows and changes none.
LEMMA PlanStep ==
  ASSUME IndInv, TypeOK', NEW p \in Process, NEW i \in Input, Plan(p, i)
  PROVE  IndInv'
  <1> DEFINE c == proc[p].contract
             new == PlanOf(i, c) \ Scheduled
  <1>1. c \in Contract /\ lastKey \in Nat /\ lastKey' \in Nat /\ TypeOK
    BY DEF IndInv, TypeOK, Proc
  <1>2. ASSUME NEW j \in Job
        PROVE  job'[j] = IF j \in new THEN NewRow(j) ELSE job[j]
    BY DEF Plan, Schedule
  <1>3. ASSUME NEW j \in Job, j \in new
        PROVE  /\ job'[j].status = "PENDING" /\ job'[j].attempts = 0
               /\ job'[j].lease = NoLease /\ job'[j].token = NoToken
               /\ job'[j].key = lastKey + Rank(j.kind) /\ job'[j].result = NoResult
               /\ Rank(j.kind) \in 1 .. 4
    <2>1. job'[j] = NewRow(j)
      BY <1>2, <1>3
    <2>2. Rank(j.kind) \in 1 .. 4
      BY JobTyped DEF Rank, Kind
    <2> QED
      BY <1>1, <2>1, <2>2, NewRowFacts
  <1>4. Scheduled' = Scheduled \cup new
    <2>1. new \subseteq Job
      BY <1>1, PlanIsJobs
    <2>2. ASSUME NEW j \in Job PROVE j \in Scheduled' <=> j \in Scheduled \cup new
      BY <1>2, <1>3 DEF Scheduled
    <2> QED
      BY <2>1, <2>2 DEF Scheduled
  <1>5. ASSUME NEW j \in Scheduled PROVE j \in Job /\ job'[j] = job[j]
    BY <1>2, <1>5 DEF Scheduled
  <1>6. ASSUME NEW q \in Process
        PROVE  /\ proc'[q].clock = proc[q].clock /\ proc'[q].task = proc[q].task
               /\ Working(proc'[q]) = Working(proc[q])
    BY DEF Plan, IndInv, TypeOK, Proc, Working
  <1>7. ASSUME NEW q \in Process, Working(proc[q])
        PROVE  /\ proc[q].task.job \in Job
               /\ job'[proc[q].task.job] = job[proc[q].task.job]
               /\ HoldsLease(q)' = HoldsLease(q)
    <2>1. proc[q].task.job \in Job
      BY <1>7 DEF IndInv, TypeOK
    <2>2. job[proc[q].task.job].attempts > 0
      BY <1>7, <2>1, <1>1 DEF IndInv, ClaimsInFlight, TypeOK, Row
    <2>3. job[proc[q].task.job].status # "ABSENT"
      BY <2>1, <2>2 DEF IndInv, RowsCoherent, RowCoherent
    <2>4. job'[proc[q].task.job] = job[proc[q].task.job]
      BY <1>5, <2>1, <2>3 DEF Scheduled
    <2> QED
      BY <1>6, <2>1, <2>4 DEF HoldsLease
  <1>8. RowsCoherent'
    <2>1. ASSUME NEW j \in Job, j \in new PROVE RowCoherent(job'[j])
      BY <1>3, <2>1, LocalJobsAssumption DEF RowCoherent
    <2>2. ASSUME NEW j \in Job, j \notin new PROVE RowCoherent(job'[j])
      BY <1>2, <2>2 DEF IndInv, RowsCoherent
    <2> QED
      BY <2>1, <2>2 DEF RowsCoherent
  <1>9. DependenciesFirst'
    <2> SUFFICES ASSUME NEW j \in Job
                 PROVE  LET d == Dependency(j)
                        IN /\ job'[j].attempts > 0 => Released(d)'
                           /\ j \in Scheduled' /\ d # NoJob =>
                                d \in Scheduled' /\ job'[d].key < job'[j].key
      BY DEF DependenciesFirst
    <2> DEFINE d == Dependency(j)
    <2>1. /\ job[j].attempts > 0 => Released(d)
          /\ j \in Scheduled /\ d # NoJob => d \in Scheduled /\ job[d].key < job[j].key
      BY DEF IndInv, DependenciesFirst
    <2>2. Succeeded \subseteq Succeeded'
      BY <1>5 DEF Succeeded, Scheduled
    <2>3. job'[j].attempts > 0 => Released(d)'
      BY <1>2, <1>3, <2>1, <2>2 DEF Released
    <2>4. CASE j \in Scheduled
      BY <1>4, <1>5, <2>1, <2>3, <2>4
    <2>5. CASE j \in new /\ d # NoJob
      <3>1. d \in PlanOf(i, c) /\ Rank(d.kind) < Rank(j.kind)
        BY <1>1, <2>5, DependencyInPlan
      <3>2. d \in Job
        BY <1>1, <3>1, PlanIsJobs
      <3>3. CASE d \in Scheduled
        <4>1. job'[d].key = job[d].key /\ job[d].key <= lastKey /\ job[d].key \in Nat
          BY <1>5, <3>2, <3>3 DEF IndInv, ClaimsInFlight, TypeOK, Row
        <4> QED
          BY <1>1, <1>3, <1>4, <2>3, <2>5, <3>3, <4>1
      <3>4. CASE d \notin Scheduled
        <4>1. job'[d].key = lastKey + Rank(d.kind) /\ Rank(d.kind) \in 1 .. 4
          BY <1>3, <3>1, <3>2, <3>4
        <4>2. job'[j].key = lastKey + Rank(j.kind) /\ Rank(j.kind) \in 1 .. 4
          BY <1>3, <2>5
        <4> QED
          BY <1>1, <1>4, <2>3, <3>1, <3>4, <4>1, <4>2
      <3> QED
        BY <3>3, <3>4
    <2> QED
      BY <1>4, <2>3, <2>4, <2>5
  <1>10. LostOnlyAfterExpiry'
    BY <1>6, <1>7 DEF Plan, IndInv, LostOnlyAfterExpiry
  <1>11. ArtifactsPinned'
    BY <1>2, <1>3 DEF IndInv, ArtifactsPinned, Succeeded
  <1>12. ClaimsInFlight'
    <2>1. lastKey <= lastKey' /\ (new # {} => lastKey' = lastKey + 4)
      BY <1>1 DEF Plan, Schedule
    <2>2. ASSUME NEW j \in Job
          PROVE  job'[j].token \in {NoToken, job'[j].attempts} /\ job'[j].key <= lastKey'
      <3>1. CASE j \in new
        BY <1>1, <1>3, <2>1, <3>1
      <3>2. CASE j \notin new
        <4>1. job'[j] = job[j] /\ job[j].key \in Nat
          BY <1>1, <1>2, <3>2 DEF TypeOK, Row
        <4>2. job[j].token \in {NoToken, job[j].attempts} /\ job[j].key <= lastKey
          BY DEF IndInv, ClaimsInFlight
        <4> QED
          BY <1>1, <2>1, <4>1, <4>2
      <3> QED
        BY <3>1, <3>2
    <2>3. now' = now
      BY DEF Plan
    <2> QED
      BY <1>6, <1>7, <2>2, <2>3 DEF IndInv, ClaimsInFlight
  <1>13. ClaimsDistinct'
    BY <1>6 DEF IndInv, ClaimsDistinct
  <1> QED
    BY <1>8, <1>9, <1>10, <1>11, <1>12, <1>13 DEF IndInv

\* Recovery takes a row only from a claim whose lease has expired.
LEMMA RecoverStep ==
  ASSUME IndInv, TypeOK', NEW p \in Process, RecoverInterrupted(p)
  PROVE  IndInv'
  <1> DEFINE clock == proc[p].clock
             gone == {j \in Job : j \in proc[p].selected /\ Expired(job[j], clock)}
  <1>1. clock \in Nat /\ clock <= now /\ now \in Nat /\ TypeOK
    BY DEF IndInv, TypeOK, Proc, ClaimsInFlight
  <1>2. ASSUME NEW j \in Job, j \notin gone
        PROVE  job'[j] = job[j]
    BY <1>2 DEF RecoverInterrupted
  <1>3. ASSUME NEW j \in Job, j \in gone
        PROVE  /\ job[j].status = "RUNNING" /\ job[j].lease <= now
               /\ job'[j].status = IF job[j].attempts < MaxAttempts
                                     THEN "PENDING" ELSE "FAILED"
               /\ job'[j].lease = NoLease /\ job'[j].token = NoToken
               /\ job'[j].key = job[j].key /\ job'[j].attempts = job[j].attempts
               /\ job'[j].result = job[j].result
    <2>1. job[j] \in Row /\ job[j].lease \in Nat
      BY <1>1 DEF TypeOK, Row
    <2>2. job'[j] = RecoveredRow(job[j], clock)
      BY <1>3 DEF RecoverInterrupted
    <2>3. job[j].status = "RUNNING" /\ job[j].lease <= now
      BY <1>1, <1>3, <2>1 DEF Expired
    <2>4. LET R == RecoveredRow(job[j], clock)
          IN /\ R.status = IF job[j].attempts < MaxAttempts THEN "PENDING" ELSE "FAILED"
             /\ R.lease = NoLease /\ R.token = NoToken
             /\ R.key = job[j].key /\ R.attempts = job[j].attempts
             /\ R.result = job[j].result
      <3> HIDE DEF clock
      <3> QED
        BY <1>1, <2>1, RecoveredRowFacts
    <2> QED
      BY <2>2, <2>3, <2>4
  <1>4. ASSUME NEW q \in Process
        PROVE  /\ proc'[q].clock = proc[q].clock /\ proc'[q].task = proc[q].task
               /\ Working(proc'[q]) = Working(proc[q])
    BY DEF RecoverInterrupted, IndInv, TypeOK, Proc, Working
  <1>5. ASSUME NEW q \in Process, Working(proc[q])
        PROVE  /\ HoldsLease(q)' => proc[q].task.job \notin gone /\ HoldsLease(q)
               /\ HoldsLease(q) /\ ~HoldsLease(q)' => proc[q].clock + Lease <= now
    <2> DEFINE j == proc[q].task.job
    <2>1. j \in Job
      BY <1>5 DEF IndInv, TypeOK
    <2>2. HoldsLease(q) => job[j].lease = proc[q].clock + Lease
      BY <1>5 DEF IndInv, ClaimsInFlight
    <2>3. CASE j \in gone
      BY <1>3, <1>4, <2>1, <2>2, <2>3 DEF HoldsLease
    <2>4. CASE j \notin gone
      BY <1>2, <1>4, <2>1, <2>4 DEF HoldsLease
    <2> QED
      BY <2>3, <2>4
  <1>6. RowsCoherent'
    <2>1. ASSUME NEW j \in Job, j \in gone PROVE RowCoherent(job'[j])
      <3>1. RowCoherent(job[j])
        BY DEF IndInv, RowsCoherent
      <3> QED
        BY <1>3, <2>1, <3>1 DEF RowCoherent
    <2> QED
      BY <1>2, <2>1 DEF IndInv, RowsCoherent
  <1>7. DependenciesFirst'
    <2>1. Scheduled' = Scheduled
      BY <1>2, <1>3 DEF Scheduled
    <2>2. Succeeded \subseteq Succeeded'
      BY <1>2, <1>3 DEF Succeeded
    <2>3. ASSUME NEW j \in Job
          PROVE  job'[j].key = job[j].key /\ job'[j].attempts = job[j].attempts
      BY <1>2, <1>3
    <2> QED
      BY <2>1, <2>2, <2>3, DependenciesKept
  <1>8. LostOnlyAfterExpiry'
    BY <1>4, <1>5 DEF RecoverInterrupted, IndInv, LostOnlyAfterExpiry
  <1>9. ArtifactsPinned'
    BY <1>2, <1>3 DEF IndInv, ArtifactsPinned, Succeeded
  <1>10. ClaimsInFlight'
    <2>1. ASSUME NEW j \in Job
          PROVE  /\ job'[j].token \in {NoToken, job'[j].attempts}
                 /\ job'[j].key <= lastKey' /\ job'[j].attempts = job[j].attempts
      BY <1>2, <1>3 DEF RecoverInterrupted, IndInv, ClaimsInFlight
    <2>2. ASSUME NEW q \in Process, Working(proc[q])
          PROVE  /\ proc[q].task.job \in Job
                 /\ HoldsLease(q)' => job'[proc[q].task.job].lease = proc[q].clock + Lease
      <3>1. proc[q].task.job \in Job
        BY <2>2 DEF IndInv, TypeOK
      <3>2. HoldsLease(q) => job[proc[q].task.job].lease = proc[q].clock + Lease
        BY <2>2 DEF IndInv, ClaimsInFlight
      <3> QED
        BY <1>2, <1>5, <2>2, <3>1, <3>2
    <2>3. now' = now
      BY DEF RecoverInterrupted
    <2>4. ASSUME NEW q \in Process, Working(proc'[q])
          PROVE  LET task == proc'[q].task
                 IN /\ task.token \in 1 .. job'[task.job].attempts
                    /\ HoldsLease(q)' => job'[task.job].lease = proc'[q].clock + Lease
                    /\ task.result = NoResult \/ PinnedTo(task.job, task.result)
      BY <1>4, <2>1, <2>2, <2>4 DEF IndInv, ClaimsInFlight
    <2> QED
      BY <1>4, <2>1, <2>3, <2>4 DEF IndInv, ClaimsInFlight
  <1>11. ClaimsDistinct'
    BY <1>4 DEF IndInv, ClaimsDistinct
  <1> QED
    BY <1>6, <1>7, <1>8, <1>9, <1>10, <1>11 DEF IndInv

\* A claim's token exceeds every token handed out for its row before.
LEMMA ClaimStep ==
  ASSUME IndInv, TypeOK', NEW p \in Process, Claim(p)
  PROVE  IndInv'
  <1>1. PICK j \in Claimable(p) :
           /\ job' = [job EXCEPT ![j] = ClaimedRow(@, proc[p].clock)]
           /\ proc' = [proc EXCEPT ![p] = Engaged(@, NewTask(j))]
    BY DEF Claim
  <1>2. /\ TypeOK /\ j \in Job /\ job[j] \in Row /\ proc[p] \in Proc
        /\ proc[p].clock \in Nat /\ job[j].attempts \in Nat
        /\ job[j].status = "PENDING" /\ job[j].attempts < MaxAttempts
        /\ Released(Dependency(j))
    BY LocalJobsAssumption DEF IndInv, Claimable, TypeOK, Proc, Row
  <1>3. /\ job'[j].status = "RUNNING" /\ job'[j].attempts = job[j].attempts + 1
        /\ job'[j].lease = proc[p].clock + Lease /\ job'[j].token = job[j].attempts + 1
        /\ job'[j].key = job[j].key /\ job'[j].result = job[j].result
    <2>1. job'[j] = ClaimedRow(job[j], proc[p].clock)
      BY <1>1, <1>2 DEF TypeOK
    <2> QED
      BY <1>2, <2>1, ClaimedRowFacts
  <1>4. ASSUME NEW i \in Job, i # j PROVE job'[i] = job[i]
    BY <1>1, <1>2, <1>4 DEF TypeOK
  <1>5. /\ proc'[p].task = NewTask(j) /\ proc'[p].clock = proc[p].clock
        /\ proc'[p].task.job = j /\ proc'[p].task.token = job[j].attempts + 1
        /\ proc'[p].task.result = NoResult
    <2>1. proc'[p] = Engaged(proc[p], NewTask(j))
      BY <1>1, <1>2 DEF TypeOK
    <2>2. proc'[p].task = NewTask(j) /\ proc'[p].clock = proc[p].clock
      BY <1>2, <2>1 DEF Engaged, Proc
    <2> QED
      BY <2>2 DEF NewTask
  <1>6. ASSUME NEW q \in Process, q # p PROVE proc'[q] = proc[q]
    BY <1>1, <1>2, <1>6 DEF TypeOK
  <1>7. ASSUME NEW q \in Process, q # p, Working(proc[q]), proc[q].task.job = j
        PROVE  /\ proc[q].task.token \in 1 .. job[j].attempts
               /\ ~HoldsLease(q) /\ ~HoldsLease(q)'
    <2>1. proc[q].task.token \in 1 .. job[j].attempts
      BY <1>7 DEF IndInv, ClaimsInFlight
    <2>2. ~HoldsLease(q)
      BY <1>2, <1>7 DEF HoldsLease
    <2>3. ~HoldsLease(q)'
      BY <1>2, <1>3, <1>6, <1>7, <2>1 DEF HoldsLease
    <2> QED
      BY <2>1, <2>2, <2>3
  <1>8. ASSUME NEW q \in Process, q # p, Working(proc[q]), proc[q].task.job # j
        PROVE  /\ proc[q].task.job \in Job
               /\ job'[proc[q].task.job] = job[proc[q].task.job]
               /\ HoldsLease(q)' = HoldsLease(q)
    <2>1. proc[q].task.job \in Job
      BY <1>8 DEF IndInv, TypeOK
    <2> QED
      BY <1>4, <1>6, <1>8, <2>1 DEF HoldsLease
  <1>9. HoldsLease(p)'
    BY <1>3, <1>5 DEF HoldsLease
  <1>10. RowsCoherent'
    <2>1. RowCoherent(job'[j])
      <3>1. RowCoherent(job[j])
        BY <1>2 DEF IndInv, RowsCoherent
      <3>2. job[j].attempts + 1 # NoToken /\ proc[p].clock + Lease # NoLease
        BY <1>2, LocalJobsAssumption DEF NoToken, NoLease
      <3> QED
        BY <1>2, <1>3, <3>1, <3>2 DEF RowCoherent
    <2> QED
      BY <1>4, <2>1 DEF IndInv, RowsCoherent
  <1>11. DependenciesFirst'
    <2>1. Scheduled' = Scheduled
      BY <1>2, <1>3, <1>4 DEF Scheduled
    <2>2. Succeeded \subseteq Succeeded'
      BY <1>2, <1>4 DEF Succeeded
    <2>3. ASSUME NEW i \in Job
          PROVE  /\ job'[i].key = job[i].key
                 /\ job'[i].attempts > 0 => job[i].attempts > 0 \/ Released(Dependency(i))
      BY <1>2, <1>3, <1>4
    <2> QED
      BY <2>1, <2>2, <2>3, DependenciesKept
  <1>12. LostOnlyAfterExpiry'
    <2>1. now' = now
      BY DEF Claim
    <2> QED
      BY <1>6, <1>7, <1>8, <1>9, <2>1 DEF IndInv, LostOnlyAfterExpiry
  <1>13. ArtifactsPinned'
    BY <1>3, <1>4 DEF IndInv, ArtifactsPinned, Succeeded
  <1>14. ClaimsInFlight'
    <2>1. lastKey' = lastKey /\ now' = now
      BY DEF Claim
    <2>2. ASSUME NEW i \in Job
          PROVE  job'[i].token \in {NoToken, job'[i].attempts} /\ job'[i].key <= lastKey'
      BY <1>3, <1>4, <2>1 DEF IndInv, ClaimsInFlight
    <2> DEFINE Fine(q) == LET task == proc'[q].task
                          IN /\ task.token \in 1 .. job'[task.job].attempts
                             /\ HoldsLease(q)' =>
                                  job'[task.job].lease = proc'[q].clock + Lease
                             /\ task.result = NoResult \/ PinnedTo(task.job, task.result)
    <2>3. Fine(p)
      BY <1>2, <1>3, <1>5
    <2>4. ASSUME NEW q \in Process, q # p, Working(proc'[q]) PROVE Fine(q)
      <3>1. /\ proc'[q] = proc[q] /\ Working(proc[q])
            /\ proc[q].task.token \in 1 .. job[proc[q].task.job].attempts
            /\ HoldsLease(q) => job[proc[q].task.job].lease = proc[q].clock + Lease
            /\ \/ proc[q].task.result = NoResult
               \/ PinnedTo(proc[q].task.job, proc[q].task.result)
        BY <1>6, <2>4 DEF IndInv, ClaimsInFlight
      <3>2. CASE proc[q].task.job = j
        BY <1>2, <1>3, <1>7, <2>4, <3>1, <3>2
      <3>3. CASE proc[q].task.job # j
        BY <1>8, <2>4, <3>1, <3>3
      <3> QED
        BY <3>2, <3>3
    <2>5. ASSUME NEW q \in Process PROVE proc'[q].clock <= now'
      BY <1>5, <1>6, <2>1 DEF IndInv, ClaimsInFlight
    <2> QED
      BY <2>2, <2>3, <2>4, <2>5 DEF ClaimsInFlight
  <1>15. ClaimsDistinct'
    <2>1. ASSUME NEW q \in Process, q # p, Working(proc'[q]), proc'[q].task.job = j
          PROVE  proc'[q].task.token # proc'[p].task.token
      BY <1>2, <1>5, <1>6, <1>7, <2>1
    <2> QED
      BY <1>5, <1>6, <2>1 DEF IndInv, ClaimsDistinct
  <1> QED
    BY <1>10, <1>11, <1>12, <1>13, <1>14, <1>15 DEF IndInv

\* An execution touches no row and leaves at most a pinned result behind.
LEMMA ExecuteStep ==
  ASSUME IndInv, TypeOK', NEW p \in Process, Execute(p)
  PROVE  IndInv'
  <1> DEFINE j == proc[p].task.job
  <1>1. UNCHANGED <<job, lastKey, now>> /\ Working(proc[p]) /\ j \in Job
    BY DEF Execute, IndInv, TypeOK, Working
  <1>2. /\ proc'[p].clock = proc[p].clock
        /\ proc'[p].task.job = j /\ proc'[p].task.token = proc[p].task.token
        /\ \/ proc'[p].task.result = proc[p].task.result
           \/ PinnedTo(j, proc'[p].task.result)
    <2>1. CASE proc' = [proc EXCEPT ![p].phase = "finishing"]
      BY <2>1 DEF IndInv, TypeOK, Proc
    <2>2. CASE /\ ContractHolds(p, j)
               /\ proc' = [proc EXCEPT ![p].phase = "finishing",
                                       ![p].task.result = Produced(p, j)]
      <3>1. PinnedTo(j, Produced(p, j))
        BY <1>1, <2>2, ProducedPinned
      <3>2. /\ proc'[p].task.result = Produced(p, j) /\ proc'[p].clock = proc[p].clock
            /\ proc'[p].task.job = j /\ proc'[p].task.token = proc[p].task.token
        BY <2>2 DEF IndInv, TypeOK, Proc, Task
      <3> QED
        BY <3>1, <3>2
    <2> QED
      BY <2>1, <2>2 DEF Execute
  <1>3. ASSUME NEW q \in Process, q # p PROVE proc'[q] = proc[q]
    BY <1>3 DEF Execute, IndInv, TypeOK
  <1>4. ASSUME NEW q \in Process, Working(proc'[q])
        PROVE  /\ Working(proc[q]) /\ HoldsLease(q)' = HoldsLease(q)
               /\ proc'[q].clock = proc[q].clock /\ proc'[q].task.job = proc[q].task.job
               /\ proc'[q].task.token = proc[q].task.token
               /\ \/ proc'[q].task.result = proc[q].task.result
                  \/ PinnedTo(proc[q].task.job, proc'[q].task.result)
    BY <1>1, <1>2, <1>3, <1>4 DEF HoldsLease
  <1>5. RowsCoherent'
    BY <1>1 DEF IndInv, RowsCoherent
  <1>6. DependenciesFirst'
    BY <1>1 DEF IndInv, DependenciesFirst, Scheduled, Released, Succeeded
  <1>7. LostOnlyAfterExpiry'
    BY <1>1, <1>4 DEF IndInv, LostOnlyAfterExpiry
  <1>8. ArtifactsPinned'
    BY <1>1 DEF IndInv, ArtifactsPinned, Succeeded
  <1>9. ClaimsInFlight'
    <2>1. ASSUME NEW q \in Process PROVE proc'[q].clock <= now'
      BY <1>1, <1>2, <1>3 DEF IndInv, ClaimsInFlight
    <2>2. ASSUME NEW q \in Process, Working(proc'[q])
          PROVE  LET task == proc'[q].task
                 IN /\ task.token \in 1 .. job'[task.job].attempts
                    /\ HoldsLease(q)' => job'[task.job].lease = proc'[q].clock + Lease
                    /\ task.result = NoResult \/ PinnedTo(task.job, task.result)
      BY <1>1, <1>4, <2>2 DEF IndInv, ClaimsInFlight
    <2> QED
      BY <1>1, <2>1, <2>2 DEF IndInv, ClaimsInFlight
  <1>10. ClaimsDistinct'
    BY <1>4 DEF IndInv, ClaimsDistinct
  <1> QED
    BY <1>5, <1>6, <1>7, <1>8, <1>9, <1>10 DEF IndInv

\* Only the holder of a row's lease finishes it, and nobody else holds it then.
LEMMA FinishStep ==
  ASSUME IndInv, TypeOK', NEW p \in Process, Finish(p)
  PROVE  IndInv'
  <1> DEFINE j == proc[p].task.job
             result == proc[p].task.result
  <1>1. /\ TypeOK /\ UNCHANGED <<lastKey, now>> /\ Working(proc[p]) /\ HoldsLease(p)
        /\ j \in Job /\ job[j] \in Row /\ result \in PartialContract
        /\ job[j].status = "RUNNING" /\ job[j].token = proc[p].task.token
    BY DEF Finish, IndInv, TypeOK, Proc, Task, Working, HoldsLease
  <1>2. /\ job'[j].status = IF result = NoResult THEN "FAILED" ELSE "SUCCEEDED"
        /\ job'[j].lease = NoLease /\ job'[j].token = NoToken
        /\ job'[j].key = job[j].key /\ job'[j].attempts = job[j].attempts
        /\ job'[j].result = result
    <2>1. job'[j] = FinishedRow(job[j], result)
      BY <1>1 DEF Finish, TypeOK
    <2>2. LET R == FinishedRow(job[j], result)
          IN /\ R.status = IF result = NoResult THEN "FAILED" ELSE "SUCCEEDED"
             /\ R.lease = NoLease /\ R.token = NoToken
             /\ R.key = job[j].key /\ R.attempts = job[j].attempts /\ R.result = result
      <3> HIDE DEF j, result
      <3> QED
        BY <1>1, FinishedRowFacts
    <2> QED
      BY <2>1, <2>2
  <1>3. ASSUME NEW i \in Job, i # j PROVE job'[i] = job[i]
    BY <1>1, <1>3 DEF Finish, TypeOK
  <1>4. ~Working(proc'[p]) /\ proc'[p].clock = proc[p].clock
    BY DEF Finish, IndInv, TypeOK, Proc, Working
  <1>5. ASSUME NEW q \in Process, q # p PROVE proc'[q] = proc[q]
    BY <1>5 DEF Finish, IndInv, TypeOK
  <1>6. ASSUME NEW q \in Process, q # p, Working(proc[q])
        PROVE  HoldsLease(q)' <=> HoldsLease(q)
    <2>1. CASE proc[q].task.job = j
      <3>1. proc[q].task.token # proc[p].task.token
        BY <1>1, <1>6, <2>1 DEF IndInv, ClaimsDistinct
      <3>2. ~HoldsLease(q)
        BY <1>1, <2>1, <3>1 DEF HoldsLease
      <3>3. ~HoldsLease(q)'
        BY <1>2, <1>5, <1>6, <2>1 DEF HoldsLease
      <3> QED
        BY <3>2, <3>3
    <2>2. CASE proc[q].task.job # j
      <3>1. proc[q].task.job \in Job
        BY <1>6 DEF IndInv, TypeOK
      <3> QED
        BY <1>3, <1>5, <1>6, <2>2, <3>1 DEF HoldsLease
    <2> QED
      BY <2>1, <2>2
  <1>7. RowsCoherent'
    <2>1. RowCoherent(job'[j])
      <3>1. RowCoherent(job[j])
        BY <1>1 DEF IndInv, RowsCoherent
      <3> QED
        BY <1>1, <1>2, <3>1 DEF RowCoherent
    <2> QED
      BY <1>3, <2>1 DEF IndInv, RowsCoherent
  <1>8. DependenciesFirst'
    <2>1. Scheduled' = Scheduled
      BY <1>1, <1>2, <1>3 DEF Scheduled
    <2>2. Succeeded \subseteq Succeeded'
      BY <1>1, <1>3 DEF Succeeded
    <2>3. ASSUME NEW i \in Job
          PROVE  job'[i].key = job[i].key /\ job'[i].attempts = job[i].attempts
      BY <1>2, <1>3
    <2> QED
      BY <2>1, <2>2, <2>3, DependenciesKept
  <1>9. LostOnlyAfterExpiry'
    BY <1>1, <1>4, <1>5, <1>6 DEF IndInv, LostOnlyAfterExpiry
  <1>10. ArtifactsPinned'
    <2>1. result = NoResult \/ PinnedTo(j, result)
      BY <1>1 DEF IndInv, ClaimsInFlight
    <2> QED
      BY <1>2, <1>3, <2>1 DEF IndInv, ArtifactsPinned, Succeeded
  <1>11. ClaimsInFlight'
    <2>1. ASSUME NEW i \in Job
          PROVE  /\ job'[i].token \in {NoToken, job'[i].attempts} /\ job'[i].key <= lastKey'
                 /\ job'[i].attempts = job[i].attempts
      BY <1>1, <1>2, <1>3 DEF IndInv, ClaimsInFlight
    <2>2. ASSUME NEW q \in Process PROVE proc'[q].clock <= now'
      BY <1>1, <1>4, <1>5 DEF IndInv, ClaimsInFlight
    <2>3. ASSUME NEW q \in Process, Working(proc'[q])
          PROVE  LET task == proc'[q].task
                 IN /\ task.token \in 1 .. job'[task.job].attempts
                    /\ HoldsLease(q)' => job'[task.job].lease = proc'[q].clock + Lease
                    /\ task.result = NoResult \/ PinnedTo(task.job, task.result)
      <3>1. q # p /\ proc'[q] = proc[q] /\ Working(proc[q]) /\ proc[q].task.job \in Job
        BY <1>4, <1>5, <2>3 DEF IndInv, TypeOK
      <3>2. HoldsLease(q)' => HoldsLease(q) /\ proc[q].task.job # j
        BY <1>2, <1>6, <3>1 DEF HoldsLease
      <3>3. /\ proc[q].task.token \in 1 .. job[proc[q].task.job].attempts
            /\ HoldsLease(q) => job[proc[q].task.job].lease = proc[q].clock + Lease
            /\ \/ proc[q].task.result = NoResult
               \/ PinnedTo(proc[q].task.job, proc[q].task.result)
        BY <3>1 DEF IndInv, ClaimsInFlight
      <3> QED
        BY <1>3, <2>1, <3>1, <3>2, <3>3
    <2> QED
      BY <2>1, <2>2, <2>3 DEF ClaimsInFlight
  <1>12. ClaimsDistinct'
    BY <1>4, <1>5 DEF IndInv, ClaimsDistinct
  <1> QED
    BY <1>7, <1>8, <1>9, <1>10, <1>11, <1>12 DEF IndInv

\* A retried row was nobody's.
LEMMA RetryStep ==
  ASSUME IndInv, TypeOK', NEW j \in Job, RetryFailed(j)
  PROVE  IndInv'
  <1>1. /\ TypeOK /\ UNCHANGED <<lastKey, proc, now>> /\ job[j] \in Row
        /\ job[j].status = "FAILED" /\ job[j].attempts < MaxAttempts
    BY DEF RetryFailed, IndInv, TypeOK
  <1>2. /\ job'[j].status = "PENDING" /\ job'[j].lease = job[j].lease
        /\ job'[j].token = job[j].token /\ job'[j].key = job[j].key
        /\ job'[j].attempts = job[j].attempts /\ job'[j].result = job[j].result
    BY <1>1 DEF RetryFailed, TypeOK, Row
  <1>3. ASSUME NEW i \in Job, i # j PROVE job'[i] = job[i]
    BY <1>3 DEF RetryFailed, IndInv, TypeOK
  <1>4. ASSUME NEW q \in Process, Working(proc[q])
        PROVE  HoldsLease(q)' = HoldsLease(q) /\ proc[q].task.job \in Job
    <2>1. proc[q].task.job \in Job
      BY <1>4 DEF IndInv, TypeOK
    <2> QED
      BY <1>1, <1>2, <1>3, <2>1 DEF HoldsLease
  <1>5. RowsCoherent'
    <2>1. RowCoherent(job'[j])
      <3>1. RowCoherent(job[j])
        BY DEF IndInv, RowsCoherent
      <3> QED
        BY <1>1, <1>2, <3>1 DEF RowCoherent
    <2> QED
      BY <1>3, <2>1 DEF IndInv, RowsCoherent
  <1>6. DependenciesFirst'
    <2>1. Scheduled' = Scheduled
      BY <1>1, <1>2, <1>3 DEF Scheduled
    <2>2. Succeeded \subseteq Succeeded'
      BY <1>1, <1>3 DEF Succeeded
    <2>3. ASSUME NEW i \in Job
          PROVE  job'[i].key = job[i].key /\ job'[i].attempts = job[i].attempts
      BY <1>2, <1>3
    <2> QED
      BY <2>1, <2>2, <2>3, DependenciesKept
  <1>7. LostOnlyAfterExpiry'
    BY <1>1, <1>4 DEF IndInv, LostOnlyAfterExpiry
  <1>8. ArtifactsPinned'
    BY <1>2, <1>3 DEF IndInv, ArtifactsPinned, Succeeded
  <1>9. ClaimsInFlight'
    <2>1. ASSUME NEW i \in Job
          PROVE  /\ job'[i].token = job[i].token /\ job'[i].key = job[i].key
                 /\ job'[i].attempts = job[i].attempts /\ job'[i].lease = job[i].lease
      BY <1>2, <1>3
    <2> QED
      BY <1>1, <1>4, <2>1 DEF IndInv, ClaimsInFlight
  <1>10. ClaimsDistinct'
    BY <1>1 DEF IndInv, ClaimsDistinct
  <1> QED
    BY <1>5, <1>6, <1>7, <1>8, <1>9, <1>10 DEF IndInv

\* Time only widens what the clocks allow; upgrades touch no row and no run.
LEMMA EnvironmentStep ==
  ASSUME IndInv, TypeOK', UNCHANGED <<job, lastKey, proc>>, now' \in {now, now + 1}
  PROVE  IndInv'
  <1>1. /\ now \in Nat /\ \A q \in Process : proc[q].clock \in Nat
        /\ \A q \in Process : HoldsLease(q)' = HoldsLease(q)
    BY DEF IndInv, TypeOK, Proc, HoldsLease
  <1>2. RowsCoherent' /\ ArtifactsPinned' /\ ClaimsDistinct'
    BY DEF IndInv, RowsCoherent, ArtifactsPinned, Succeeded, ClaimsDistinct
  <1>3. DependenciesFirst'
    BY DEF IndInv, DependenciesFirst, Scheduled, Released, Succeeded
  <1>4. LostOnlyAfterExpiry'
    BY <1>1, LocalJobsAssumption DEF IndInv, LostOnlyAfterExpiry
  <1>5. ClaimsInFlight'
    BY <1>1 DEF IndInv, ClaimsInFlight
  <1> QED
    BY <1>2, <1>3, <1>4, <1>5 DEF IndInv

LEMMA InvNext == IndInv /\ [Next]_vars => IndInv'
  <1> SUFFICES ASSUME IndInv, [Next]_vars PROVE IndInv'
    OBVIOUS
  <1>1. TypeOK /\ TypeOK'
    BY TypeNext DEF IndInv
  <1>2. ASSUME NEW p \in Process
        PROVE  proc[p] \in Proc /\ proc[p].clock <= now
    BY DEF IndInv, TypeOK, ClaimsInFlight
  <1>3. ~Working(IdleProc) /\ IdleProc \in Proc /\ IdleProc.clock <= now
    BY <1>1, ConstantsTyped DEF Working, IdleProc, TypeOK
  <1>4. ASSUME NEW p \in Process, StartSession(p) PROVE IndInv'
    <2> DEFINE P == [proc[p] EXCEPT !.phase = "planning", !.contract = installed]
    <2>1. P \in Proc /\ ~Working(P) /\ P.clock <= now
      BY <1>1, <1>2 DEF Proc, Phase, Working, TypeOK
    <2>2. proc' = [proc EXCEPT ![p] = P]
      BY <1>4 DEF StartSession
    <2> HIDE DEF P
    <2> QED
      BY <1>1, <1>4, <2>1, <2>2, IdleStep DEF StartSession
  <1>5. ASSUME NEW p \in Process, EndSession(p) PROVE IndInv'
    BY <1>1, <1>3, <1>5, IdleStep DEF EndSession
  <1>6. ASSUME NEW p \in Process, NEW i \in Input, Plan(p, i) PROVE IndInv'
    BY <1>1, <1>6, PlanStep
  <1>7. ASSUME NEW p \in Process, BeginWholeQueueRun(p) PROVE IndInv'
    <2> DEFINE P == [Started(proc[p]) EXCEPT !.selected = Job]
    <2>1. P \in Proc /\ ~Working(P) /\ P.clock <= now
      BY <1>1, <1>2, StartedFacts DEF TypeOK
    <2>2. proc' = [proc EXCEPT ![p] = P]
      BY <1>7 DEF BeginWholeQueueRun
    <2> HIDE DEF P
    <2> QED
      BY <1>1, <1>7, <2>1, <2>2, IdleStep DEF BeginWholeQueueRun
  <1>8. ASSUME NEW p \in Process, BeginRun(p) PROVE IndInv'
    <2> DEFINE P == Started(proc[p])
    <2>1. P \in Proc /\ ~Working(P) /\ P.clock = now
      BY <1>1, <1>2, StartedFacts
    <2>2. proc' = [proc EXCEPT ![p] = P] /\ now <= now
      BY <1>1, <1>8 DEF BeginRun, TypeOK
    <2> HIDE DEF P
    <2> QED
      BY <1>1, <1>8, <2>1, <2>2, IdleStep DEF BeginRun
  <1>9. ASSUME NEW p \in Process, RecoverInterrupted(p) PROVE IndInv'
    BY <1>1, <1>9, RecoverStep
  <1>10. ASSUME NEW p \in Process, Claim(p) PROVE IndInv'
    BY <1>1, <1>10, ClaimStep
  <1>11. ASSUME NEW p \in Process, EndRun(p) PROVE IndInv'
    <2> DEFINE P == [IdleProc EXCEPT !.phase = "planning", !.contract = proc[p].contract]
    <2>1. P \in Proc /\ ~Working(P) /\ P.clock <= now
      <3>1. proc[p].contract \in Contract
        BY <1>2 DEF Proc
      <3>2. P \in Proc
        BY <3>1, ConstantsTyped DEF Proc, Phase
      <3>3. P.clock = IdleProc.clock /\ P.phase = "planning"
        BY DEF IdleProc
      <3> QED
        BY <1>3, <3>2, <3>3 DEF Working
    <2>2. proc' = [proc EXCEPT ![p] = P]
      BY <1>11 DEF EndRun
    <2> HIDE DEF P
    <2> QED
      BY <1>1, <1>11, <2>1, <2>2, IdleStep DEF EndRun
  <1>12. ASSUME NEW p \in Process, Execute(p) PROVE IndInv'
    BY <1>1, <1>12, ExecuteStep
  <1>13. ASSUME NEW p \in Process, Finish(p) PROVE IndInv'
    BY <1>1, <1>13, FinishStep
  <1>14. ASSUME NEW p \in Process, LeaseLost(p) PROVE IndInv'
    BY <1>1, <1>3, <1>14, IdleStep DEF LeaseLost
  <1>15. ASSUME NEW p \in Process, Crash(p) PROVE IndInv'
    BY <1>1, <1>3, <1>15, IdleStep DEF Crash
  <1>16. ASSUME NEW j \in Job, RetryFailed(j) PROVE IndInv'
    BY <1>1, <1>16, RetryStep
  <1>17. ASSUME NEW k \in Kind, Upgrade(k) PROVE IndInv'
    BY <1>1, <1>17, EnvironmentStep DEF Upgrade
  <1>18. ASSUME Tick PROVE IndInv'
    BY <1>1, <1>18, EnvironmentStep DEF Tick
  <1>19. CASE UNCHANGED vars
    BY <1>1, <1>19, EnvironmentStep DEF vars
  <1> QED
    BY <1>4, <1>5, <1>6, <1>7, <1>8, <1>9, <1>10, <1>11, <1>12, <1>13, <1>14, <1>15,
       <1>16, <1>17, <1>18, <1>19 DEF Next, RunStep

\* The inductive invariant holds in every reachable state.
THEOREM Invariance == Spec => []IndInv
  BY InvInit, InvNext, PTL DEF Spec
-----------------------------------------------------------------------------
(***************************************************************************)
(* What follows from it.                                                   *)
(***************************************************************************)
\* No transaction of any process leaves a row that breaks the schema's rules.
THEOREM RowsStayCoherent == Spec => []RowsCoherent
  <1>1. IndInv => RowsCoherent
    BY DEF IndInv
  <1> QED
    BY <1>1, Invariance, PTL

\* Jobs are attempted only after what they depend on has succeeded.
THEOREM DependenciesComeFirst == Spec => []DependenciesFirst
  <1>1. IndInv => DependenciesFirst
    BY DEF IndInv
  <1> QED
    BY <1>1, Invariance, PTL

\* At most one process holds the lease of a row.
THEOREM MutualExclusion == Spec => []OneHolder
  <1>1. IndInv => OneHolder
    BY DEF IndInv, ClaimsDistinct, OneHolder, HoldsLease
  <1> QED
    BY <1>1, Invariance, PTL

\* A process that finds its lease lost had it for the whole lease.
THEOREM LossIsExpiry == Spec => []LostOnlyAfterExpiry
  <1>1. IndInv => LostOnlyAfterExpiry
    BY DEF IndInv
  <1> QED
    BY <1>1, Invariance, PTL

\* A recorded artifact comes from the releases its job's identity names.
THEOREM ArtifactsStayPinned == Spec => []ArtifactsPinned
  <1>1. IndInv => ArtifactsPinned
    BY DEF IndInv
  <1> QED
    BY <1>1, Invariance, PTL

\* What a step does to a row that is RUNNING or SUCCEEDED, and who may do it.
LEMMA RowStep ==
  ASSUME IndInv, [Next]_vars, NEW j \in Job, job'[j] # job[j]
  PROVE  \/ \E p \in Process : RecoverInterrupted(p) /\ Expired(job[j], proc[p].clock)
         \/ \E p \in Process : Claim(p) /\ job[j].status = "PENDING"
         \/ \E p \in Process :
              /\ Finish(p) /\ proc[p].task.job = j /\ HoldsLease(p)
              /\ job'[j] = FinishedRow(job[j], proc[p].task.result)
         \/ /\ job[j].status \in {"ABSENT", "FAILED"}
            /\ job'[j].status = "PENDING" /\ job'[j].attempts = job[j].attempts
  <1> USE DEF IndInv, TypeOK
  <1>1. ASSUME NEW p \in Process, NEW i \in Input, Plan(p, i)
        PROVE  /\ job[j].status = "ABSENT"
               /\ job'[j].status = "PENDING" /\ job'[j].attempts = job[j].attempts
    <2>1. job[j].status = "ABSENT" /\ job'[j] = NewRow(j)
      BY <1>1 DEF Plan, Schedule, Scheduled
    <2>2. job[j].attempts = 0
      BY <2>1 DEF RowsCoherent, RowCoherent
    <2> QED
      BY <2>1, <2>2, NewRowFacts
  <1>2. ASSUME NEW p \in Process, RecoverInterrupted(p)
        PROVE  Expired(job[j], proc[p].clock)
    BY <1>2 DEF RecoverInterrupted
  <1>3. ASSUME NEW p \in Process, Claim(p) PROVE job[j].status = "PENDING"
    BY <1>3 DEF Claim, Claimable
  <1>4. ASSUME NEW p \in Process, Finish(p)
        PROVE  /\ proc[p].task.job = j /\ HoldsLease(p)
               /\ job'[j] = FinishedRow(job[j], proc[p].task.result)
    BY <1>4 DEF Finish
  <1>5. ASSUME NEW i \in Job, RetryFailed(i)
        PROVE  /\ job[j].status = "FAILED"
               /\ job'[j].status = "PENDING" /\ job'[j].attempts = job[j].attempts
    BY <1>5 DEF RetryFailed, Row
  <1>6. \/ \E p \in Process : (\E i \in Input : Plan(p, i)) \/ RecoverInterrupted(p)
                              \/ Claim(p) \/ Finish(p)
        \/ \E i \in Job : RetryFailed(i)
    BY DEF Next, RunStep, vars, StartSession, EndSession, BeginRun, BeginWholeQueueRun,
           EndRun, Execute, LeaseLost, Crash, Upgrade, Tick
  <1> QED
    BY <1>1, <1>2, <1>3, <1>4, <1>5, <1>6

\* A claim ends by its claimant's finish or after its lease has expired, and a
\* recorded result is never replaced.
THEOREM ClaimsAreHonoured == Spec => LeasesHonoured
  <1>1. ASSUME IndInv, [Next]_vars, NEW j \in Job
        PROVE  ClaimHonoured(j)
    <2>1. CASE job'[j] = job[j]
      BY <2>1 DEF ClaimHonoured
    <2>2. CASE \E p \in Process : RecoverInterrupted(p) /\ Expired(job[j], proc[p].clock)
      <3>1. PICK p \in Process : Expired(job[j], proc[p].clock)
        BY <2>2
      <3>2. proc[p].clock <= now /\ proc[p].clock \in Nat /\ job[j].lease \in Nat
            /\ now \in Nat
        BY <1>1 DEF IndInv, TypeOK, Proc, Row, ClaimsInFlight
      <3> QED
        BY <3>1, <3>2 DEF Expired, ClaimHonoured
    <2>3. CASE job[j].status \in {"PENDING", "ABSENT", "FAILED"}
      BY <2>3 DEF ClaimHonoured
    <2>4. CASE \E p \in Process : /\ Finish(p) /\ proc[p].task.job = j /\ HoldsLease(p)
                                  /\ job'[j] = FinishedRow(job[j], proc[p].task.result)
      <3>1. PICK p \in Process : /\ Finish(p) /\ proc[p].task.job = j /\ HoldsLease(p)
                                 /\ job'[j] = FinishedRow(job[j], proc[p].task.result)
        BY <2>4
      <3>2. job[j] \in Row /\ proc[p].task.result \in PartialContract
        BY <1>1 DEF IndInv, TypeOK, Proc, Task
      <3>3. job'[j].result = proc[p].task.result
        BY <3>1, <3>2, FinishedRowFacts
      <3> QED
        BY <3>1, <3>3 DEF Finish, HoldsLease, ClaimHonoured
    <2> QED
      BY <1>1, <2>1, <2>2, <2>3, <2>4, RowStep
  <1>2. IndInv /\ [Next]_vars => [\A j \in Job : ClaimHonoured(j)]_vars
    BY <1>1
  <1> QED
    BY <1>2, Invariance, PTL DEF Spec, LeasesHonoured
-----------------------------------------------------------------------------
(***************************************************************************)
(* The queue implements the ledger.                                        *)
(***************************************************************************)
\* What a job requires in the ledger is its dependency.
LEMMA LedgerReady ==
  ASSUME NEW j \in Job
  PROVE  Ledger!Ready(j) <=> Released(Dependency(j))
  <1>1. Dependency(j) # NoJob => Dependency(j) \in Job
    BY DependencyIsJob
  <1>2. ASSUME NEW d \in Job PROVE <<j, d>> \in Requires <=> d = Dependency(j)
    BY DEF Requires
  <1>3. NoJob \notin Job
    BY NoJobAssumption
  <1> QED
    BY <1>1, <1>2, <1>3 DEF Ledger!Ready, Released

\* Every claim is a Start of the ledger, every successful finish a Complete,
\* and every other step leaves starts and done alone.
THEOREM QueueImplementsLedger == Spec => LedgerRefined
  <1> DEFINE starts == [j \in Job |-> job[j].attempts]
  <1>1. Init => Ledger!LedgerInit
    BY DEF Init, Ledger!LedgerInit, Succeeded, AbsentRow
  <1>2. ASSUME IndInv, IndInv', [Next]_vars
        PROVE  [Ledger!LedgerNext]_(Ledger!ledgerVars)
    <2>1. CASE UNCHANGED <<starts, Succeeded>>
      BY <2>1 DEF Ledger!ledgerVars
    <2>2. ASSUME NEW p \in Process, Claim(p) PROVE Ledger!LedgerNext
      <3>1. PICK j \in Claimable(p) : job' = [job EXCEPT ![j] = ClaimedRow(@, proc[p].clock)]
        BY <2>2 DEF Claim
      <3>2. /\ j \in Job /\ job[j] \in Row /\ job[j].status = "PENDING"
            /\ proc[p].clock \in Nat
            /\ job[j].attempts < MaxAttempts /\ Released(Dependency(j))
        BY <1>2 DEF IndInv, Claimable, TypeOK, Proc
      <3>3. job'[j].status = "RUNNING" /\ job'[j].attempts = job[j].attempts + 1
        <4>1. job'[j] = ClaimedRow(job[j], proc[p].clock)
          BY <1>2, <3>1, <3>2 DEF IndInv, TypeOK
        <4> QED
          BY <3>2, <4>1, ClaimedRowFacts
      <3>4. \A i \in Job : i # j => job'[i] = job[i]
        BY <1>2, <3>1 DEF IndInv, TypeOK
      <3>5. starts' = [starts EXCEPT ![j] = @ + 1] /\ Succeeded' = Succeeded
        BY <3>2, <3>3, <3>4 DEF Succeeded
      <3>6. Ledger!Start(j)
        BY <3>2, <3>5, LedgerReady DEF Ledger!Start, Succeeded
      <3> QED
        BY <3>2, <3>6 DEF Ledger!LedgerNext
    <2>3. ASSUME NEW p \in Process, Finish(p)
          PROVE  Ledger!LedgerNext \/ UNCHANGED <<starts, Succeeded>>
      <3> DEFINE j == proc[p].task.job
      <3>1. /\ j \in Job /\ job[j] \in Row /\ job[j].status = "RUNNING"
            /\ proc[p].task.result \in PartialContract
        BY <1>2, <2>3 DEF Finish, IndInv, TypeOK, Proc, Task, Working, HoldsLease
      <3>2. /\ job'[j].attempts = job[j].attempts
            /\ job'[j].status \in {"FAILED", "SUCCEEDED"}
        <4>1. job'[j] = FinishedRow(job[j], proc[p].task.result)
          BY <1>2, <2>3, <3>1 DEF Finish, IndInv, TypeOK
        <4> HIDE DEF j
        <4> QED
          BY <3>1, <4>1, FinishedRowFacts
      <3>3. \A i \in Job : i # j => job'[i] = job[i]
        BY <1>2, <2>3 DEF Finish, IndInv, TypeOK
      <3>4. starts' = starts
        BY <3>2, <3>3
      <3>5. CASE job'[j].status = "FAILED"
        <4>1. Succeeded' = Succeeded
          BY <3>1, <3>3, <3>5 DEF Succeeded
        <4> QED
          BY <3>4, <4>1
      <3>6. CASE job'[j].status = "SUCCEEDED"
        <4>1. Succeeded' = Succeeded \cup {j} /\ j \notin Succeeded
          BY <3>1, <3>3, <3>6 DEF Succeeded
        <4>2. job[j].attempts > 0 /\ Released(Dependency(j))
          BY <1>2, <3>1 DEF IndInv, RowsCoherent, RowCoherent, DependenciesFirst
        <4>3. Ledger!Complete(j)
          BY <3>1, <3>4, <4>1, <4>2, LedgerReady DEF Ledger!Complete
        <4> QED
          BY <3>1, <4>3 DEF Ledger!LedgerNext
      <3> QED
        BY <3>2, <3>5, <3>6
    <2>4. ASSUME ~\E p \in Process : Claim(p) \/ Finish(p)
          PROVE  UNCHANGED <<starts, Succeeded>>
      <3>1. ASSUME NEW j \in Job
            PROVE  /\ job'[j].attempts = job[j].attempts
                   /\ job'[j].status = "SUCCEEDED" <=> job[j].status = "SUCCEEDED"
        <4>1. CASE job'[j] = job[j]
          BY <4>1
        <4>2. CASE \E p \in Process :
                     RecoverInterrupted(p) /\ Expired(job[j], proc[p].clock)
          <5>1. PICK p \in Process :
                   RecoverInterrupted(p) /\ Expired(job[j], proc[p].clock)
            BY <4>2
          <5>2. CASE j \in proc[p].selected
            <6>1. job'[j] = RecoveredRow(job[j], proc[p].clock)
              BY <5>1, <5>2 DEF RecoverInterrupted
            <6>2. job[j] \in Row /\ proc[p].clock \in Nat
              BY <1>2 DEF IndInv, TypeOK, Proc
            <6>3. /\ job'[j].attempts = job[j].attempts
                  /\ job'[j].status \in {"PENDING", "FAILED"}
              BY <6>1, <6>2, RecoveredRowFacts
            <6> QED
              BY <5>1, <6>3 DEF Expired
          <5>3. CASE j \notin proc[p].selected
            BY <5>1, <5>3 DEF RecoverInterrupted
          <5> QED
            BY <5>2, <5>3
        <4>3. CASE /\ job[j].status \in {"ABSENT", "FAILED"}
                   /\ job'[j].status = "PENDING" /\ job'[j].attempts = job[j].attempts
          BY <4>3
        <4> QED
          BY <1>2, <2>4, <4>1, <4>2, <4>3, RowStep
      <3> QED
        BY <3>1 DEF Succeeded
    <2> QED
      BY <2>1, <2>2, <2>3, <2>4 DEF Ledger!ledgerVars
  <1> QED
    BY <1>1, <1>2, Invariance, PTL DEF Spec, LedgerRefined, Ledger!LedgerSpec
=============================================================================
