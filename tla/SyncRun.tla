------------------------------- MODULE SyncRun -------------------------------
(***************************************************************************)
(* Synchronization runs: an engine run goes through scopes in a fixed       *)
(* order.  It reads the pages of each, stores what they list, plans and     *)
(* executes local jobs, and at its end records what it read and with what   *)
(* coverage (sync/engine.py, discovery.py, event_sources.py,                *)
(* events/repository.py and observability.py).                              *)
(*                                                                         *)
(* The source answers anything it may: pages in any order, cursors that     *)
(* come back, invalid records, errors.  What a page lists is stored item by *)
(* item.  Warnings, counts and failure texts are left out; jobs are in      *)
(* LocalJobs, downloads in ResourceVault, what sync_state does with an      *)
(* attempt in ScopeFreshness, omissions in ResourceLifecycle.               *)
(***************************************************************************)
EXTENDS Naturals, Sequences, FiniteSets, SequencesExt, Functions

CONSTANTS
  Run,
  Requests,     \* what the runs may be asked: functions from runs to requests
  Known,        \* the courses observed before
  Node,         \* content items
  Item,         \* announcements, schedule items and due items
  HomeOf,       \* the course of a content item or event item
  KindOf,       \* the scope that lists an event item
  Container, Assessment, Attached,  \* kinds of content items
  TextOf,       \* what the record of an event item or assessment may say
  Cursor,       \* cursors the source may give
  Root, Start, End, Bad, Nothing,
  MaxItems,     \* the most a page lists
  MaxTime

\* What a run goes through; from "content" on, once for each course
Steps == <<"courses", "availability", "content", "events", "announcements", "assessments",
           "schedule", "due_items", "plan", "resources", "local_jobs", "end">>
ContentStep == 3
EndStep == 12
EventScope == {"announcements", "assessments", "schedule", "due_items"}
Listing == {"courses", "availability", "content"}
Coverage == {"COMPLETE", "PARTIAL", "UNKNOWN", "FAILED"}
Course == (Known \cup UNION {rq[r].policy \cup {rq[r].course} : rq \in Requests, r \in Run})
            \ {Nothing}
Thing == Item \cup Assessment   \* what event records are about
Text == UNION Range(TextOf)
Live == 0

\* What may go wrong: pages that claim less than all, invalid or no items, no
\* capability or session, errors of the source, fetches, jobs, storage, the process
Flaw == {"short", "item", "empty", "unsupported", "denied", "error", "fetch", "jobs",
         "storage", "crash"}

\* course: of a run over one course.  policy: the courses a run over all
\* accepts.  limit: max_pages_per_scope.  nodes: max_content_nodes.  captured: the
\* instant of an import.
Request == [kind : {"all", "one", "courses"}, course : Course \cup {Nothing},
            policy : SUBSET Course, availability : BOOLEAN, content : BOOLEAN,
            events : SUBSET EventScope, fetch : BOOLEAN, limit : Nat \ {0}, nodes : Nat \ {0},
            captured : Nat, flaws : SUBSET Flaw]

ASSUME RequestsTyped == \A rq \in Requests :
  /\ rq \in [Run -> Request]
  /\ \A r \in Run : rq[r].kind # "one" => rq[r].course = Nothing
\* No operation fetches resources without discovering them
ASSUME FetchesDiscover == \A rq \in Requests : \A r \in Run :
  /\ rq[r].fetch => rq[r].content
  /\ rq[r].kind = "all" => rq[r].content
ASSUME BoundsTyped == MaxItems \in Nat /\ MaxTime \in Nat \ {0} /\ IsFiniteSet(Assessment)
ASSUME KindsTyped ==
  /\ Container \cup Assessment \cup Attached \subseteq Node
  /\ KindOf \in [Item -> EventScope \ {"assessments"}]
  /\ DOMAIN HomeOf = Node \cup Item /\ DOMAIN TextOf = Thing

VARIABLES
  request,      \* what each run is asked
  status,       \* the rows of sync_run
  work,         \* the locals of each run
  recorded,     \* how many scopes of each run are recorded, and how many attempts
  aborted,      \* the runs that ended with sync_engine_error
  dead,         \* the runs whose process died
  known,        \* the course rows
  observation,  \* the instants of the source_observation rows
  current,      \* the observation that each announcement, assessment, ... shows
  planned,      \* the observations whose jobs are planned
  newest,       \* history: the latest instant a thing was seen, and what it said
  blurred,      \* history: things seen again by a run that had a row of them
  now

vars == <<request, status, work, recorded, aborted, dead, known, observation,
          current, planned, newest, blurred, now>>
rows == <<observation, current, planned, newest, blurred>>

For(scope, c) == [scope |-> scope, course |-> c]
Result == [scope : Listing \cup EventScope \cup {"resources", "local_jobs"},
           course : Course \cup {Nothing}, coverage : Coverage]
Key == Thing \X Run \X Text   \* an observation row: what, by whom, saying what

ASSUME NamesApart == Start # End /\ Nothing \notin Key \cup Known /\ Bad \notin Thing \X Text

\* The reading of one scope.  parents: content items, or assessments, to read.
\* unread, owed, short: history, the pages announced and not read, the items
\* listed and not stored, and whether a page claimed less than all.
NoReader == [phase |-> "CLOSED", scope |-> "content", course |-> Nothing, parents |-> <<>>,
             parent |-> Root, cursor |-> Start, cursors |-> {}, seen |-> <<>>, pages |-> 0,
             coverage |-> "UNKNOWN", traversed |-> FALSE, cause |-> "none",
             pending |-> <<>>, stamp |-> 0, unread |-> {}, owed |-> {}, short |-> FALSE]
\* listed: the courses of a run over all, and left those of them still to do
NoWork == [step |-> 1, course |-> Nothing, left |-> <<>>, reader |-> NoReader,
           listed |-> <<>>, content |-> {}, scopes |-> <<>>, keys |-> <<>>]
Unseen == [at |-> 0, texts |-> {}]

Init ==
  /\ request \in Requests
  /\ status = [r \in Run |-> "NEW"]
  /\ work = [r \in Run |-> NoWork]
  /\ recorded = [r \in Run |-> <<0, 0>>]
  /\ aborted = {} /\ dead = {}
  /\ known = Known
  /\ observation = [k \in {} |-> 0]
  /\ current = [i \in Thing |-> Nothing]
  /\ planned = {}
  /\ newest = [i \in Thing |-> Unseen]
  /\ blurred = {}
  /\ now = 1
-----------------------------------------------------------------------------
\* Reading the pages of one scope

Partial(rd, cause) ==
  [rd EXCEPT !.coverage = "PARTIAL", !.traversed = FALSE, !.cause = cause]

\* An error of the source, or of storing what it said
Failed(rd) ==
  [rd EXCEPT !.phase = "READ", !.traversed = FALSE, !.cause = "error",
             !.coverage = IF rd.pages > 0 \/ rd.seen # <<>> THEN "PARTIAL" ELSE "FAILED"]

\* The event sources take a page of UNKNOWN coverage after complete ones only
Refused(rd, coverage) ==
  rd.scope \in EventScope /\ coverage = "UNKNOWN" /\ rd.coverage # "COMPLETE"

\* Mutant: the last page decides
MergedLast(rd, coverage) == coverage

Merged(rd, coverage) ==
  CASE coverage = "PARTIAL" -> "PARTIAL"
    [] coverage = "UNKNOWN" /\ rd.coverage = "COMPLETE" -> "UNKNOWN"
    [] OTHER -> rd.coverage

NextParent(rd) ==
  IF rd.parents = <<>>
  THEN [rd EXCEPT !.phase = "READ", !.traversed = (rd.cause = "none")]
  ELSE [rd EXCEPT !.parent = Head(rd.parents), !.parents = Tail(rd.parents),
                  !.cursor = Start, !.cursors = {}]

\* The reader once a page, or an event record, is done with
Turned(rd) ==
  LET ended == [rd EXCEPT !.phase = "READ", !.traversed = TRUE] IN
  IF rd.phase = "READ" \/ rd.pending # <<>> THEN rd
  ELSE CASE rd.scope = "assessments" -> IF rd.parents = <<>> THEN ended ELSE rd
         [] rd.scope # "assessments" /\ rd.cursor # End -> rd
         [] rd.scope = "content" /\ rd.cursor = End -> NextParent(rd)
         [] OTHER -> ended

\* The reader after a course or content item, which is first on its page.  The
\* availability of a course needs no other course.
Stored(rd, item, nodes) ==
  LET passed == [rd EXCEPT !.pending = Tail(@)]
      listed == [passed EXCEPT !.seen = Append(@, item), !.owed = @ \ {item}]
  IN IF rd.scope = "availability"
     THEN IF item = rd.course
          THEN [rd EXCEPT !.seen = <<item>>, !.traversed = TRUE, !.phase = "READ",
                          !.pending = <<>>, !.unread = {}]
          ELSE passed
     ELSE IF item \in Range(rd.seen) THEN Partial(passed, "duplicate")
     ELSE IF rd.scope = "content" /\ Len(rd.seen) >= nodes
     THEN [Partial(rd, "node_limit") EXCEPT !.phase = "READ"]
     ELSE IF rd.scope = "content" /\ item \in Container
     THEN [listed EXCEPT !.parents = Append(@, item), !.unread = @ \cup {<<item, Start>>}]
     ELSE listed

Listable(rd) ==
  CASE rd.scope \in {"courses", "availability"} -> Course
    [] rd.scope = "content" -> {n \in Node : HomeOf[n] = rd.course}
    [] OTHER -> UNION {{i} \X TextOf[i] : i \in
                        {j \in Item : HomeOf[j] = rd.course /\ KindOf[j] = rd.scope}}

\* The pages the source may answer with
Pages(rd, flaws) ==
  {page \in [items : UNION {[1..n -> Listable(rd) \cup {Bad}] : n \in 0..MaxItems},
             coverage : Coverage \ {"FAILED"}, next : Cursor \cup {End}] :
     /\ page.coverage \in {"PARTIAL", "UNKNOWN"} => "short" \in flaws
     /\ Bad \in Range(page.items) => "item" \in flaws
     /\ page.items = <<>> /\ page.next # End => "empty" \in flaws}

\* What an entry of a page is about
Subject(rd, entry) == IF rd.scope \in Listing \/ entry = Bad THEN entry ELSE entry[1]

\* History: the page at the cursor is read
Turning(rd, page) ==
  [rd EXCEPT !.unread = (@ \cup ({rd.parent} \X ({page.next} \ {End}))) \ {<<rd.parent, rd.cursor>>},
             !.owed = @ \cup (IF rd.scope = "availability" THEN {}
                              ELSE {Subject(rd, e) : e \in Range(page.items)}),
             !.short = @ \/ page.coverage # "COMPLETE"]

\* The reader after a page
Read(rd, page) ==
  LET counted == [Turning(rd, page) EXCEPT
                    !.pages = @ + 1, !.cursors = @ \cup {rd.cursor}, !.cursor = page.next]
      merged == [counted EXCEPT !.coverage = Merged(rd, page.coverage)]
  IN IF Refused(rd, page.coverage) THEN Failed(counted)
     ELSE IF rd.scope \in EventScope /\ page.items = <<>> /\ page.next # End
     THEN [Partial(merged, "empty_page") EXCEPT !.phase = "READ"]
     ELSE Turned([merged EXCEPT !.pending = page.items])
-----------------------------------------------------------------------------
\* The way of a run through its scopes

\* What is done of the steps; what the others come to is done whatever was asked
Wanted(rq, scope) ==
  CASE scope = "courses" -> rq.kind # "one"
    [] scope = "availability" -> rq.kind = "one" /\ rq.availability
    [] scope = "content" -> rq.content
    [] scope \in EventScope -> scope \in rq.events
    [] scope = "resources" -> rq.fetch
    [] OTHER -> TRUE

\* The first step from n on that is done
From(rq, n) ==
  CHOOSE m \in n..EndStep :
    Wanted(rq, Steps[m]) /\ \A k \in n..(m - 1) : ~Wanted(rq, Steps[k])

May(r, flaw) == flaw \in request[r].flaws
Running(r) == status[r] = "RUNNING" /\ r \notin dead
Between(r) == Running(r) /\ work[r].reader.phase = "CLOSED"
Reading(r) == Running(r) /\ work[r].reader.phase = "READING"
AtItem(r) == Reading(r) /\ work[r].reader.pending # <<>>
AtPage(r) == Reading(r) /\ ~AtItem(r) /\ work[r].reader.scope # "assessments"
AtRecord(r) ==
  AtItem(r) /\ work[r].reader.scope \in EventScope /\ Head(work[r].reader.pending) # Bad
Doing(r) == Steps[work[r].step]
At(r, scopes) == Between(r) /\ Doing(r) \in scopes
Onward(r) == [work[r] EXCEPT !.step = From(request[r], @ + 1)]

InventoryCoverage(w) ==
  LET found == {s \in Range(w.scopes) : s.scope = "content" /\ s.course = w.course}
  IN IF found = {} THEN "UNKNOWN" ELSE (CHOOSE s \in found : TRUE).coverage

\* The assessments known of a course, for a refresh of them
KnownAssessments(c) == {n \in Assessment : HomeOf[n] = c /\ current[n] # Nothing}

\* A course that was never stored is not named in a result
Named(scope, c, courses) == IF scope = "availability" /\ c \notin courses THEN Nothing ELSE c

Reported(rd) ==
  CASE rd.scope = "due_items" /\ rd.coverage = "COMPLETE" -> "UNKNOWN"
    [] rd.scope = "availability" /\ rd.seen = <<>> /\ rd.coverage = "COMPLETE" -> "FAILED"
    [] OTHER -> rd.coverage

\* What a scope result leaves behind.  A course that was not found ends the run.
Concluded(r, coverage, seen) ==
  LET scope == Doing(r)
      courses == IF scope = "courses" /\ request[r].kind = "all" THEN seen ELSE <<>>
  IN [work[r] EXCEPT
        !.reader = NoReader,
        !.step = IF scope = "courses" \/ (scope = "availability" /\ seen = <<>>) THEN EndStep
                 ELSE From(request[r], @ + 1),
        !.listed = @ \o courses, !.left = @ \o courses,
        !.content = IF scope = "content" THEN Range(seen) ELSE @,
        !.scopes = Append(@, [scope |-> scope, course |-> Named(scope, work[r].course, known),
                              coverage |-> coverage])]
-----------------------------------------------------------------------------
\* Steps of a run

\* A refresh of a scope needs a course observed before
MayStart(r) ==
  /\ status[r] = "NEW"
  /\ request[r].kind = "one" /\ ~request[r].availability => request[r].course \in known

StartRun(r) ==
  /\ MayStart(r)
  /\ status' = [status EXCEPT ![r] = "RUNNING"]
  /\ work' = [work EXCEPT ![r].step = From(request[r], 1),
                          ![r].course = request[r].course,
                          ![r].content = IF request[r].events = {"assessments"}
                                         THEN KnownAssessments(request[r].course) ELSE {}]
  /\ UNCHANGED <<request, recorded, aborted, dead, known, rows, now>>

\* Only the local part of the run changes
Work(r, w) ==
  /\ work' = [work EXCEPT ![r] = w]
  /\ UNCHANGED <<request, status, recorded, aborted, dead, known, rows, now>>

Conclude(r, coverage, seen) == Work(r, Concluded(r, coverage, seen))

Selected(r, c) == c \in request[r].policy

\* The next course of a list; those that are not selected are passed over
NextCourse(r) ==
  /\ At(r, {"end"})
  /\ work[r].left # <<>>
  /\ Work(r, [work[r] EXCEPT
       !.left = Tail(@), !.course = Head(work[r].left),
       !.step = IF Selected(r, Head(work[r].left)) THEN From(request[r], ContentStep) ELSE @])

LackCapability(r) ==
  /\ May(r, "unsupported")
  /\ At(r, Listing \cup EventScope)
  /\ Conclude(r, "UNKNOWN", <<>>)

DenySession(r) ==
  /\ May(r, "denied")
  /\ At(r, Listing \cup EventScope)
  /\ Conclude(r, "FAILED", <<>>)

Opened(r) ==
  [NoReader EXCEPT !.phase = "READING", !.scope = Doing(r), !.course = work[r].course]

OpenListing(r) ==
  /\ At(r, (Listing \cup EventScope) \ {"assessments"})
  /\ Work(r, [work[r] EXCEPT !.reader =
       [Opened(r) EXCEPT !.coverage = "COMPLETE", !.unread = {<<Root, Start>>}]])

\* The order is that of the inventory
OpenAssessments(r) ==
  /\ At(r, {"assessments"})
  /\ \E ids \in SetToSeqs(work[r].content \cap Assessment) :
       Work(r, [work[r] EXCEPT !.reader =
         Turned([Opened(r) EXCEPT !.coverage = InventoryCoverage(work[r]),
                                  !.parents = ids, !.owed = Range(ids)])])

ReadPage(r) ==
  LET rd == work[r].reader IN
  /\ AtPage(r)
  /\ rd.pages < request[r].limit
  /\ rd.cursor \notin rd.cursors
  /\ \E page \in Pages(rd, request[r].flaws) :
       Work(r, [work[r] EXCEPT !.reader = Read(rd, page)])

\* A course or content item is stored in a transaction of its own
StoreItem(r) ==
  LET rd == work[r].reader
      item == Head(rd.pending)
  IN
  /\ AtItem(r)
  /\ rd.scope \in Listing
  /\ item # Bad
  /\ \E read \in {Stored(rd, item, request[r].nodes)} :
       /\ work' = [work EXCEPT ![r].reader = Turned(read)]
       /\ known' = IF rd.scope \in {"courses", "availability"}
                   THEN known \cup Range(read.seen) ELSE known
  /\ UNCHANGED <<request, status, recorded, aborted, dead, rows, now>>

StopAtLimit(r) ==
  /\ AtPage(r)
  /\ work[r].reader.pages >= request[r].limit
  /\ Work(r, [work[r] EXCEPT !.reader = [Partial(@, "page_limit") EXCEPT !.phase = "READ"]])

\* A cursor that was read before ends the list, not the content tree
LeaveCycle(r) ==
  LET rd == Partial(work[r].reader, "cycle") IN
  /\ AtPage(r)
  /\ rd.pages < request[r].limit
  /\ rd.cursor \in rd.cursors
  /\ Work(r, [work[r] EXCEPT !.reader =
       IF rd.scope = "content" THEN NextParent(rd) ELSE [rd EXCEPT !.phase = "READ"]])

ReadError(r) ==
  /\ May(r, "error")
  /\ Reading(r) /\ ~AtItem(r)
  /\ Work(r, [work[r] EXCEPT !.reader = Failed(@)])

ReadAssessment(r) ==
  LET rd == work[r].reader IN
  /\ Reading(r) /\ ~AtItem(r)
  /\ rd.scope = "assessments" /\ rd.parents # <<>>
  /\ \E t \in TextOf[Head(rd.parents)] :
       Work(r, [work[r] EXCEPT !.reader =
         [rd EXCEPT !.parents = Tail(@), !.pending = <<<<Head(rd.parents), t>>>>]])

RejectItem(r) ==
  /\ AtItem(r)
  /\ Head(work[r].reader.pending) = Bad
  /\ Work(r, [work[r] EXCEPT !.reader = Failed(@)])

\* The instant is read before the transaction that stores it
Stamp(r) ==
  /\ AtRecord(r)
  /\ work[r].reader.stamp = 0
  /\ Work(r, [work[r] EXCEPT !.reader =
       [@ EXCEPT !.stamp = IF request[r].captured = Live THEN now ELSE request[r].captured]])

\* A row that the run has already keeps its instant
Inserted(key, stamp) ==
  IF key \in DOMAIN observation THEN observation
  ELSE [k \in DOMAIN observation \cup {key} |-> IF k = key THEN stamp ELSE observation[k]]

\* Mutant: what is stored last becomes current
CurrentLastStored(key, stamp) == key

\* An observation older than the current one does not become current
Current(key, stamp) ==
  LET was == current[key[1]] IN
  IF was # Nothing /\ stamp < Inserted(key, stamp)[was] THEN was ELSE key

Observe(r) ==
  LET rd == work[r].reader
      at == rd.stamp
  IN
  /\ AtRecord(r)
  /\ at # 0
  /\ \E thing \in {Head(rd.pending)[1]}, text \in {Head(rd.pending)[2]} :
     \E key \in {<<thing, r, text>>} :
       /\ observation' = Inserted(key, at)
       /\ current' = [current EXCEPT ![thing] = Current(key, at)]
       /\ newest' = [newest EXCEPT ![thing] =
            CASE at > @.at -> [at |-> at, texts |-> {text}]
              [] at = @.at -> [at |-> at, texts |-> @.texts \cup {text}]
              [] OTHER -> @]
       /\ blurred' = IF key \in DOMAIN observation /\ observation[key] < at
                     THEN blurred \cup {thing} ELSE blurred
       /\ work' = [work EXCEPT
            ![r].reader = Turned([rd EXCEPT !.pending = Tail(@), !.stamp = 0,
                                            !.seen = Append(@, thing), !.owed = @ \ {thing}]),
            ![r].keys = Append(@, key)]
  /\ UNCHANGED <<request, status, recorded, aborted, dead, known, planned, now>>

CloseReader(r) ==
  LET rd == work[r].reader IN
  /\ Running(r)
  /\ rd.phase = "READ"
  /\ Conclude(r, Reported(rd), rd.seen)

\* _finish_failed, and the exceptions that lead to it
Abort(r) ==
  /\ status' = [status EXCEPT ![r] = "FAILED"]
  /\ aborted' = aborted \cup {r}
  /\ UNCHANGED <<request, work, recorded, dead, known, rows, now>>

\* The event sources take no FAILED inventory
Accepts(coverage) == coverage \in {"COMPLETE", "PARTIAL", "UNKNOWN"}

EnterEvents(r) ==
  /\ At(r, {"events"})
  /\ Accepts(InventoryCoverage(work[r]))
  /\ Work(r, Onward(r))

RefuseInventory(r) ==
  /\ At(r, {"events"})
  /\ ~Accepts(InventoryCoverage(work[r]))
  /\ Abort(r)

PlanObservation(r) ==
  /\ At(r, {"plan"})
  /\ work[r].keys # <<>>
  /\ planned' = planned \cup {Head(work[r].keys)}
  /\ work' = [work EXCEPT ![r].keys = Tail(@)]
  /\ UNCHANGED <<request, status, recorded, aborted, dead, known, observation,
                 current, newest, blurred, now>>

EndPlanning(r) ==
  /\ At(r, {"plan"})
  /\ work[r].keys = <<>>
  /\ Work(r, Onward(r))

HasResources(r) == work[r].content \cap Attached # {}

FetchResources(r) ==
  /\ At(r, {"resources"})
  /\ \E failed \in {FALSE} \cup {b \in {TRUE} : May(r, "fetch")} :
       /\ failed => HasResources(r)
       /\ Conclude(r, IF failed THEN "PARTIAL" ELSE InventoryCoverage(work[r]), <<>>)

\* Jobs that fail or are left over make a result of their own
RunJobs(r) ==
  /\ At(r, {"local_jobs"})
  /\ \/ Work(r, Onward(r))
     \/ /\ May(r, "jobs")
        /\ \/ \E k \in planned : k[2] = r
           \/ request[r].fetch /\ HasResources(r)
        /\ Conclude(r, "PARTIAL", <<>>)
-----------------------------------------------------------------------------
\* The end of a run

Finishing(r) == At(r, {"end"}) /\ work[r].left = <<>>

RecordScope(r) ==
  /\ Finishing(r)
  /\ recorded[r][1] = recorded[r][2]
  /\ recorded[r][1] < Len(work[r].scopes)
  /\ recorded' = [recorded EXCEPT ![r][1] = @ + 1]
  /\ UNCHANGED <<request, status, work, aborted, dead, known, rows, now>>

\* Mutant: the attempt of a result that is not recorded yet
RecordAttemptFirst(r) ==
  /\ Finishing(r)
  /\ recorded[r][2] < Len(work[r].scopes)
  /\ recorded' = [recorded EXCEPT ![r][2] = @ + 1]
  /\ UNCHANGED <<request, status, work, aborted, dead, known, rows, now>>

\* Local jobs and unknown courses leave no attempt
RecordAttempt(r) ==
  /\ Finishing(r)
  /\ recorded[r][2] < recorded[r][1]
  /\ recorded' = [recorded EXCEPT ![r][2] = @ + 1]
  /\ UNCHANGED <<request, status, work, aborted, dead, known, rows, now>>

\* Mutant: an unknown coverage is no warning
RunStatusOfFailures(scopes) ==
  LET remote == {s \in Range(scopes) : s.scope # "local_jobs"} IN
  IF remote # {} /\ \A s \in remote : s.coverage = "FAILED" THEN "FAILED"
  ELSE IF \E s \in Range(scopes) : s.coverage \in {"PARTIAL", "FAILED"} THEN "SUCCEEDED_WITH_WARNINGS"
  ELSE "SUCCEEDED"

RunStatus(scopes) ==
  LET remote == {s \in Range(scopes) : s.scope # "local_jobs"} IN
  IF remote # {} /\ \A s \in remote : s.coverage = "FAILED" THEN "FAILED"
  ELSE IF \E s \in Range(scopes) : s.coverage # "COMPLETE" THEN "SUCCEEDED_WITH_WARNINGS"
  ELSE "SUCCEEDED"

Finish(r) ==
  /\ Finishing(r)
  /\ recorded[r][2] = Len(work[r].scopes)
  /\ status' = [status EXCEPT ![r] = RunStatus(work[r].scopes)]
  /\ UNCHANGED <<request, work, recorded, aborted, dead, known, rows, now>>

\* Outside the reading of a scope, which turns it into a result, an error of
\* storage ends the run
StorageFails(r) ==
  /\ May(r, "storage")
  /\ Between(r)
  /\ Abort(r)

Crash(r) ==
  /\ May(r, "crash")
  /\ Running(r)
  /\ dead' = dead \cup {r}
  /\ UNCHANGED <<request, status, work, recorded, aborted, known, rows, now>>

Tick ==
  /\ now < MaxTime
  /\ now' = now + 1
  /\ UNCHANGED <<request, status, work, recorded, aborted, dead, known, rows>>

Over(r) == r \in dead \/ status[r] \notin {"NEW", "RUNNING"}

\* Nothing is left to do: a run of an unknown course is never started
Rest ==
  /\ \A r \in Run : Over(r) \/ (status[r] = "NEW" /\ ~MayStart(r))
  /\ UNCHANGED vars

Step(r) ==
  \/ StartRun(r) \/ NextCourse(r) \/ LackCapability(r) \/ DenySession(r)
  \/ OpenListing(r) \/ OpenAssessments(r)
  \/ ReadPage(r) \/ StopAtLimit(r) \/ LeaveCycle(r) \/ ReadError(r)
  \/ StoreItem(r) \/ ReadAssessment(r) \/ RejectItem(r) \/ Stamp(r) \/ Observe(r) \/ CloseReader(r)
  \/ EnterEvents(r) \/ RefuseInventory(r) \/ PlanObservation(r) \/ EndPlanning(r)
  \/ FetchResources(r) \/ RunJobs(r)
  \/ RecordScope(r) \/ RecordAttempt(r) \/ Finish(r)

Next == Tick \/ Rest \/ \E r \in Run : Step(r) \/ StorageFails(r) \/ Crash(r)

Spec == Init /\ [][Next]_vars
-----------------------------------------------------------------------------
\* Type correctness
Reader == [phase : {"CLOSED", "READING", "READ"}, scope : Listing \cup EventScope,
           course : Course \cup {Nothing}, parents : Seq(Node), parent : Node \cup {Root},
           cursor : Cursor \cup {Start, End}, cursors : SUBSET (Cursor \cup {Start, End}),
           seen : Seq(Course \cup Node \cup Item), pages : Nat, coverage : Coverage,
           traversed : BOOLEAN,
           cause : {"none", "error", "duplicate", "cycle", "empty_page", "page_limit", "node_limit"},
           pending : Seq((Thing \X Text) \cup Course \cup Node \cup {Bad}), stamp : Nat,
           unread : SUBSET ((Node \cup {Root}) \X (Cursor \cup {Start, End})),
           owed : SUBSET (Course \cup Node \cup Item \cup {Bad}), short : BOOLEAN]

Locals == [step : 1..EndStep, course : Course \cup {Nothing}, left : Seq(Course),
           reader : Reader, listed : Seq(Course), content : SUBSET Node,
           scopes : Seq(Result), keys : Seq(Key)]

\* The variables have their types (every function of the run)
TypeOK ==
  /\ request \in Requests
  /\ status \in [Run -> {"NEW", "RUNNING", "SUCCEEDED", "SUCCEEDED_WITH_WARNINGS", "FAILED"}]
  /\ work \in [Run -> Locals]
  /\ recorded \in [Run -> Nat \X Nat]
  /\ \A r \in Run : recorded[r][2] <= recorded[r][1] /\ recorded[r][1] <= Len(work[r].scopes)
  /\ aborted \cup dead \subseteq Run
  /\ known \subseteq Course
  /\ DOMAIN observation \subseteq Key /\ Range(observation) \subseteq Nat
  /\ current \in [Thing -> Key \cup {Nothing}]
  /\ planned \subseteq DOMAIN observation
  /\ newest \in [Thing -> [at : Nat, texts : SUBSET Text]]
  /\ blurred \subseteq Thing
  /\ now \in 1..MaxTime

(* A scope is reported COMPLETE only when every page and every folder the   *)
(* source announced was read, everything a page listed was stored, and no   *)
(* page claimed less; assessments only over a content inventory that was,   *)
(* and for every assessment in it.  A list is reported as traversed only    *)
(* when no announced page was left out, whatever the pages claimed.  This   *)
(* is what _merge_page_coverage, _partial and _source_failure of            *)
(* discovery.py and event_sources.py are for, in every order of duplicates, *)
(* cycles, limits and errors; omissions rest on it.                         *)
CompleteReadEverything == \A r \in Run :
  LET rd == work[r].reader IN
  rd.phase = "READ" =>
    /\ rd.traversed => rd.unread = {}
    /\ Reported(rd) = "COMPLETE" =>
         /\ rd.unread = {} /\ rd.owed = {} /\ rd.pending = <<>> /\ ~rd.short
         /\ rd.scope = "availability" => rd.course \in known
         /\ rd.scope = "assessments" =>
              /\ InventoryCoverage(work[r]) = "COMPLETE"
              /\ work[r].content \cap Assessment \subseteq Range(rd.seen)

(* What an announcement, assessment, schedule or due item shows is what it  *)
(* said when it was last seen, by whichever run and in whatever order runs  *)
(* store what they saw (_upsert_current in events/repository.py).  Excepted *)
(* are things that a run saw twice saying the same: its row keeps the       *)
(* earlier instant.                                                         *)
CurrentIsNewest == \A i \in Thing \ blurred :
  IF current[i] = Nothing THEN newest[i] = Unseen
  ELSE /\ current[i][3] \in newest[i].texts
       /\ observation[current[i]] = newest[i].at

Asked(r) ==
  LET rq == request[r]
      scopes == {s \in {"content"} : rq.content} \cup rq.events \cup {s \in {"resources"} : rq.fetch}
  IN CASE rq.kind = "one" ->
            {For("availability", rq.course) : x \in {y \in {1} : rq.availability}}
              \cup {For(s, rq.course) : s \in scopes}
       [] OTHER -> {For("courses", Nothing)}
                     \cup {For(s, c) : s \in scopes, c \in Range(work[r].listed) \cap rq.policy}

(* The status of a run that ended by itself says what became of everything  *)
(* it was asked for: SUCCEEDED means that every scope of every accepted     *)
(* course was read completely and no job is left; a run that succeeded has  *)
(* recorded every result and attempt, and planned jobs for everything it    *)
(* observed, what a failed listing showed before it failed included; a run  *)
(* that FAILED without an error of its own observed nothing (_finish and    *)
(* _sync_discovered_course in sync/engine.py).                              *)
RunTellsTheTruth == \A r \in Run :
  LET results == Range(work[r].scopes)
      reported == {For(s.scope, s.course) : s \in results}
      mine == {k \in DOMAIN observation : k[2] = r}
  IN
  /\ status[r] = "SUCCEEDED" =>
       /\ \A s \in results : s.coverage = "COMPLETE"
       /\ Asked(r) \subseteq reported
  /\ status[r] \in {"SUCCEEDED", "SUCCEEDED_WITH_WARNINGS"} =>
       /\ recorded[r] = <<Len(work[r].scopes), Len(work[r].scopes)>>
       /\ mine \subseteq planned
       /\ (\E s \in results : s.scope = "content") => Asked(r) \subseteq reported
  /\ status[r] = "FAILED" /\ r \notin aborted => mine = {}

(* Whatever a run read appears in its result, failed scopes included        *)
(* (docs/architecture/synchronization.md:64), unless it died or storage     *)
(* failed it.  Violated: sync/engine.py:566 hands the FAILED coverage of a  *)
(* content inventory to event_sources.run, which raises ValueError.         *)
FailedScopesAppear == \A r \in Run :
  Over(r) /\ r \notin dead /\ ~May(r, "storage") => recorded[r][1] = Len(work[r].scopes)

(* A list that a well-behaved source offers is followed to its end, up to   *)
(* the configured limits (docs/architecture/synchronization.md:21).         *)
(* Violated: the second page of UNKNOWN coverage is refused                 *)
(* (_merge_coverage in sync/event_sources.py:435).                          *)
PagesFollowed == \A r \in Run :
  LET rd == work[r].reader IN
  rd.phase = "READ" /\ rd.cause \notin {"page_limit", "node_limit", "cycle"} =>
    rd.unread = {} /\ rd.owed = {}
=============================================================================
