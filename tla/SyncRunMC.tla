------------------------------ MODULE SyncRunMC ------------------------------
(* Instances of SyncRun for TLC.  Each request is a scenario of its own: a run *)
(* over all courses, one over a single course, and refreshes beside others.    *)
EXTENDS SyncRun, TLC

CONSTANTS c1, c2, folder, quiz, notice, lesson, due, x, y, r1, r2

MCHomeOf == [i \in {folder, quiz, notice, lesson, due} |-> c1]
MCKindOf == (notice :> "announcements") @@ (lesson :> "schedule") @@ (due :> "due_items")
MCTextOf == [i \in {quiz, lesson, due} |-> {x}] @@ (notice :> {x, y})

Idle == [kind |-> "one", course |-> Nothing, policy |-> {}, availability |-> FALSE,
         content |-> FALSE, events |-> {}, fetch |-> FALSE, limit |-> 2, nodes |-> 1, captured |-> Live,
         flaws |-> {}]
All == [Idle EXCEPT !.kind = "all", !.policy = {c1, c2}, !.content = TRUE,
                    !.events = {"schedule"}, !.limit = 2,
                    !.flaws = {"short", "error", "denied", "jobs", "storage"}]
One == [Idle EXCEPT !.course = c1, !.availability = TRUE, !.content = TRUE, !.fetch = TRUE,
                    !.events = {"assessments"}, !.limit = 3, !.nodes = 2, !.flaws = Flaw]
Refresh(scope) == [Idle EXCEPT !.course = c1, !.events = {scope}]
Due == [Refresh("due_items") EXCEPT !.limit = 3, !.flaws = Flaw]
Notices == [Refresh("announcements") EXCEPT !.limit = 1, !.flaws = {"crash"}]

Alone(rq) == (r1 :> rq) @@ (r2 :> Idle)
AllRequests == {Alone(All)}
OneRequests == {Alone(One)}
DueRequests == {Alone(Due)}
TwoRequests == {(r1 :> Notices) @@ (r2 :> Notices),
                (r1 :> Notices) @@ (r2 :> [Notices EXCEPT !.captured = 1])}
MCRequests == AllRequests \cup OneRequests \cup DueRequests \cup TwoRequests
FailingRequests == {Alone([One EXCEPT !.flaws = {"denied", "error"}])}
WellRequests == {Alone([Due EXCEPT !.flaws = {"short"}])}
=============================================================================
