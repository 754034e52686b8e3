----------------------------- MODULE EventFusion -----------------------------
(***************************************************************************)
(* Events of one course: what the extractor draws from observations and    *)
(* documents is bound to logical events, and the claims bound to one event *)
(* are reconciled into the value it shows, under the user's decisions      *)
(* (events/extraction.py, reconciliation.py, _manual.py, _activity.py and  *)
(* _matching.py).                                                          *)
(*                                                                         *)
(* An extraction record draws at most one candidate, so a record, its      *)
(* candidate, its event source and its source claim share one key.  An     *)
(* event is named by the candidate that anchored it.  One temporal field   *)
(* stands for the canonical fields.  Audit rows, confidences and wording   *)
(* are left out.                                                           *)
(*                                                                         *)
(* A reconciliation reads its instant inside its transaction and stamps    *)
(* the claims it stores with it; a decision reads its instant before its   *)
(* own.  So the transaction of a reconciliation is two steps, between      *)
(* which only the clock can be read.                                       *)
(***************************************************************************)
EXTENDS Naturals, FiniteSets, Sequences, FiniteSetsExt

CONSTANTS
  Input,        \* source observations and resource versions of the course
  Context,      \* the source objects, content items and remote ids of an input
  Stamp,        \* when an input was published, 0 when its source does not say
  Drafts,       \* what the rules may draw from an input
  Number,       \* the assessment number in a title, 0 when there is none
  Generic,      \* the event type that is compatible with every other
  NoDraft,      \* an extraction that found no candidate
  NoValue,      \* a candidate without the field
  LocalValue,   \* the values a user may assert
  MaxRecord, MaxDecision   \* bounds on the extraction records and the user's decisions

Key == 1..MaxRecord
Title == DOMAIN Number
Draft == (UNION {Drafts[i] : i \in Input}) \ {NoDraft}
\* A day and an hour of it; hour 0 is a value of DATE_ONLY precision
Value == {d.value : d \in Draft} \cup LocalValue

ASSUME RowBounds == {MaxRecord, MaxDecision} \subseteq Nat
ASSUME InputTables ==
  /\ Stamp \in [Input -> Nat]
  /\ DOMAIN Context = Input /\ DOMAIN Drafts = Input
  /\ Number \in [Title -> Nat]
ASSUME DraftsTyped == \A d \in Draft :
  /\ d.title \in Title
  /\ d.change \in {"NONE", "MOVE"}
  /\ d.value = NoValue \/ d.value \in Nat \X Nat
ASSUME LocalValuesTyped == LocalValue \subseteq Nat \X Nat

VARIABLES
  extraction,   \* the extraction records, in the order of their keys
  source,       \* event sources: event, resolution state, and the instant they
                \* and their claims were created at
  event,        \* the events, named by their anchors
  possible,     \* the events an unresolved source resembles
  decision,     \* manual decisions on the field
  identity,     \* manual decisions on the event of a source
  outcome,      \* what the last recomputation of an event wrote
  supersedes,   \* the claims <<successor, predecessor>>
  run,          \* the input hashes of the recorded reconciliation runs
  request,      \* a field decision whose instant is read and not yet stored
  clock,        \* the present instant
  reconciling   \* the instant of the reconciliation whose transaction is open

vars == <<extraction, source, event, possible, decision, identity, outcome,
          supersedes, run, request, clock, reconciling>>

\* No reconciliation holds the write lock
Idle == 0

NoSource == [event |-> 0, state |-> "NONE", created |-> 0]
NoRequest == [event |-> 0]
NoOutcome == [selected |-> 0, accepted |-> {}, open |-> {}, ambiguous |-> FALSE]
-----------------------------------------------------------------------------
\* What counts as current

DraftOf(k) == extraction[k].draft
InputOf(k) == extraction[k].input

\* The latest record of its input
Effective(k) ==
  /\ k \in DOMAIN extraction
  /\ \A j \in DOMAIN extraction : InputOf(j) = InputOf(k) => j <= k

Candidates == {k \in DOMAIN extraction : Effective(k) /\ DraftOf(k) # NoDraft}

\* A source of a current extraction, or one an active decision rests on
ActiveSource(k, decisions, identities) ==
  \/ Effective(k)
  \/ \E i \in DOMAIN identities : identities[i].active /\ identities[i].source = k
  \/ \E d \in DOMAIN decisions : decisions[d].active /\ decisions[d].claim = k

LocalClaim(d) == MaxRecord + d

ValueOf(c, decisions) ==
  IF c \in Key THEN DraftOf(c).value ELSE decisions[c - MaxRecord].value

ActiveClaims(e, sources, decisions, identities) ==
  {k \in Key : /\ sources[k].event = e
               /\ ActiveSource(k, decisions, identities)
               /\ DraftOf(k).value # NoValue}
  \cup {LocalClaim(d) : d \in {d \in DOMAIN decisions :
          decisions[d].active /\ decisions[d].event = e /\ decisions[d].claim = LocalClaim(d)}}
-----------------------------------------------------------------------------
\* Comparing values

PrecisionRank(v) == IF v[2] = 0 THEN 2 ELSE 3
TemporalAgrees(v, w) == v[1] = w[1] /\ (v[2] = w[2] \/ 0 \in {v[2], w[2]})
ManualCompatible(v, w) == PrecisionRank(v) = PrecisionRank(w) /\ TemporalAgrees(v, w)

\* Equal values; a date joins the only exact value of its day
ClaimGroups(claims, V) ==
  LET Exact(day) == {V[c] : c \in {c \in claims : V[c][1] = day /\ V[c][2] # 0}}
      Home(v) == IF v[2] = 0 /\ Cardinality(Exact(v[1])) = 1
                 THEN CHOOSE w \in Exact(v[1]) : TRUE
                 ELSE v
  IN {{c \in claims : Home(V[c]) = Home(V[b])} : b \in claims}

Foremost(claims, V) ==
  Min({c \in claims : \A b \in claims : PrecisionRank(V[c]) >= PrecisionRank(V[b])})

StampOf(c) == IF c \in Key THEN Stamp[InputOf(c)] ELSE 0
ExplicitChange(c) == c \in Key /\ DraftOf(c).change = "MOVE" /\ StampOf(c) > 0

Newest(claims, V) ==
  Foremost({c \in claims : \A b \in claims : StampOf(c) >= StampOf(b)}, V)

\* A dated change strictly newer than every dated claim of the other groups and
\* as precise as each of them
Successors(claims, V) ==
  {Newest({c \in g : ExplicitChange(c)}, V) : g \in
     {g \in ClaimGroups(claims, V) :
        LET explicit == {c \in g : ExplicitChange(c)}
            others == claims \ g
        IN /\ explicit # {}
           /\ others # {}
           /\ \A o \in others :
                /\ StampOf(o) > 0
                /\ StampOf(Newest(explicit, V)) > StampOf(o)
                /\ PrecisionRank(V[Newest(explicit, V)]) >= PrecisionRank(V[o])}}
-----------------------------------------------------------------------------
\* Recomputing an event

Retired(row) == row.claim \in Key /\ ~Effective(row.claim)

\* Mutant: any newer claim ends a decision
DisplacedByAny(row, sources) == \E k \in Candidates :
  /\ sources[k].event = row.event
  /\ sources[k].created > row.decidedAt
  /\ DraftOf(k).value # NoValue

\* A current claim created after the decision's instant contradicts it
Displaced(row, sources) == \E k \in Candidates :
  /\ sources[k].event = row.event
  /\ k # row.claim
  /\ sources[k].created > row.decidedAt
  /\ DraftOf(k).value # NoValue
  /\ ~ManualCompatible(row.value, DraftOf(k).value)

Kept(e, sources, decisions) == [d \in DOMAIN decisions |->
  [decisions[d] EXCEPT !.active = @ /\ ~(/\ decisions[d].event \in e
                                         /\ \/ Retired(decisions[d])
                                            \/ Displaced(decisions[d], sources))]]

KeptIdentities(e, identities) == [i \in DOMAIN identities |->
  [identities[i] EXCEPT !.active = @ /\ ~(/\ identities[i].event \in e
                                          /\ ~Effective(identities[i].source))]]

\* Mutant: retired rows are read too
ManualChoiceOfAnyRow(e, decisions) ==
  {decisions[d].claim : d \in {d \in DOMAIN decisions : decisions[d].event = e}}

ManualChoice(e, decisions) ==
  {decisions[d].claim : d \in {d \in DOMAIN decisions :
     decisions[d].active /\ decisions[d].event = e}}

\* Mutant: a decision supersedes the claims it sets aside
ManualSuperseding(c) == [claim |-> c, supersede |-> TRUE]

\* How a choice was made: the claim, and whether it supersedes the others
Manual(c) == [claim |-> c, supersede |-> FALSE]
Agreed(c) == [claim |-> c, supersede |-> FALSE]
Change(c) == [claim |-> c, supersede |-> TRUE]
Undecided == [claim |-> 0, supersede |-> FALSE]

Choice(e, claims, decisions, V) ==
  IF claims = {} THEN Undecided
  ELSE IF ManualChoice(e, decisions) # {} THEN Manual(CHOOSE c \in ManualChoice(e, decisions) : TRUE)
  ELSE IF Cardinality(ClaimGroups(claims, V)) = 1 THEN Agreed(Foremost(claims, V))
  ELSE IF Cardinality(Successors(claims, V)) = 1 THEN Change(CHOOSE c \in Successors(claims, V) : TRUE)
  ELSE Undecided

Accepted(c, claims, V) ==
  {b \in claims : b = c \/ (TemporalAgrees(V[b], V[c]) /\ PrecisionRank(V[b]) = PrecisionRank(V[c]))}

Ambiguous(e, sources, matches, decisions, identities) == \E k \in Key :
  /\ e \in matches[k]
  /\ sources[k].state # "MATCHED"
  /\ ActiveSource(k, decisions, identities)

Recomputed(e, sources, matches, decisions, identities) ==
  LET claims == ActiveClaims(e, sources, decisions, identities)
      V == [c \in {k \in DOMAIN extraction : DraftOf(k) # NoDraft}
                     \cup {LocalClaim(d) : d \in DOMAIN decisions} |-> ValueOf(c, decisions)]
      choice == Choice(e, claims, decisions, V)
      accepted == IF choice.claim = 0 THEN {} ELSE Accepted(choice.claim, claims, V)
  IN [outcome |-> [selected  |-> choice.claim,
                   accepted  |-> accepted,
                   open      |-> IF choice.claim = 0 THEN claims ELSE {},
                   ambiguous |-> Ambiguous(e, sources, matches, decisions, identities)],
      edges   |-> IF choice.supersede
                  THEN {<<choice.claim, b>> : b \in claims \ accepted} ELSE {}]

\* The events in es recomputed, decisions that lost their ground first
Settled(es, sources, matches, decisions, identities) ==
  LET kept == Kept(es, sources, decisions)
      keptIdentities == KeptIdentities(es, identities)
      new == [e \in es |-> Recomputed(e, sources, matches, kept, keptIdentities)]
  IN [decision   |-> kept,
      identity   |-> keptIdentities,
      outcome    |-> [k \in Key |-> IF k \in es THEN new[k].outcome ELSE outcome[k]],
      supersedes |-> supersedes \cup UNION {new[e].edges : e \in es}]

Recompute(es, sources, matches, decisions, identities) ==
  \E s \in {Settled(es, sources, matches, decisions, identities)} :
    /\ decision' = s.decision
    /\ identity' = s.identity
    /\ outcome' = s.outcome
    /\ supersedes' = s.supersedes
-----------------------------------------------------------------------------
\* Binding candidates to events.  A book is the state a run works on:
\* the sources, the events and the possible matches so far.

BoundSources(book, e) ==
  {j \in Key : book.source[j].event = e /\ ActiveSource(j, decision, identity)}

Relational(book, k, e) ==
  \E j \in BoundSources(book, e) : Context[InputOf(j)] \cap Context[InputOf(k)] # {}

ExactType(book, k, e) ==
  \E j \in BoundSources(book, e) : DraftOf(j).type = DraftOf(k).type

Plausible(book, k) == {e \in book.event :
  LET drafts == {DraftOf(j) : j \in BoundSources(book, e)}
      own == DraftOf(k)
  IN /\ \E d \in drafts : d.title = own.title
     /\ ExactType(book, k, e) \/ own.type = Generic \/ \E d \in drafts : d.type = Generic
     /\ \/ Number[own.title] = 0
        \/ \A d \in drafts : Number[d.title] \in {0, Number[own.title]}}

Mergeable(book, k) == {e \in Plausible(book, k) :
  LET own == DraftOf(k)
      times == IF own.value = NoValue THEN {}
               ELSE {DraftOf(j).value : j \in BoundSources(book, e)} \ {NoValue}
      matching == \E v \in times : TemporalAgrees(own.value, v)
      explicit == own.change # "NONE"
      related == Relational(book, k, e)
  IN /\ matching \/ related \/ explicit
     /\ ExactType(book, k, e) \/ related
     /\ ~(times # {} /\ ~matching /\ ~related /\ ~explicit)}

Bind(book, k, e) ==
  [book EXCEPT !.source[k].event = e, !.source[k].state = "MATCHED", !.possible[k] = {}]

Anchor(book, k) == Bind([book EXCEPT !.event = @ \cup {k}], k, k)

\* A source that may belong to an event, or a change without one, stays open
Leave(book, k) ==
  [book EXCEPT !.source[k].state = IF DraftOf(k).change = "NONE" THEN "UNRESOLVED" ELSE "RELATED_CHANGE",
               !.possible[k] = Plausible(book, k)]

\* A first look at an ordinary candidate decides nothing that is not clear
Reconciled(book, k, final) ==
  LET manual == {identity[i].event : i \in {i \in DOMAIN identity :
                   identity[i].active /\ identity[i].source = k}}
  IN CASE manual # {} -> Bind(book, k, CHOOSE e \in manual : TRUE)
       [] manual = {} /\ book.source[k].event # 0 -> book
       [] OTHER ->
          IF Cardinality(Mergeable(book, k)) = 1
          THEN Bind(book, k, CHOOSE e \in Mergeable(book, k) : TRUE)
          ELSE IF Plausible(book, k) # {} \/ DraftOf(k).change # "NONE"
               THEN IF final THEN Leave(book, k) ELSE book
               ELSE Anchor(book, k)

\* The candidates of S reconciled in ascending order of their keys
ByKey(S, start, final) ==
  LET upTo[n \in 0..MaxRecord] ==
        IF n = 0 THEN start
        ELSE IF n \in S THEN Reconciled(upTo[n - 1], n, final) ELSE upTo[n - 1]
  IN upTo[MaxRecord]

\* Sources and claims for every current candidate, then the ordinary
\* candidates by key, then the changes, then the ordinary ones still open
Matched ==
  LET ordinary == {k \in Candidates : DraftOf(k).change = "NONE"}
      ensured == [k \in Key |-> IF k \in Candidates /\ source[k] = NoSource
                                THEN [event |-> 0, state |-> "UNRESOLVED", created |-> reconciling]
                                ELSE source[k]]
      opened == [source |-> ensured, event |-> event, possible |-> possible]
      first == ByKey(ordinary, opened, FALSE)
      changed == ByKey(Candidates \ ordinary, first, TRUE)
  IN ByKey({k \in ordinary : first.source[k].event = 0}, changed, TRUE)

\* Mutant: the decisions are left out
InputHashOfEvidence ==
  [extractions |-> {k \in DOMAIN extraction : Effective(k)}, fields |-> {}, identities |-> {}]

\* The current extractions and the active decisions
InputHash ==
  [extractions |-> {k \in DOMAIN extraction : Effective(k)},
   fields      |-> {d \in DOMAIN decision : decision[d].active},
   identities  |-> {i \in DOMAIN identity : identity[i].active}]
-----------------------------------------------------------------------------
Init ==
  /\ extraction = <<>>
  /\ source = [k \in Key |-> NoSource]
  /\ event = {}
  /\ possible = [k \in Key |-> {}]
  /\ decision = <<>>
  /\ identity = <<>>
  /\ outcome = [k \in Key |-> NoOutcome]
  /\ supersedes = {}
  /\ run = {}
  /\ request = NoRequest
  /\ clock = 1
  /\ reconciling = Idle

\* New content, a new parse or new rules give an input a further record; an
\* extraction whose input hash is recorded changes nothing.
Extract(i) ==
  /\ reconciling = Idle
  /\ Len(extraction) < MaxRecord
  /\ \E d \in Drafts[i] :
       extraction' = Append(extraction, [input |-> i, draft |-> d])
  /\ UNCHANGED <<source, event, possible, decision, identity, outcome,
                 supersedes, run, request, clock, reconciling>>

\* A run whose input hash is recorded is reused and changes nothing.  Any other
\* reads its instant with the write lock held.
BeginReconcile ==
  /\ reconciling = Idle
  /\ InputHash \notin run
  /\ reconciling' = clock
  /\ UNCHANGED <<extraction, source, event, possible, decision, identity, outcome,
                 supersedes, run, request, clock>>

\* What it stores is seen when it commits.  Only the hashes of the current
\* extractions are kept: the others cannot come back.
ReconcileCourse ==
  /\ reconciling # Idle
  /\ reconciling' = Idle
  /\ run' = {h \in run : h.extractions = InputHash.extractions} \cup {InputHash}
  /\ \E book \in {Matched} :
       /\ source' = book.source
       /\ event' = book.event
       /\ possible' = book.possible
       /\ Recompute(book.event, book.source, book.possible, decision, identity)
  /\ UNCHANGED <<extraction, request, clock>>

\* A reconciliation that fails, or whose process dies, leaves nothing
RollBack ==
  /\ reconciling # Idle
  /\ reconciling' = Idle
  /\ UNCHANGED <<extraction, source, event, possible, decision, identity, outcome,
                 supersedes, run, request, clock>>

\* The source claims a user can see
Stored == {k \in Key : source[k] # NoSource}

\* The instant of a decision is read before its transaction opens, whether or not
\* a reconciliation holds the lock it then waits for; a wait that times out
\* stores nothing.  Claims created after it have later instants: the clock moves.
\* What its user saw, and which reconciliation was open, is kept with it for the
\* properties.
BeginResolve(e) ==
  /\ request = NoRequest
  /\ Len(decision) + Len(identity) < MaxDecision
  /\ \E pick \in {[claim |-> k, value |-> DraftOf(k).value] :
                    k \in {k \in Key : source[k].event = e /\ DraftOf(k).value # NoValue}}
                 \cup {[claim |-> 0, value |-> v] : v \in LocalValue} :
       request' = [event |-> e, claim |-> pick.claim, value |-> pick.value,
                   decidedAt |-> clock, seen |-> Stored, during |-> reconciling]
  /\ clock' = clock + 1
  /\ UNCHANGED <<extraction, source, event, possible, decision, identity,
                 outcome, supersedes, run, reconciling>>

\* Mutant: the instant is read in the transaction
DecidedInTransaction == clock

DecidedAt == request.decidedAt

\* Mutant: the earlier decision stays active
ReplacedNone(decisions, e) == decisions

\* The earlier decision on the field is retired, the new one is stored
Replaced(decisions, e) == [d \in DOMAIN decisions |->
  [decisions[d] EXCEPT !.active = @ /\ decisions[d].event # e]]

ResolveField ==
  /\ reconciling = Idle
  /\ request # NoRequest
  /\ LET d == Len(decision) + 1
         row == [event     |-> request.event,
                 claim     |-> IF request.claim = 0 THEN LocalClaim(d) ELSE request.claim,
                 value     |-> request.value,
                 decidedAt |-> DecidedAt,
                 seen      |-> request.seen,
                 during    |-> request.during,
                 active    |-> TRUE]
     IN Recompute({request.event}, source, possible,
                  Append(Replaced(decision, request.event), row), identity)
  /\ request' = NoRequest
  /\ UNCHANGED <<extraction, source, event, possible, run, clock, reconciling>>

\* A source that is bound stays with its event
MayBind(k, e) == source[k].event \in {0, e}

ResolveEventSource(k, e) ==
  /\ reconciling = Idle
  /\ source[k] # NoSource
  /\ MayBind(k, e)
  /\ Len(decision) + Len(identity) < MaxDecision
  /\ LET book == Bind([source |-> source, event |-> event, possible |-> possible], k, e)
         others == [i \in DOMAIN identity |->
                      [identity[i] EXCEPT !.active = @ /\ identity[i].source # k]]
     IN /\ source' = book.source
        /\ possible' = book.possible
        /\ Recompute({e}, book.source, book.possible, decision,
                     Append(others, [source |-> k, event |-> e, active |-> TRUE]))
  /\ UNCHANGED <<extraction, event, run, request, clock, reconciling>>

Next ==
  \/ \E i \in Input : Extract(i)
  \/ BeginReconcile
  \/ ReconcileCourse
  \/ RollBack
  \/ \E e \in event : BeginResolve(e)
  \/ ResolveField
  \/ \E k \in Key, e \in event : ResolveEventSource(k, e)

Spec == Init /\ [][Next]_vars
-----------------------------------------------------------------------------
Claim == Key \cup {LocalClaim(d) : d \in 1..MaxDecision}

\* The stored rows are rows the schema accepts: a source is matched exactly when
\* it has an event and then resembles no other, an event has one active decision
\* at most, and a shown claim is an accepted one of an event that exists.
TypeOK ==
  /\ extraction \in Seq([input : Input, draft : Draft \cup {NoDraft}])
  /\ source \in [Key -> [event : Key \cup {0},
                         state : {"NONE", "UNRESOLVED", "RELATED_CHANGE", "MATCHED"},
                         created : 0..clock]]
  /\ event \subseteq Key
  /\ possible \in [Key -> SUBSET event]
  /\ \A k \in Key : /\ source[k].state = "MATCHED" <=> source[k].event \in event
                    /\ source[k].state = "MATCHED" => possible[k] = {}
  /\ \A c, d \in DOMAIN decision :
       decision[c].active /\ decision[d].active /\ c # d => decision[c].event # decision[d].event
  /\ \A i \in DOMAIN identity : identity[i].active => source[identity[i].source].event = identity[i].event
  /\ outcome \in [Key -> [selected : Claim \cup {0}, accepted : SUBSET Claim,
                          open : SUBSET Claim, ambiguous : BOOLEAN]]
  /\ \A e \in event : outcome[e].selected # 0 => outcome[e].selected \in outcome[e].accepted
  /\ supersedes \subseteq Key \X Key
  /\ clock \in Nat /\ reconciling \in 0..clock

\* An active decision on the field is what its event shows, whatever has been
\* extracted, bound or decided since, and the event shows no open conflict.
ManualHonoured == \A d \in DOMAIN decision :
  decision[d].active => /\ outcome[decision[d].event].selected = decision[d].claim
                        /\ outcome[decision[d].event].open = {}

\* When the current input hash belongs to a recorded run, what is stored is what
\* a new recomputation of every event would store: reusing the run hides no
\* retired claim, expired decision, conflict or ambiguity.
ReusedRunIsCurrent == InputHash \in run =>
  LET s == Settled(event, source, possible, decision, identity)
  IN /\ s.decision = decision
     /\ s.identity = identity
     /\ s.outcome = outcome
     /\ s.supersedes = supersedes

\* No claim supersedes itself through others: of any claims, one supersedes none
\* of them.  So the trigger that refuses a cycle never fires and a reconciliation
\* is never rolled back by it.
SupersedesAcyclic == \A S \in (SUBSET Key) \ {{}} :
  \E k \in S : \A b \in S : <<k, b>> \notin supersedes

Contradicted(row, k) ==
  /\ source[k].event = row.event
  /\ DraftOf(k).value # NoValue
  /\ ~ManualCompatible(row.value, DraftOf(k).value)

\* A decision never hides evidence of a later reconciliation: a current claim of
\* the event that contradicts an active decision was stored when the user asked
\* for it, or by the reconciliation that was open then.  However long the request
\* waited for the write lock, what other runs stored meanwhile reopens the field.
LaterEvidenceReopens == \A d \in DOMAIN decision : decision[d].active =>
  \A k \in Candidates : Contradicted(decision[d], k) =>
    k \in decision[d].seen \/ source[k].created = decision[d].during

\* "A later incompatible current source claim reopens the field"
\* (docs/usage.md:268): a decision sets aside only claims that its user could see.
\* It does not hold: a reconciliation that is open when the user asks stamps its
\* claims before the decision's instant and stores them after it.
UnseenEvidenceReopens == \A d \in DOMAIN decision : decision[d].active =>
  \A k \in Candidates : Contradicted(decision[d], k) => k \in decision[d].seen

\* A decision lapses only for a reason: it is replaced by one on the same event,
\* the claim it selects is no longer current, or a current claim contradicts it
\* that was neither stored when it was asked for nor by the reconciliation open
\* then.  Corroboration never ends one, nor does a commit late in coming.
DecisionsLapseForCause == [][
  \A d \in DOMAIN decision : decision[d].active /\ ~decision'[d].active =>
    \/ \E c \in DOMAIN decision' \ DOMAIN decision : decision'[c].event = decision[d].event
    \/ Retired(decision[d])
    \/ \E k \in Candidates \ decision[d].seen :
         /\ source'[k].event = decision[d].event
         /\ source'[k].created # decision[d].during
         /\ DraftOf(k).value # NoValue
         /\ ~ManualCompatible(decision[d].value, DraftOf(k).value)]_vars
=============================================================================
