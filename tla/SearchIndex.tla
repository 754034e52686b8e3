----------------------------- MODULE SearchIndex -----------------------------
(***************************************************************************)
(* From the bytes of a resource version to what a search finds: parses and *)
(* their cache (parsers/service.py, parsers/repository.py), visual         *)
(* descriptions of pages (parsers/visual.py), extraction and claims, and   *)
(* the full-text index every transaction refreshes before it commits       *)
(* (index/fts.py, storage/database.py, the triggers of migrations 0005 to  *)
(* 0007, search/service.py).                                               *)
(*                                                                         *)
(* Rows are numbered in the order they are stored; parsed_at is read in    *)
(* the transaction that stores a parse, so it agrees with that order.  A   *)
(* parse has one page, flagged for inspection.  A course has one event and *)
(* an extraction draws one claim at most: EventFusion has the rest.        *)
(***************************************************************************)
EXTENDS Naturals, FiniteSets, Sequences

CONSTANTS
  Course, Resource, CourseOf,   \* a resource never moves to another course
  Contract,                     \* parser, engine and settings of a parse
  Outcome,                      \* the terminal results a contract may give
  Text,                         \* what a host may say about a page
  Process,
  MaxSync,                      \* bound on the versions and title changes of a course
  MaxParse, MaxNote, MaxExtraction   \* bounds on the rows

ASSUME Tables ==
  /\ CourseOf \in [Resource -> Course]
  /\ Outcome \in [Contract -> SUBSET {"COMPLETE", "PARTIAL", "FAILED", "UNSUPPORTED"}]
ASSUME RowBounds == {MaxSync, MaxParse, MaxNote, MaxExtraction} \subseteq Nat

VARIABLES
  title,       \* the course's title row: how often it changed
  version,     \* the resource of each verified version
  current,     \* current_version_key of each resource, 0 for none
  parse,       \* parsed_document: version, contract and status
  rendered,    \* the parses whose page has a rendered image
  note,        \* vision descriptions: parse and text
  extraction,  \* extraction records: parse, the description read, whether a claim was drawn
  claim,       \* the claim an extraction drew: its row and decision state
  shown,       \* the claim the course's event shows, 0 for none
  reconciled,  \* the effective extractions of the course's last reconciliation run
  worker,      \* what each process is in the middle of
  document,    \* search_document
  indexed      \* FALSE until the migrated database is first projected

rows == <<title, version, current, parse, note, extraction, claim, shown>>
vars == <<rows, rendered, reconciled, worker, document, indexed>>

Idle == [step |-> "idle"]
-----------------------------------------------------------------------------
\* What counts as current

CourseOfParse(q) == CourseOf[version[parse[q].version]]
ParsesOf(v) == {q \in DOMAIN parse : parse[q].version = v}
Usable(q) == parse[q].status \in {"COMPLETE", "PARTIAL"}

\* Mutant: a later parse of any status hides the last usable one
LatestOfAny(q) == Usable(q) /\ \A o \in ParsesOf(parse[q].version) : o <= q

CurrentUsable(q) ==
  Usable(q) /\ \A o \in ParsesOf(parse[q].version) : Usable(o) => o <= q

NotesOf(q) == {n \in DOMAIN note : note[n].parse = q}
CurrentNote(q) ==
  IF NotesOf(q) = {} THEN 0 ELSE CHOOSE n \in NotesOf(q) : \A o \in NotesOf(q) : o <= n

VersionOf(x) == parse[extraction[x].parse].version
Effective(x) == \A y \in DOMAIN extraction : VersionOf(y) = VersionOf(x) => y <= x
CourseOfExtraction(x) == CourseOfParse(extraction[x].parse)
EffectiveIn(c) == {x \in DOMAIN extraction : CourseOfExtraction(x) = c /\ Effective(x)}
-----------------------------------------------------------------------------
\* The projection.  Every document repeats its course's title.

Document(kind, c, id, body) ==
  [kind |-> kind, course |-> c, id |-> id, body |-> body, title |-> title[c]]

Metadata == {Document("course", c, c, 0) : c \in Course}
Materials == {Document("material", CourseOf[r], r, current[r]) : r \in Resource}
NativeChunks ==
  {Document("native", CourseOfParse(q), q, parse[q].status) :
     q \in {q \in DOMAIN parse : CurrentUsable(q)}}
DerivedChunks ==
  {Document("derived", CourseOfParse(q), q, CurrentNote(q)) :
     q \in {q \in DOMAIN parse : CurrentUsable(q) /\ CurrentNote(q) # 0}}
Claims ==
  {Document("claim", CourseOfExtraction(x), x, claim[x]) :
     x \in {x \in DOMAIN extraction : claim[x] # "NONE" /\ Effective(x)}}
Events == {Document("event", c, c, shown[c]) : c \in {c \in Course : shown[c] # 0}}

Projection == Metadata \cup Materials \cup NativeChunks \cup DerivedChunks \cup Claims \cup Events

\* Mutant: the courses of dirty resources are left out
CoursesOnly(courses, resources) == courses

\* The courses projected again, from the rows the triggers marked
Affected(courses, resources) == courses \cup {CourseOf[r] : r \in resources}

\* The commit of a transaction whose writes marked these courses and resources
Refresh(courses, resources) ==
  /\ document' = IF indexed
                 THEN LET affected == Affected(courses, resources)
                      IN {d \in document : d.course \notin affected}
                           \cup {d \in Projection' : d.course \in affected}
                 ELSE Projection'
  /\ indexed' = TRUE

Rebuild == document' = Projection' /\ indexed' = TRUE
-----------------------------------------------------------------------------
\* A database migrated from a schema without an index: the rows are older, here the
\* courses, the resources and perhaps a version of one of them
Init ==
  /\ title = [c \in Course |-> 0]
  /\ \/ version = <<>> /\ current = [r \in Resource |-> 0]
     \/ \E r \in Resource :
          version = <<r>> /\ current = [s \in Resource |-> IF s = r THEN 1 ELSE 0]
  /\ parse = <<>>
  /\ rendered = {}
  /\ note = <<>>
  /\ extraction = <<>>
  /\ claim = [x \in 1..MaxExtraction |-> "NONE"]
  /\ shown = [c \in Course |-> 0]
  /\ reconciled = [c \in Course |-> {}]
  /\ worker = [p \in Process |-> Idle]
  /\ document = {}
  /\ indexed = FALSE

\* A synchronization stores changed course rows
PutCourse(c) ==
  /\ Len(version) + title[c] < MaxSync
  /\ title' = [title EXCEPT ![c] = @ + 1]
  /\ UNCHANGED <<version, current, parse, note, extraction, claim, shown,
                 rendered, reconciled, worker>>
  /\ Refresh({c}, {})

\* A fetch records a verified version, new or known, which becomes current if no
\* newer evidence is known.  A known version that changes nothing is left out.
StoreVersion(r) ==
  /\ \/ /\ Len(version) + title[CourseOf[r]] < MaxSync
        /\ version' = Append(version, r)
        /\ current' \in {current, [current EXCEPT ![r] = Len(version) + 1]}
     \/ /\ version' = version
        /\ \E v \in DOMAIN version :
             version[v] = r /\ current[r] # v /\ current' = [current EXCEPT ![r] = v]
  /\ UNCHANGED <<title, parse, note, extraction, claim, shown,
                 rendered, reconciled, worker>>
  /\ Refresh({}, {r})

\* Parses that succeeded or found the format unsupported are reused
Reusable(v, c) ==
  {q \in ParsesOf(v) : parse[q].contract = c /\ parse[q].status # "FAILED"}

\* Mutant: no index refuses a second row
NeverTaken(v, c) == {}

\* The row a unique index keeps a successful result from being stored beside
Taken(v, c) == Reusable(v, c)

\* The cache is read before the parser runs, outside any transaction; a hit
\* changes nothing.
ParseVersion(p, v, c) ==
  /\ worker[p] = Idle
  /\ Reusable(v, c) = {}
  /\ Len(parse) + Cardinality({o \in Process : worker[o].step = "parsing"}) < MaxParse
  /\ worker' = [worker EXCEPT ![p] = [step |-> "parsing", version |-> v, contract |-> c]]
  /\ UNCHANGED <<rows, rendered, reconciled, document, indexed>>

\* The loser of a race is given the winner's row
StoreTerminal(p) ==
  /\ worker[p].step = "parsing"
  /\ worker' = [worker EXCEPT ![p] = Idle]
  /\ UNCHANGED <<title, version, current, note, extraction, claim, shown, rendered, reconciled>>
  /\ \E status \in Outcome[worker[p].contract] :
       LET v == worker[p].version
           c == worker[p].contract
       IN IF status # "FAILED" /\ Taken(v, c) # {}
          THEN UNCHANGED <<parse, document, indexed>>
          ELSE /\ parse' = Append(parse, [version |-> v, contract |-> c, status |-> status])
               /\ Refresh({}, {version[v]})

\* prepare renders the flagged page; its row has no text and no document
Prepare(q) ==
  /\ Usable(q)
  /\ q \notin rendered
  /\ rendered' = rendered \cup {q}
  /\ UNCHANGED <<rows, reconciled, worker>>
  /\ Refresh({}, {version[parse[q].version]})

\* Mutant: the descriptions are left out of the input hash
HashOfParse(q, n) == <<q, 0>>
InputHash(q, n) == <<q, n>>

\* Mutant: a failed parse is extracted from
AnyParse(q) == TRUE
Extractable(q) == parse[q].status # "FAILED"

\* An extraction reads the parse it is pinned to and its current description.
\* Neither it nor its candidates mark anything for the index.
ExtractVersion(q) ==
  /\ Extractable(q)
  /\ UNCHANGED <<title, version, current, parse, note, claim, shown, rendered, reconciled>>
  /\ IF \E x \in DOMAIN extraction :
          InputHash(extraction[x].parse, extraction[x].note) = InputHash(q, CurrentNote(q))
     THEN UNCHANGED extraction
     ELSE /\ Len(extraction) < MaxExtraction
          /\ \E drew \in BOOLEAN :
               extraction' = Append(extraction, [parse |-> q, note |-> CurrentNote(q), drew |-> drew])
  /\ Refresh({}, {})

\* A run over the effective extractions of a course.  New claims stay unresolved
\* or join the event; recomputing the event rewrites the claims bound to it.
NewRun(c) ==
  LET eff == EffectiveIn(c)
      bound == {x \in DOMAIN extraction : CourseOfExtraction(x) = c /\ claim[x] \in {"BOUND", "REJECTED"}}
      open == {x \in eff \ bound : extraction[x].drew}
  IN /\ reconciled' = [reconciled EXCEPT ![c] = eff]
     /\ \E joined \in SUBSET open :
          LET all == bound \cup joined
          IN /\ claim' = [x \in 1..MaxExtraction |->
                  IF x \in all THEN (IF x \in eff THEN "BOUND" ELSE "REJECTED")
                  ELSE IF x \in open THEN "UNRESOLVED" ELSE claim[x]]
             /\ shown' = [shown EXCEPT ![c] =
                  IF all \cap eff = {} THEN 0 ELSE CHOOSE x \in all \cap eff : TRUE]
             /\ Refresh({d \in {c} : all # {} \/ \E x \in open : claim[x] = "NONE"}, {})

\* A run over the same effective extractions is reused and writes nothing
ReconcileCourse(c) ==
  /\ UNCHANGED <<title, version, current, parse, note, extraction, rendered>>
  /\ IF reconciled[c] = EffectiveIn(c)
     THEN UNCHANGED <<claim, shown, reconciled>> /\ Refresh({}, {})
     ELSE NewRun(c)

\* A background job; plan_resource pins the parse of an extraction
ExtractJob(q) == ExtractVersion(q) /\ UNCHANGED worker
ReconcileJob(c) == ReconcileCourse(c) /\ UNCHANGED worker
IndexJob ==
  /\ UNCHANGED <<rows, rendered, reconciled, worker>>
  /\ Rebuild

Importing(q, n) == [step |-> "extract", parse |-> q, note |-> n]

\* A row with the same text is found and not stored again
Described(q, t) ==
  LET row == [parse |-> q, text |-> t]
  IN IF \E n \in DOMAIN note : note[n] = row THEN note ELSE Append(note, row)

\* The description of a rendered page is stored; the event projection and a rebuild
\* of the index follow in transactions of their own.
ImportBundle(p, q, t) ==
  /\ worker[p] = Idle
  /\ q \in rendered
  /\ Len(Described(q, t)) <= MaxNote
  /\ note' = Described(q, t)
  /\ worker' = [worker EXCEPT ![p] =
       Importing(q, CHOOSE n \in DOMAIN note' : note'[n] = [parse |-> q, text |-> t])]
  /\ UNCHANGED <<title, version, current, parse, extraction, claim, shown, rendered, reconciled>>
  /\ Refresh({}, IF note' = note THEN {} ELSE {version[parse[q].version]})

ImportExtract(p) ==
  /\ worker[p].step = "extract"
  /\ ExtractVersion(worker[p].parse)
  /\ worker' = [worker EXCEPT ![p].step = "reconcile"]

ImportReconcile(p) ==
  /\ worker[p].step = "reconcile"
  /\ ReconcileCourse(CourseOfParse(worker[p].parse))
  /\ worker' = [worker EXCEPT ![p].step = "rebuild"]

ImportRebuild(p) ==
  /\ worker[p].step = "rebuild"
  /\ worker' = [worker EXCEPT ![p] = Idle]
  /\ UNCHANGED <<rows, rendered, reconciled>>
  /\ Rebuild

\* A step fails with a warning, or the process dies: the import can be repeated
GiveUp(p) ==
  /\ worker[p] # Idle
  /\ worker' = [worker EXCEPT ![p] = Idle]
  /\ UNCHANGED <<rows, rendered, reconciled, document, indexed>>

Next ==
  \/ \E c \in Course : PutCourse(c) \/ ReconcileJob(c)
  \/ \E r \in Resource : StoreVersion(r)
  \/ IndexJob
  \/ \E q \in DOMAIN parse : Prepare(q) \/ ExtractJob(q)
  \/ \E p \in Process :
       \/ \E v \in DOMAIN version, c \in Contract : ParseVersion(p, v, c)
       \/ StoreTerminal(p)
       \/ \E q \in DOMAIN parse, t \in Text : ImportBundle(p, q, t)
       \/ ImportExtract(p)
       \/ ImportReconcile(p)
       \/ ImportRebuild(p)
       \/ GiveUp(p)

Spec == Init /\ [][Next]_vars
-----------------------------------------------------------------------------
\* The coverage of document text a search reports

\* Mutant: resources without a version are left out
VersionsOnly(c, history) ==
  {v \in DOMAIN version : CourseOf[version[v]] = c /\ (history \/ current[version[v]] = v)}

\* The versions a search of the course ranges over, 0 for a resource without one
InScope(c, history) ==
  {v \in DOMAIN version : CourseOf[version[v]] = c /\ (history \/ current[version[v]] = v)}
  \cup {0 : r \in {r \in Resource : CourseOf[r] = c /\
               IF history THEN \A v \in DOMAIN version : version[v] # r ELSE current[r] = 0}}

LatestComplete(v) == \E q \in DOMAIN parse :
  /\ parse[q].version = v
  /\ parse[q].status = "COMPLETE"
  /\ \A o \in ParsesOf(v) : o <= q

TextComplete(c, history) == \A v \in InScope(c, history) : LatestComplete(v)
-----------------------------------------------------------------------------
\* Rows refer to rows that exist, a version has one reusable parse of a contract
\* at most, and an event shows a claim that is bound to it.
TypeOK ==
  /\ version \in Seq(Resource)
  /\ \A r \in Resource : current[r] # 0 => version[current[r]] = r
  /\ \A q \in DOMAIN parse : parse[q].version \in DOMAIN version
  /\ \A q \in rendered : Usable(q)
  /\ \A n \in DOMAIN note : note[n].parse \in rendered
  /\ \A x \in DOMAIN extraction : parse[extraction[x].parse].status # "FAILED"
  /\ \A x \in 1..MaxExtraction : claim[x] # "NONE" => extraction[x].drew
  /\ \A c \in Course : shown[c] # 0 => claim[shown[c]] = "BOUND"

\* Native text of a version is among the documents a search of all versions matches
Found(v, documents, parses) ==
  \E d \in documents : d.kind = "native" /\ parses[d.id].version = v

\* Between transactions the index holds every document a rebuild would write, and
\* nothing else but claims that an extraction has retired since.
IndexHoldsProjection == indexed =>
  /\ Projection \subseteq document
  /\ \A d \in document \ Projection : d.kind = "claim" /\ ~Effective(d.id)

\* Index updates and their source rows commit together: between transactions the
\* index is what a rebuild would write (docs/architecture/storage.md).
IndexCommitsWithSource == indexed => document = Projection

\* A search that reports complete document text has it: every resource of the
\* course has the version searched, and the newest parse of that version is whole
\* and in the index, with its current description if it has one.
CompleteHidesNothing == indexed => \A c \in Course, history \in BOOLEAN :
  TextComplete(c, history) => \A r \in Resource : CourseOf[r] = c =>
    /\ \E v \in DOMAIN version : version[v] = r
    /\ \A v \in DOMAIN version : version[v] = r /\ (history \/ current[r] = v) =>
         \E q \in ParsesOf(v) :
           /\ \A o \in ParsesOf(v) : o <= q
           /\ Document("native", c, q, "COMPLETE") \in document
           /\ CurrentNote(q) # 0 => Document("derived", c, q, CurrentNote(q)) \in document

\* However many processes parse a version at once, one parse of a contract serves
\* them all: no two rows of it can be reused, whatever failed in between.
OneReusableParse == \A q, o \in DOMAIN parse :
  /\ "FAILED" \notin {parse[q].status, parse[o].status}
  /\ parse[q].version = parse[o].version
  /\ parse[q].contract = parse[o].contract
  => q = o

\* Once text of a version can be found, some text of it always can: a later parse
\* that fails or finds the format unsupported hides nothing.
TextStaysSearchable == [][
  \A v \in DOMAIN version :
    Found(v, document, parse) => Found(v, document', parse')]_vars

\* An import that ends without a warning, a repeated one included, leaves its
\* description or a newer one of the page extracted and, while that extraction is
\* in effect, its claim stored and searchable.
ImportIsProjected == [][
  \A p \in Process : ImportRebuild(p) =>
    \E x \in DOMAIN extraction :
      /\ extraction[x].parse = worker[p].parse
      /\ extraction[x].note >= worker[p].note
      /\ extraction[x].drew /\ Effective(x) =>
           Document("claim", CourseOfExtraction(x), x, claim[x]) \in document']_vars
=============================================================================
