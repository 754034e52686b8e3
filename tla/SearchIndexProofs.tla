-------------------------- MODULE SearchIndexProofs --------------------------
(***************************************************************************)
(* The parse cache, the index and the imports of visual evidence for every *)
(* value of the constants: any number of processes and resources, and any  *)
(* history of versions, parses, descriptions and extractions.              *)
(***************************************************************************)
EXTENDS SearchIndex, TLAPS, WellFoundedInduction

\* The parses are a sequence of rows, to which rows are appended.
ParsesNumbered == parse \in Seq({parse[q] : q \in DOMAIN parse})

CacheInv == ParsesNumbered /\ OneReusableParse

\* A row more is the last one, and leaves the others as they are.
LEMMA AppendParse ==
  ASSUME ParsesNumbered, NEW row, parse' = Append(parse, row)
  PROVE  /\ Len(parse) \in Nat /\ DOMAIN parse = 1..Len(parse)
         /\ DOMAIN parse' = DOMAIN parse \cup {Len(parse) + 1}
         /\ parse'[Len(parse) + 1] = row
         /\ \A q \in DOMAIN parse : parse'[q] = parse[q]
         /\ ParsesNumbered'
  <1> DEFINE T == {parse[q] : q \in DOMAIN parse}
  <1>1. parse \in Seq(T \cup {row})
    BY DEF ParsesNumbered
  <1>2. Len(parse) \in Nat /\ DOMAIN parse = 1..Len(parse)
    BY <1>1
  <1> HIDE DEF T
  <1>3. /\ parse' \in Seq(T \cup {row})
        /\ Len(parse') = Len(parse) + 1
        /\ parse'[Len(parse) + 1] = row
        /\ \A q \in DOMAIN parse : parse'[q] = parse[q]
    BY <1>1, <1>2
  <1>4. DOMAIN parse' = DOMAIN parse \cup {Len(parse) + 1}
    BY <1>2, <1>3
  <1>5. ParsesNumbered'
    <2>1. \A q \in 1..Len(parse') : parse'[q] \in {parse'[o] : o \in DOMAIN parse'}
      BY <1>2, <1>3, <1>4
    <2> QED
      BY <1>2, <1>3, <2>1 DEF ParsesNumbered
  <1> QED
    BY <1>2, <1>3, <1>4, <1>5

\* Storing a result, the only step that adds a parse, adds none that could be
\* reused beside one that can.
LEMMA StoreStep ==
  ASSUME CacheInv, NEW p \in Process, StoreTerminal(p)
  PROVE  CacheInv'
  <1>1. CASE parse' = parse
    BY <1>1 DEF CacheInv, ParsesNumbered, OneReusableParse
  <1>2. CASE parse' # parse
    <2>1. PICK status \in Outcome[worker[p].contract] :
            /\ ~(status # "FAILED" /\ Taken(worker[p].version, worker[p].contract) # {})
            /\ parse' = Append(parse, [version |-> worker[p].version,
                                       contract |-> worker[p].contract, status |-> status])
      BY <1>2 DEF StoreTerminal
    <2> DEFINE row == [version |-> worker[p].version,
                       contract |-> worker[p].contract, status |-> status]
               last == Len(parse) + 1
    <2>2. /\ DOMAIN parse' = DOMAIN parse \cup {last} /\ parse'[last] = row
          /\ last \notin DOMAIN parse
          /\ \A q \in DOMAIN parse : parse'[q] = parse[q]
          /\ ParsesNumbered'
      BY <2>1, AppendParse DEF CacheInv
    <2>3. ASSUME NEW q \in DOMAIN parse, parse[q].status # "FAILED", status # "FAILED"
          PROVE  ~(parse[q].version = row.version /\ parse[q].contract = row.contract)
      BY <2>1, <2>3 DEF Taken, Reusable, ParsesOf
    <2>4. row.status = status
      OBVIOUS
    <2> HIDE DEF row, last
    <2>5. OneReusableParse'
      <3> SUFFICES ASSUME NEW q \in DOMAIN parse', NEW o \in DOMAIN parse',
                          parse'[q].status # "FAILED", parse'[o].status # "FAILED",
                          parse'[q].version = parse'[o].version,
                          parse'[q].contract = parse'[o].contract
                   PROVE  q = o
        BY DEF OneReusableParse
      <3>1. CASE q \in DOMAIN parse /\ o \in DOMAIN parse
        BY <2>2, <3>1 DEF CacheInv, OneReusableParse
      <3>2. CASE q = last /\ o \in DOMAIN parse
        BY <2>2, <2>3, <2>4, <3>2
      <3>3. CASE q \in DOMAIN parse /\ o = last
        BY <2>2, <2>3, <2>4, <3>3
      <3> QED
        BY <2>2, <3>1, <3>2, <3>3
    <2> QED
      BY <2>2, <2>5 DEF CacheInv
  <1> QED
    BY <1>1, <1>2

\* Every other step leaves the parses as they are.
LEMMA CacheNext == CacheInv /\ [Next]_vars => CacheInv'
  <1> SUFFICES ASSUME CacheInv, [Next]_vars
               PROVE  CacheInv'
    OBVIOUS
  <1>1. CASE \E p \in Process : StoreTerminal(p)
    BY <1>1, StoreStep
  <1>2. CASE ~\E p \in Process : StoreTerminal(p)
    <2>1. parse' = parse
      <3>1. CASE UNCHANGED vars
        BY <3>1 DEF vars, rows
      <3>2. CASE \E c \in Course : PutCourse(c) \/ ReconcileJob(c)
        BY <3>2 DEF PutCourse, ReconcileJob, ReconcileCourse
      <3>3. CASE \E r \in Resource : StoreVersion(r)
        BY <3>3 DEF StoreVersion
      <3>4. CASE IndexJob
        BY <3>4 DEF IndexJob, rows
      <3>5. CASE \E q \in DOMAIN parse : Prepare(q) \/ ExtractJob(q)
        BY <3>5 DEF Prepare, ExtractJob, ExtractVersion, rows
      <3>6. ASSUME NEW p \in Process,
                   \/ \E v \in DOMAIN version, c \in Contract : ParseVersion(p, v, c)
                   \/ \E q \in DOMAIN parse, t \in Text : ImportBundle(p, q, t)
                   \/ ImportExtract(p) \/ ImportReconcile(p) \/ ImportRebuild(p) \/ GiveUp(p)
            PROVE  parse' = parse
        BY <3>6 DEF ParseVersion, ImportBundle, ImportExtract, ExtractVersion,
                    ImportReconcile, ReconcileCourse, ImportRebuild, GiveUp, rows
      <3> QED
        BY <1>2, <3>1, <3>2, <3>3, <3>4, <3>5, <3>6 DEF Next
    <2> QED
      BY <2>1 DEF CacheInv, ParsesNumbered, OneReusableParse
  <1> QED
    BY <1>1, <1>2

\* However many processes parse a version at once, a version has at most one
\* parse of a contract that can be reused.
THEOREM ParsesAreShared == Spec => []OneReusableParse
  <1>1. Init => CacheInv
    BY DEF Init, CacheInv, ParsesNumbered, OneReusableParse
  <1>2. CacheInv => OneReusableParse
    BY DEF CacheInv
  <1> QED
    BY <1>1, <1>2, CacheNext, PTL DEF Spec
-----------------------------------------------------------------------------
(***************************************************************************)
(* The types of the rows, and what they refer to.                          *)
(***************************************************************************)
Status == {"COMPLETE", "PARTIAL", "FAILED", "UNSUPPORTED"}
ParseRow == [version : Nat, contract : Contract, status : Status]
NoteRow == [parse : Nat, text : Text]
ExtractionRow == [parse : Nat, note : Nat, drew : BOOLEAN]
ClaimState == {"NONE", "UNRESOLVED", "BOUND", "REJECTED"}
Work == {Idle}
          \cup [step : {"parsing"}, version : Nat, contract : Contract]
          \cup [step : {"extract", "reconcile", "rebuild"}, parse : Nat, note : Nat]

VersionsTyped ==
  /\ title \in [Course -> Nat]
  /\ version \in Seq(Resource)
  /\ current \in [Resource -> Nat]
  /\ \A r \in Resource : current[r] # 0 => current[r] \in DOMAIN version /\ version[current[r]] = r

ParsesTyped ==
  /\ parse \in Seq(ParseRow)
  /\ \A q \in DOMAIN parse : parse[q].version \in DOMAIN version
  /\ rendered \subseteq DOMAIN parse
  /\ \A q \in rendered : Usable(q)
  /\ note \in Seq(NoteRow)
  /\ \A n \in DOMAIN note : note[n].parse \in rendered

\* A claim is an extraction's that drew one; an event shows a bound claim of its
\* own course.
ClaimsTyped ==
  /\ extraction \in Seq(ExtractionRow)
  /\ \A x \in DOMAIN extraction :
       extraction[x].parse \in DOMAIN parse /\ parse[extraction[x].parse].status # "FAILED"
  /\ Len(extraction) <= MaxExtraction
  /\ claim \in [1..MaxExtraction -> ClaimState]
  /\ \A x \in 1..MaxExtraction : claim[x] # "NONE" => x \in DOMAIN extraction /\ extraction[x].drew
  /\ shown \in [Course -> Nat]
  /\ \A c \in Course : shown[c] # 0 =>
       /\ shown[c] \in DOMAIN extraction
       /\ CourseOfExtraction(shown[c]) = c /\ claim[shown[c]] = "BOUND"

\* A process works on rows that exist.
WorkTyped ==
  /\ worker \in [Process -> Work]
  /\ \A p \in Process :
       /\ worker[p].step = "parsing" => worker[p].version \in DOMAIN version
       /\ worker[p].step \in {"extract", "reconcile", "rebuild"} =>
            worker[p].note \in DOMAIN note /\ note[worker[p].note].parse = worker[p].parse

Typed == VersionsTyped /\ ParsesTyped /\ ClaimsTyped /\ WorkTyped

\* Rows are only added, and a claim once stored stays.
Grows ==
  /\ \A v \in DOMAIN version : v \in DOMAIN version' /\ version'[v] = version[v]
  /\ \A q \in DOMAIN parse : q \in DOMAIN parse' /\ parse'[q] = parse[q]
  /\ \A n \in DOMAIN note : n \in DOMAIN note' /\ note'[n] = note[n]
  /\ \A x \in DOMAIN extraction : x \in DOMAIN extraction' /\ extraction'[x] = extraction[x]
  /\ rendered \subseteq rendered'

\* A sequence after one more row.
LEMMA Appended ==
  ASSUME NEW S, NEW s \in Seq(S), NEW e \in S, NEW t, t = Append(s, e)
  PROVE  /\ t \in Seq(S) /\ Len(s) \in Nat /\ DOMAIN s = 1..Len(s)
         /\ Len(t) = Len(s) + 1 /\ DOMAIN t = DOMAIN s \cup {Len(s) + 1}
         /\ Len(s) + 1 \notin DOMAIN s /\ t[Len(s) + 1] = e
         /\ \A i \in DOMAIN s : t[i] = s[i]
  <1>1. t \in Seq(S) /\ Len(s) \in Nat /\ DOMAIN s = 1..Len(s) /\ Len(t) = Len(s) + 1
    OBVIOUS
  <1>2. DOMAIN t = DOMAIN s \cup {Len(s) + 1}
    BY <1>1
  <1> QED
    BY <1>1, <1>2

LEMMA TypedInit == Init => Typed
  <1> SUFFICES ASSUME Init PROVE Typed
    OBVIOUS
  <1>1. title \in [Course -> Nat] /\ shown \in [Course -> Nat] /\ \A c \in Course : shown[c] = 0
    BY DEF Init
  <1>2. claim \in [1..MaxExtraction -> ClaimState] /\ \A x \in 1..MaxExtraction : claim[x] = "NONE"
    BY DEF Init, ClaimState
  <1>3. VersionsTyped
    <2>1. CASE version = <<>> /\ current = [r \in Resource |-> 0]
      BY <1>1, <2>1 DEF VersionsTyped
    <2>2. ASSUME NEW r \in Resource, version = <<r>>,
                 current = [s \in Resource |-> IF s = r THEN 1 ELSE 0]
          PROVE  VersionsTyped
      <3>1. version \in Seq(Resource) /\ DOMAIN version = {1} /\ version[1] = r
        BY <2>2
      <3> QED
        BY <1>1, <2>2, <3>1 DEF VersionsTyped
    <2> QED
      BY <2>1, <2>2 DEF Init
  <1>4. ParsesTyped
    BY DEF Init, ParsesTyped
  <1>5. ClaimsTyped
    BY <1>1, <1>2, RowBounds DEF Init, ClaimsTyped
  <1>6. WorkTyped
    BY DEF Init, WorkTyped, Work, Idle
  <1> QED
    BY <1>3, <1>4, <1>5, <1>6 DEF Typed
-----------------------------------------------------------------------------
(***************************************************************************)
(* What each table's writers leave of the types.                           *)
(***************************************************************************)
\* References survive when rows are only added.
LEMMA CourseKept ==
  ASSUME Typed, Grows
  PROVE  /\ \A q \in DOMAIN parse : /\ CourseOfParse(q)' = CourseOfParse(q)
                                    /\ CourseOfParse(q) \in Course
                                    /\ Usable(q)' = Usable(q)
         /\ \A x \in DOMAIN extraction : /\ VersionOf(x)' = VersionOf(x)
                                         /\ CourseOfExtraction(x)' = CourseOfExtraction(x)
                                         /\ CourseOfExtraction(x) \in Course
  <1>1. ASSUME NEW q \in DOMAIN parse
        PROVE  /\ CourseOfParse(q)' = CourseOfParse(q) /\ CourseOfParse(q) \in Course
               /\ Usable(q)' = Usable(q)
    <2>1. parse[q].version \in DOMAIN version /\ version \in Seq(Resource)
      BY DEF Typed, ParsesTyped, VersionsTyped
    <2>2. version[parse[q].version] \in Resource
      BY <2>1
    <2> QED
      BY <2>1, <2>2, Tables DEF Grows, CourseOfParse, Usable
  <1>2. \A x \in DOMAIN extraction : extraction[x].parse \in DOMAIN parse
    BY DEF Typed, ClaimsTyped
  <1>3. ASSUME NEW x \in DOMAIN extraction
        PROVE  /\ VersionOf(x)' = VersionOf(x)
               /\ CourseOfExtraction(x)' = CourseOfExtraction(x)
               /\ CourseOfExtraction(x) \in Course
    BY <1>1, <1>2 DEF Grows, VersionOf, CourseOfExtraction
  <1> QED
    BY <1>1, <1>3

LEMMA VersionsKept ==
  ASSUME Typed, UNCHANGED <<title, version, current>>
  PROVE  VersionsTyped'
  BY DEF Typed, VersionsTyped

LEMMA ParsesKept ==
  ASSUME Typed, Grows, UNCHANGED <<parse, rendered, note>>
  PROVE  ParsesTyped'
  BY DEF Typed, ParsesTyped, Grows, Usable

LEMMA ClaimsKept ==
  ASSUME Typed, Grows, UNCHANGED <<extraction, claim, shown>>
  PROVE  ClaimsTyped'
  BY CourseKept DEF Typed, ClaimsTyped, Grows

LEMMA WorkKept ==
  ASSUME Typed, Grows, UNCHANGED worker
  PROVE  WorkTyped'
  BY DEF Typed, WorkTyped, Grows

\* Process p goes on to work w.
LEMMA WorkBecomes ==
  ASSUME Typed, Grows, NEW p \in Process, NEW w \in Work, worker' = [worker EXCEPT ![p] = w],
         w.step = "parsing" => w.version \in DOMAIN version',
         w.step \in {"extract", "reconcile", "rebuild"} =>
           w.note \in DOMAIN note' /\ note'[w.note].parse = w.parse
  PROVE  WorkTyped'
  BY DEF Typed, WorkTyped, Grows

LEMMA IdleWork == Idle \in Work /\ Idle.step = "idle"
  BY DEF Idle, Work

\* The fields of a unit of work.
LEMMA WorkFields ==
  ASSUME NEW w \in Work
  PROVE  /\ w.step = "parsing" => w.version \in Nat /\ w.contract \in Contract
         /\ w.step \in {"extract", "reconcile", "rebuild"} =>
              /\ w.parse \in Nat /\ w.note \in Nat
              /\ \A f \in {"extract", "reconcile", "rebuild"} :
                   LET n == [w EXCEPT !.step = f] IN
                   n \in Work /\ n.step = f /\ n.parse = w.parse /\ n.note = w.note
  BY DEF Work, Idle

\* Later descriptions exist: of the descriptions of a parse one is the last.
LEMMA LeastNatural ==
  ASSUME NEW T \in SUBSET Nat, T # {}
  PROVE  \E m \in T : \A n \in T : m <= n
  <1>1. PICK m \in T : \A n \in T : ~(<<n, m>> \in OpToRel(<, Nat))
    <2> DEFINE R == OpToRel(<, Nat)
    <2>1. IsWellFoundedOn(R, Nat)
      BY NatLessThanWellFounded
    <2> HIDE DEF R
    <2>2. \E m \in T : \A n \in T : ~(<<n, m>> \in R)
      BY <2>1, WFMin
    <2> QED
      BY <2>2 DEF R
  <1>2. ASSUME NEW n \in T PROVE m <= n
    <2>1. <<n, m>> \in Nat \X Nat /\ <<n, m>>[1] = n /\ <<n, m>>[2] = m
      OBVIOUS
    <2>2. ~(n < m)
      BY <1>1, <2>1 DEF OpToRel
    <2> QED
      BY <2>2
  <1> QED
    BY <1>2

LEMMA LastExists ==
  ASSUME NEW n \in Nat, NEW S \in SUBSET (1..n), S # {}
  PROVE  \E m \in S : \A o \in S : o <= m
  <1> DEFINE Above == {m \in Nat : \A o \in S : o <= m}
  <1>1. n \in Above
    OBVIOUS
  <1>2. PICK m \in Above : \A o \in Above : m <= o
    <2> HIDE DEF Above
    <2> QED
      BY <1>1, LeastNatural DEF Above
  <1>3. m \in S
    <2> SUFFICES ASSUME m \notin S PROVE FALSE
      OBVIOUS
    <2>1. \A o \in S : o \in Nat /\ o # 0 /\ o <= m /\ o # m
      BY <1>2
    <2>2. m \in Nat /\ m # 0
      <3>1. PICK o \in S : TRUE
        OBVIOUS
      <3>2. m \in Nat
        BY <1>2
      <3> QED
        BY <2>1, <3>1, <3>2
    <2>3. m - 1 \in Above
      BY <2>1, <2>2
    <2> HIDE DEF Above
    <2> QED
      BY <1>2, <2>2, <2>3
  <1> QED
    BY <1>2, <1>3

\* The current description is the last one of the parse.
LEMMA CurrentNoteIsLast ==
  ASSUME ParsesTyped, NEW q
  PROVE  /\ CurrentNote(q) \in Nat
         /\ NotesOf(q) # {} => CurrentNote(q) \in NotesOf(q)
         /\ \A n \in NotesOf(q) : n \in Nat /\ n <= CurrentNote(q)
  <1>1. Len(note) \in Nat /\ NotesOf(q) \in SUBSET (1..Len(note))
    BY DEF ParsesTyped, NotesOf
  <1>2. CASE NotesOf(q) = {}
    BY <1>2 DEF CurrentNote
  <1>3. CASE NotesOf(q) # {}
    <2>1. \E m \in NotesOf(q) : \A o \in NotesOf(q) : o <= m
      BY <1>1, <1>3, LastExists
    <2>2. CurrentNote(q) \in NotesOf(q) /\ \A o \in NotesOf(q) : o <= CurrentNote(q)
      BY <1>3, <2>1 DEF CurrentNote
    <2> QED
      BY <1>1, <2>2
  <1> QED
    BY <1>2, <1>3
-----------------------------------------------------------------------------
LEMMA PutCourseTyped ==
  ASSUME Typed, NEW c \in Course, PutCourse(c)
  PROVE  Typed' /\ Grows
  <1>1. Grows
    BY DEF PutCourse, Grows
  <1>2. VersionsTyped'
    BY DEF PutCourse, Typed, VersionsTyped
  <1> QED
    BY <1>1, <1>2, ParsesKept, ClaimsKept, WorkKept DEF Typed, PutCourse

LEMMA StoreVersionTyped ==
  ASSUME Typed, NEW r \in Resource, StoreVersion(r)
  PROVE  Typed' /\ Grows
  <1>1. version \in Seq(Resource) /\ title \in [Course -> Nat] /\ current \in [Resource -> Nat]
    BY DEF Typed, VersionsTyped
  <1>2. CASE version' = Append(version, r) /\ current' \in {current, [current EXCEPT ![r] = Len(version) + 1]}
    <2>1. /\ version' \in Seq(Resource) /\ DOMAIN version' = DOMAIN version \cup {Len(version) + 1}
          /\ version'[Len(version) + 1] = r /\ Len(version) \in Nat
          /\ \A v \in DOMAIN version : version'[v] = version[v]
      BY <1>1, <1>2, Appended
    <2>2. Grows
      BY <2>1 DEF StoreVersion, Grows
    <2>3. VersionsTyped'
      <3>1. UNCHANGED title /\ current' \in [Resource -> Nat]
        BY <1>1, <1>2, <2>1 DEF StoreVersion
      <3>2. \A s \in Resource : current[s] # 0 =>
              current[s] \in DOMAIN version /\ version[current[s]] = s
        BY DEF Typed, VersionsTyped
      <3>3. \A s \in Resource : current'[s] = current[s] \/ (s = r /\ current'[s] = Len(version) + 1)
        BY <1>1, <1>2
      <3>4. \A s \in Resource : current'[s] # 0 =>
              current'[s] \in DOMAIN version' /\ version'[current'[s]] = s
        BY <2>1, <3>2, <3>3
      <3> QED
        BY <1>1, <2>1, <3>1, <3>4 DEF VersionsTyped
    <2> QED
      BY <2>2, <2>3, ParsesKept, ClaimsKept, WorkKept DEF Typed, StoreVersion
  <1>3. CASE version' = version /\ \E v \in DOMAIN version :
               version[v] = r /\ current[r] # v /\ current' = [current EXCEPT ![r] = v]
    <2>1. Grows
      BY <1>3 DEF StoreVersion, Grows
    <2>2. VersionsTyped'
      BY <1>1, <1>3 DEF StoreVersion, Typed, VersionsTyped
    <2> QED
      BY <2>1, <2>2, ParsesKept, ClaimsKept, WorkKept DEF Typed, StoreVersion
  <1> QED
    BY <1>2, <1>3 DEF StoreVersion

LEMMA StoreTerminalTyped ==
  ASSUME Typed, NEW p \in Process, StoreTerminal(p)
  PROVE  Typed' /\ Grows
  <1> DEFINE w == worker[p]
  <1>1. /\ w \in Work /\ w.step = "parsing" /\ w.version \in DOMAIN version
        /\ w.contract \in Contract /\ w.version \in Nat
    BY WorkFields DEF StoreTerminal, Typed, WorkTyped
  <1>2. Grows /\ ParsesTyped'
    <2>1. CASE parse' = parse
      <3>1. Grows
        BY <2>1 DEF StoreTerminal, Grows
      <3> QED
        BY <2>1, <3>1, ParsesKept DEF StoreTerminal
    <2>2. ASSUME NEW status \in Outcome[w.contract],
                 parse' = Append(parse, [version |-> w.version, contract |-> w.contract,
                                         status |-> status])
          PROVE  Grows /\ ParsesTyped'
      <3> DEFINE row == [version |-> w.version, contract |-> w.contract, status |-> status]
      <3>1. row \in ParseRow /\ row.version \in DOMAIN version
        BY <1>1, <2>2, Tables DEF ParseRow, Status
      <3> HIDE DEF row
      <3>2. /\ parse \in Seq(ParseRow) /\ parse' = Append(parse, row)
            /\ rendered \subseteq DOMAIN parse
        BY <2>2 DEF row, Typed, ParsesTyped
      <3>3. /\ parse' \in Seq(ParseRow) /\ DOMAIN parse' = DOMAIN parse \cup {Len(parse) + 1}
            /\ parse'[Len(parse) + 1] = row
            /\ \A q \in DOMAIN parse : parse'[q] = parse[q]
        BY <3>1, <3>2, Appended
      <3>4. Grows
        BY <3>3 DEF StoreTerminal, Grows
      <3>5. /\ \A q \in DOMAIN parse' : parse'[q].version \in DOMAIN version
            /\ \A q \in rendered : q \in DOMAIN parse' /\ (Usable(q)' <=> Usable(q))
        BY <3>1, <3>2, <3>3 DEF Typed, ParsesTyped, Usable
      <3> QED
        BY <3>3, <3>4, <3>5 DEF StoreTerminal, Typed, ParsesTyped
    <2> QED
      BY <2>1, <2>2 DEF StoreTerminal
  <1>3. VersionsTyped' /\ ClaimsTyped'
    BY <1>2, VersionsKept, ClaimsKept DEF StoreTerminal
  <1>4. WorkTyped'
    <2>1. worker' = [worker EXCEPT ![p] = Idle]
      BY DEF StoreTerminal
    <2> QED
      BY <1>2, <2>1, IdleWork, WorkBecomes
  <1> QED
    BY <1>2, <1>3, <1>4 DEF Typed

LEMMA PrepareTyped ==
  ASSUME Typed, NEW q \in DOMAIN parse, Prepare(q)
  PROVE  Typed' /\ Grows
  <1>1. UNCHANGED rows /\ UNCHANGED worker /\ rendered' = rendered \cup {q} /\ Usable(q)
    BY DEF Prepare
  <1>2. Grows
    BY <1>1 DEF Grows, rows
  <1>3. ParsesTyped'
    BY <1>1 DEF Typed, ParsesTyped, Usable, rows
  <1> QED
    BY <1>1, <1>2, <1>3, VersionsKept, ClaimsKept, WorkKept DEF Typed, rows

\* An extraction more, which has no claim yet.
LEMMA ExtractTyped ==
  ASSUME Typed, NEW q \in DOMAIN parse, ExtractVersion(q)
  PROVE  /\ VersionsTyped' /\ ParsesTyped' /\ ClaimsTyped' /\ Grows
         /\ \E x \in DOMAIN extraction' :
              extraction'[x].parse = q /\ extraction'[x].note = CurrentNote(q)
         /\ UNCHANGED <<title, version, current, parse, note, claim, shown, rendered, reconciled>>
  <1>1. UNCHANGED <<title, version, current, parse, note, claim, shown, rendered, reconciled>>
    BY DEF ExtractVersion
  <1>2. CASE extraction' = extraction
    <2>1. Grows
      BY <1>1, <1>2 DEF Grows
    <2>2. \E x \in DOMAIN extraction :
            InputHash(extraction[x].parse, extraction[x].note) = InputHash(q, CurrentNote(q))
      <3>1. extraction \in Seq(ExtractionRow)
        BY DEF Typed, ClaimsTyped
      <3>2. \A row : extraction # Append(extraction, row)
        BY <3>1
      <3> QED
        BY <1>2, <3>2 DEF ExtractVersion
    <2>3. \E x \in DOMAIN extraction :
            extraction[x].parse = q /\ extraction[x].note = CurrentNote(q)
      BY <2>2 DEF InputHash
    <2> QED
      BY <1>1, <1>2, <2>1, <2>3, VersionsKept, ParsesKept, ClaimsKept
  <1>3. ASSUME NEW drew \in BOOLEAN, Len(extraction) < MaxExtraction,
               extraction' = Append(extraction, [parse |-> q, note |-> CurrentNote(q), drew |-> drew])
        PROVE  /\ Grows /\ ClaimsTyped'
               /\ \E x \in DOMAIN extraction' :
                    extraction'[x].parse = q /\ extraction'[x].note = CurrentNote(q)
    <2> DEFINE row == [parse |-> q, note |-> CurrentNote(q), drew |-> drew]
               last == Len(extraction) + 1
    <2>1. row \in ExtractionRow /\ row.parse = q /\ row.note = CurrentNote(q)
      <3>1. q \in Nat /\ CurrentNote(q) \in Nat
        BY CurrentNoteIsLast DEF Typed, ParsesTyped
      <3> QED
        BY <3>1 DEF ExtractionRow
    <2> HIDE DEF row
    <2>2. extraction \in Seq(ExtractionRow) /\ extraction' = Append(extraction, row)
      BY <1>3 DEF row, Typed, ClaimsTyped
    <2>3. /\ extraction' \in Seq(ExtractionRow) /\ Len(extraction') = last
          /\ DOMAIN extraction' = DOMAIN extraction \cup {last} /\ last \notin DOMAIN extraction
          /\ extraction'[last] = row /\ Len(extraction) \in Nat
          /\ \A x \in DOMAIN extraction : extraction'[x] = extraction[x]
      BY <2>1, <2>2, Appended
    <2>4. Grows
      BY <1>1, <2>3 DEF Grows
    <2>5. \A x \in DOMAIN extraction' :
            extraction'[x].parse \in DOMAIN parse /\ parse[extraction'[x].parse].status # "FAILED"
      BY <2>1, <2>3 DEF Typed, ClaimsTyped, ExtractVersion, Extractable
    <2>6. Len(extraction') <= MaxExtraction
      BY <1>3, <2>3, RowBounds
    <2>7. \A x \in 1..MaxExtraction : claim[x] # "NONE" => x \in DOMAIN extraction' /\ extraction'[x].drew
      BY <2>3 DEF Typed, ClaimsTyped
    <2>8. \A c \in Course : shown[c] # 0 =>
            /\ shown[c] \in DOMAIN extraction'
            /\ CourseOfExtraction(shown[c])' = c /\ claim[shown[c]] = "BOUND"
      BY <1>1, <2>3, <2>4, CourseKept DEF Typed, ClaimsTyped
    <2>9. ClaimsTyped'
      <3>1. claim \in [1..MaxExtraction -> ClaimState] /\ shown \in [Course -> Nat]
        BY DEF Typed, ClaimsTyped
      <3> QED
        BY <1>1, <2>3, <2>5, <2>6, <2>7, <2>8, <3>1 DEF ClaimsTyped
    <2> QED
      BY <2>1, <2>3, <2>4, <2>9
  <1> QED
    <2>1. CASE extraction' # extraction
      BY <1>1, <1>3, <2>1, VersionsKept, ParsesKept DEF ExtractVersion
    <2> QED
      BY <1>2, <2>1

\* What a reconciliation makes of the claims of its course.
LEMMA ReconcileClaims ==
  ASSUME Typed, NEW c \in Course, NewRun(c),
         UNCHANGED <<title, version, current, parse, note, extraction, rendered>>
  PROVE  /\ claim' \in [1..MaxExtraction -> ClaimState] /\ shown' \in [Course -> Nat]
         /\ \A x \in 1..MaxExtraction :
              /\ claim[x] # "NONE" => claim'[x] # "NONE"
              /\ claim'[x] # claim[x] => /\ x \in DOMAIN extraction
                                         /\ CourseOfExtraction(x) = c /\ extraction[x].drew
         /\ \A d \in Course : d # c => shown'[d] = shown[d]
         /\ shown'[c] # 0 => /\ shown'[c] \in DOMAIN extraction
                             /\ CourseOfExtraction(shown'[c]) = c /\ claim'[shown'[c]] = "BOUND"
         /\ \A x \in EffectiveIn(c) : extraction[x].drew => claim'[x] # "NONE"
         /\ reconciled' = [reconciled EXCEPT ![c] = EffectiveIn(c)]
  <1> DEFINE eff == EffectiveIn(c)
             bound == {x \in DOMAIN extraction :
                         CourseOfExtraction(x) = c /\ claim[x] \in {"BOUND", "REJECTED"}}
             open == {x \in eff \ bound : extraction[x].drew}
  <1>1. PICK joined \in SUBSET open :
          /\ claim' = [x \in 1..MaxExtraction |->
                IF x \in bound \cup joined THEN (IF x \in eff THEN "BOUND" ELSE "REJECTED")
                ELSE IF x \in open THEN "UNRESOLVED" ELSE claim[x]]
          /\ shown' = [shown EXCEPT ![c] =
                IF (bound \cup joined) \cap eff = {} THEN 0
                ELSE CHOOSE x \in (bound \cup joined) \cap eff : TRUE]
    BY DEF NewRun
  <1>2. /\ extraction \in Seq(ExtractionRow) /\ Len(extraction) <= MaxExtraction
        /\ claim \in [1..MaxExtraction -> ClaimState] /\ shown \in [Course -> Nat]
        /\ \A x \in 1..MaxExtraction : claim[x] # "NONE" => x \in DOMAIN extraction /\ extraction[x].drew
    BY DEF Typed, ClaimsTyped
  <1>3. DOMAIN extraction \subseteq 1..MaxExtraction /\ DOMAIN extraction \subseteq Nat \ {0}
    BY <1>2, RowBounds
  <1>4. \A x \in eff : x \in DOMAIN extraction /\ CourseOfExtraction(x) = c
    BY DEF EffectiveIn
  <1>5. \A x \in bound : /\ x \in DOMAIN extraction /\ CourseOfExtraction(x) = c
                         /\ x \in 1..MaxExtraction /\ extraction[x].drew
    BY <1>2, <1>3
  <1>6. \A x \in open : x \in eff /\ extraction[x].drew
    OBVIOUS
  <1>6b. \A x \in eff : extraction[x].drew => x \in bound \/ x \in open
    OBVIOUS
  <1>6c. reconciled' = [reconciled EXCEPT ![c] = eff]
    BY DEF NewRun
  <1> HIDE DEF bound, open, eff
  <1>7. claim' \in [1..MaxExtraction -> ClaimState]
    BY <1>1, <1>2 DEF ClaimState
  <1>8. ASSUME NEW x \in 1..MaxExtraction
        PROVE  /\ claim[x] # "NONE" => claim'[x] # "NONE"
               /\ claim'[x] # claim[x] => /\ x \in DOMAIN extraction
                                          /\ CourseOfExtraction(x) = c /\ extraction[x].drew
    BY <1>1, <1>4, <1>5, <1>6
  <1>9. CASE (bound \cup joined) \cap eff = {}
    <2>1. shown' = [shown EXCEPT ![c] = 0]
      BY <1>1, <1>9
    <2>2. shown' \in [Course -> Nat] /\ shown'[c] = 0 /\ \A d \in Course : d # c => shown'[d] = shown[d]
      BY <1>2, <2>1
    <2>3. \A x \in eff : extraction[x].drew => claim'[x] # "NONE"
      BY <1>1, <1>3, <1>4, <1>6b
    <2> QED
      BY <1>6c, <1>7, <1>8, <2>2, <2>3 DEF eff
  <1>10. CASE (bound \cup joined) \cap eff # {}
    <2>1. PICK x \in (bound \cup joined) \cap eff : shown' = [shown EXCEPT ![c] = x]
      BY <1>1, <1>10
    <2>2. x \in DOMAIN extraction /\ CourseOfExtraction(x) = c /\ x \in Nat /\ x \in 1..MaxExtraction
      BY <1>3, <1>4, <2>1
    <2>3. claim'[x] = "BOUND"
      BY <1>1, <2>1, <2>2
    <2>4. shown' \in [Course -> Nat] /\ shown'[c] = x /\ \A d \in Course : d # c => shown'[d] = shown[d]
      BY <1>2, <2>1, <2>2
    <2>5. \A y \in eff : extraction[y].drew => claim'[y] # "NONE"
      BY <1>1, <1>3, <1>4, <1>6b
    <2> QED
      BY <1>6c, <1>7, <1>8, <2>2, <2>3, <2>4, <2>5 DEF eff
  <1> QED
    BY <1>9, <1>10

LEMMA ReconcileTyped ==
  ASSUME Typed, NEW c \in Course, ReconcileCourse(c)
  PROVE  VersionsTyped' /\ ParsesTyped' /\ ClaimsTyped' /\ Grows
  <1>1. UNCHANGED <<title, version, current, parse, note, extraction, rendered>>
    BY DEF ReconcileCourse
  <1>2. Grows
    BY <1>1 DEF Grows
  <1>3. VersionsTyped' /\ ParsesTyped'
    BY <1>1, <1>2, VersionsKept, ParsesKept
  <1>4. CASE UNCHANGED <<claim, shown>>
    BY <1>1, <1>2, <1>3, <1>4, ClaimsKept
  <1>5. CASE NewRun(c)
    <2>1. \A x \in DOMAIN extraction : CourseOfExtraction(x)' = CourseOfExtraction(x)
      BY <1>2, CourseKept
    <2>2. /\ extraction \in Seq(ExtractionRow) /\ Len(extraction) <= MaxExtraction
          /\ \A x \in DOMAIN extraction :
               extraction[x].parse \in DOMAIN parse /\ parse[extraction[x].parse].status # "FAILED"
          /\ \A x \in 1..MaxExtraction : claim[x] # "NONE" => x \in DOMAIN extraction /\ extraction[x].drew
          /\ \A d \in Course : shown[d] # 0 =>
               /\ shown[d] \in DOMAIN extraction
               /\ CourseOfExtraction(shown[d]) = d /\ claim[shown[d]] = "BOUND"
      BY DEF Typed, ClaimsTyped
    <2>3. DOMAIN extraction \subseteq 1..MaxExtraction
      BY <2>2, RowBounds
    <2>4. /\ claim' \in [1..MaxExtraction -> ClaimState] /\ shown' \in [Course -> Nat]
          /\ \A x \in 1..MaxExtraction :
               claim'[x] # claim[x] => /\ x \in DOMAIN extraction
                                       /\ CourseOfExtraction(x) = c /\ extraction[x].drew
          /\ \A d \in Course : d # c => shown'[d] = shown[d]
          /\ shown'[c] # 0 => /\ shown'[c] \in DOMAIN extraction
                              /\ CourseOfExtraction(shown'[c]) = c /\ claim'[shown'[c]] = "BOUND"
      BY <1>1, <1>5, ReconcileClaims
    <2>5. \A x \in 1..MaxExtraction : claim'[x] # "NONE" => x \in DOMAIN extraction /\ extraction[x].drew
      BY <2>2, <2>4
    <2>6. ASSUME NEW d \in Course, shown'[d] # 0
          PROVE  /\ shown'[d] \in DOMAIN extraction
                 /\ CourseOfExtraction(shown'[d]) = d /\ claim'[shown'[d]] = "BOUND"
      <3>1. CASE d = c
        BY <2>4, <2>6, <3>1
      <3>2. CASE d # c
        <4>1. /\ shown'[d] = shown[d] /\ shown[d] \in DOMAIN extraction
              /\ CourseOfExtraction(shown[d]) = d /\ claim[shown[d]] = "BOUND"
          BY <2>2, <2>4, <2>6, <3>2
        <4> QED
          BY <2>3, <2>4, <3>2, <4>1
      <3> QED
        BY <3>1, <3>2
    <2>7. \A d \in Course : shown'[d] # 0 =>
            /\ shown'[d] \in DOMAIN extraction
            /\ CourseOfExtraction(shown[d])' = d /\ claim'[shown'[d]] = "BOUND"
      BY <1>1, <2>6 DEF CourseOfExtraction, CourseOfParse
    <2>8. ClaimsTyped'
      BY <1>1, <2>2, <2>4, <2>5, <2>7 DEF ClaimsTyped
    <2> QED
      BY <1>2, <1>3, <2>8
  <1> QED
    BY <1>4, <1>5 DEF ReconcileCourse

\* The description of a rendered page, stored or found.
LEMMA BundleNotes ==
  ASSUME Typed, NEW p \in Process, NEW q \in DOMAIN parse, NEW t \in Text, ImportBundle(p, q, t)
  PROVE  /\ note' \in Seq(NoteRow)
         /\ \A n \in DOMAIN note : n \in DOMAIN note' /\ note'[n] = note[n]
         /\ \A n \in DOMAIN note' : n \in DOMAIN note \/ note'[n].parse = q
         /\ \E n \in DOMAIN note' :
              note'[n].parse = q /\ worker' = [worker EXCEPT ![p] = Importing(q, n)]
  <1> DEFINE row == [parse |-> q, text |-> t]
  <1>1. note \in Seq(NoteRow) /\ q \in Nat
    BY DEF Typed, ParsesTyped
  <1>2. row \in NoteRow /\ row.parse = q
    BY <1>1 DEF NoteRow
  <1>3. /\ note' = IF \E n \in DOMAIN note : note[n] = row THEN note ELSE Append(note, row)
        /\ worker' = [worker EXCEPT ![p] =
             Importing(q, CHOOSE n \in DOMAIN note' : note'[n] = row)]
    BY DEF ImportBundle, Described
  <1> HIDE DEF row
  <1>4. /\ note' \in Seq(NoteRow)
        /\ \A n \in DOMAIN note : n \in DOMAIN note' /\ note'[n] = note[n]
        /\ \A n \in DOMAIN note' : n \in DOMAIN note \/ note'[n] = row
        /\ \E n \in DOMAIN note' : note'[n] = row
    <2>1. CASE \E n \in DOMAIN note : note[n] = row
      BY <1>1, <1>3, <2>1
    <2>2. CASE ~\E n \in DOMAIN note : note[n] = row
      <3>1. note' = Append(note, row)
        BY <1>3, <2>2
      <3> QED
        BY <1>1, <1>2, <3>1, Appended
    <2> QED
      BY <2>1, <2>2
  <1>5. PICK n \in DOMAIN note' : note'[n] = row /\ worker' = [worker EXCEPT ![p] = Importing(q, n)]
    BY <1>3, <1>4
  <1> QED
    BY <1>2, <1>4, <1>5

LEMMA BundleTyped ==
  ASSUME Typed, NEW p \in Process, NEW q \in DOMAIN parse, NEW t \in Text, ImportBundle(p, q, t)
  PROVE  Typed' /\ Grows
  <1>1. /\ UNCHANGED <<title, version, current, parse, extraction, claim, shown, rendered>>
        /\ q \in rendered
    BY DEF ImportBundle
  <1>2. /\ note' \in Seq(NoteRow)
        /\ \A n \in DOMAIN note : n \in DOMAIN note' /\ note'[n] = note[n]
        /\ \A n \in DOMAIN note' : n \in DOMAIN note \/ note'[n].parse = q
    BY BundleNotes
  <1>3. Grows
    BY <1>1, <1>2 DEF Grows
  <1>4. ParsesTyped'
    BY <1>1, <1>2 DEF Typed, ParsesTyped, Usable
  <1>5. WorkTyped'
    <2>1. PICK n \in DOMAIN note' :
            note'[n].parse = q /\ worker' = [worker EXCEPT ![p] = Importing(q, n)]
      BY BundleNotes
    <2>2. n \in Nat /\ q \in Nat
      BY <1>2 DEF Typed, ParsesTyped
    <2>3. /\ Importing(q, n) \in Work /\ Importing(q, n).step = "extract"
          /\ Importing(q, n).parse = q /\ Importing(q, n).note = n
      BY <2>2 DEF Importing, Work
    <2> QED
      BY <1>3, <2>1, <2>3, WorkBecomes
  <1> QED
    BY <1>1, <1>3, <1>4, <1>5, VersionsKept, ClaimsKept DEF Typed

\* An import goes on to its next step.
LEMMA ImportGoesOn ==
  ASSUME Typed, Grows, NEW p \in Process, NEW f \in {"extract", "reconcile", "rebuild"},
         worker[p].step \in {"extract", "reconcile", "rebuild"},
         worker' = [worker EXCEPT ![p].step = f]
  PROVE  /\ WorkTyped'
         /\ worker'[p].step = f /\ worker'[p].parse = worker[p].parse
         /\ worker'[p].note = worker[p].note /\ \A o \in Process : o # p => worker'[o] = worker[o]
  <1> DEFINE w == worker[p]
             n == [w EXCEPT !.step = f]
  <1>1. w \in Work /\ w.note \in DOMAIN note /\ note[w.note].parse = w.parse
    BY DEF Typed, WorkTyped
  <1>2. n \in Work /\ n.step = f /\ n.parse = w.parse /\ n.note = w.note
    BY <1>1, WorkFields
  <1>3. worker' = [worker EXCEPT ![p] = n]
    OBVIOUS
  <1> HIDE DEF n
  <1>4. n.note \in DOMAIN note' /\ note'[n.note].parse = n.parse
    BY <1>1, <1>2 DEF Grows
  <1>5. WorkTyped'
    BY <1>2, <1>3, <1>4, WorkBecomes
  <1>6. worker'[p] = n /\ \A o \in Process : o # p => worker'[o] = worker[o]
    BY <1>3 DEF Typed, WorkTyped
  <1> QED
    BY <1>2, <1>5, <1>6

\* The parse an import is about exists.
LEMMA ImportParse ==
  ASSUME Typed, NEW p \in Process, worker[p].step \in {"extract", "reconcile", "rebuild"}
  PROVE  worker[p].parse \in DOMAIN parse /\ CourseOfParse(worker[p].parse) \in Course
  <1>1. worker[p].parse \in DOMAIN parse
    BY DEF Typed, WorkTyped, ParsesTyped
  <1>2. parse[worker[p].parse].version \in DOMAIN version /\ version \in Seq(Resource)
    BY <1>1 DEF Typed, ParsesTyped, VersionsTyped
  <1>3. version[parse[worker[p].parse].version] \in Resource
    BY <1>2
  <1> QED
    BY <1>1, <1>3, Tables DEF CourseOfParse

LEMMA TypedStep ==
  ASSUME Typed, [Next]_vars
  PROVE  Typed' /\ Grows
  <1>1. ASSUME UNCHANGED rows, UNCHANGED rendered PROVE Grows /\ VersionsTyped' /\ ParsesTyped' /\ ClaimsTyped'
    <2>1. Grows
      BY <1>1 DEF rows, Grows
    <2> QED
      BY <1>1, <2>1, VersionsKept, ParsesKept, ClaimsKept DEF rows
  <1>2. CASE UNCHANGED vars \/ IndexJob
    <2>1. UNCHANGED rows /\ UNCHANGED rendered /\ UNCHANGED worker
      BY <1>2 DEF vars, IndexJob
    <2> QED
      BY <1>1, <2>1, WorkKept DEF Typed
  <1>3. ASSUME NEW c \in Course, ReconcileJob(c) PROVE Typed' /\ Grows
    BY <1>3, ReconcileTyped, WorkKept DEF ReconcileJob, Typed
  <1>4. ASSUME NEW q \in DOMAIN parse, ExtractJob(q) PROVE Typed' /\ Grows
    BY <1>4, ExtractTyped, WorkKept DEF ExtractJob, Typed
  <1>5. ASSUME NEW p \in Process, NEW v \in DOMAIN version, NEW c \in Contract, ParseVersion(p, v, c)
        PROVE  Typed' /\ Grows
    <2> DEFINE w == [step |-> "parsing", version |-> v, contract |-> c]
    <2>1. UNCHANGED rows /\ UNCHANGED rendered /\ worker' = [worker EXCEPT ![p] = w]
      BY <1>5 DEF ParseVersion
    <2>2. v \in Nat
      BY DEF Typed, VersionsTyped
    <2>3. w \in Work /\ w.step = "parsing" /\ w.version \in DOMAIN version
      BY <2>2 DEF Work
    <2> HIDE DEF w
    <2> QED
      BY <1>1, <2>1, <2>3, WorkBecomes DEF Typed, rows
  <1>6. ASSUME NEW p \in Process, ImportExtract(p) PROVE Typed' /\ Grows
    <2>1. /\ worker[p].step = "extract" /\ ExtractVersion(worker[p].parse)
          /\ worker' = [worker EXCEPT ![p].step = "reconcile"]
      BY <1>6 DEF ImportExtract
    <2> QED
      BY <2>1, ImportParse, ExtractTyped, ImportGoesOn DEF Typed
  <1>7. ASSUME NEW p \in Process, ImportReconcile(p) PROVE Typed' /\ Grows
    <2>1. /\ worker[p].step = "reconcile" /\ ReconcileCourse(CourseOfParse(worker[p].parse))
          /\ worker' = [worker EXCEPT ![p].step = "rebuild"]
      BY <1>7 DEF ImportReconcile
    <2> QED
      BY <2>1, ImportParse, ReconcileTyped, ImportGoesOn DEF Typed
  <1>8. ASSUME NEW p \in Process, ImportRebuild(p) \/ GiveUp(p) PROVE Typed' /\ Grows
    <2>1. UNCHANGED rows /\ UNCHANGED rendered /\ worker' = [worker EXCEPT ![p] = Idle]
      BY <1>8 DEF ImportRebuild, GiveUp
    <2> QED
      BY <1>1, <2>1, IdleWork, WorkBecomes DEF Typed
  <1> QED
    BY <1>2, <1>3, <1>4, <1>5, <1>6, <1>7, <1>8, PutCourseTyped, StoreVersionTyped,
       StoreTerminalTyped, PrepareTyped, BundleTyped DEF Next

LEMMA TypedAlways == Spec => []Typed
  <1>1. Typed /\ [Next]_vars => Typed'
    BY TypedStep
  <1> QED
    BY <1>1, TypedInit, PTL DEF Spec

\* Rows refer to rows that exist, and an event shows a bound claim.
THEOREM IndexTypeOK == Spec => []TypeOK
  <1>1. Typed => TypeOK
    BY RowBounds DEF Typed, VersionsTyped, ParsesTyped, ClaimsTyped, TypeOK
  <1> QED
    BY <1>1, TypedAlways, PTL
-----------------------------------------------------------------------------
(***************************************************************************)
(* The index.  What a transaction does not mark for the index is projected *)
(* as before, but for claims that a new extraction retires.                *)
(***************************************************************************)
\* No row that the documents of courses outside A are made of changes, but for
\* new extractions.
Keeps(A) ==
  /\ Grows
  /\ \A c \in Course \ A : title'[c] = title[c] /\ shown'[c] = shown[c]
  /\ \A r \in Resource : CourseOf[r] \notin A => current'[r] = current[r]
  /\ \A q \in DOMAIN parse' : CourseOfParse(q)' \notin A =>
       /\ q \in DOMAIN parse
       /\ CurrentUsable(q)' <=> CurrentUsable(q)
       /\ CurrentNote(q)' = CurrentNote(q)
  /\ \A x \in DOMAIN extraction' :
       CourseOfExtraction(x)' \notin A /\ claim'[x] # "NONE" => x \in DOMAIN extraction
  /\ \A x \in DOMAIN extraction : CourseOfExtraction(x) \notin A => claim'[x] = claim[x]

\* An extraction that is no longer in effect never is again.
LEMMA EffectiveOnce ==
  ASSUME Typed, Grows, NEW x \in DOMAIN extraction, Effective(x)'
  PROVE  Effective(x)
  BY CourseKept DEF Effective, Grows

\* What a document tells of itself.
LEMMA DocumentFields ==
  ASSUME NEW kind, NEW c, NEW id, NEW body
  PROVE  /\ Document(kind, c, id, body).kind = kind /\ Document(kind, c, id, body).course = c
         /\ Document(kind, c, id, body).id = id /\ Document(kind, c, id, body).body = body
  BY DEF Document

\* A document changes only with the title of its course.
LEMMA DocumentKept ==
  ASSUME NEW A, Keeps(A), NEW kind, NEW c \in Course, c \notin A, NEW id, NEW body
  PROVE  Document(kind, c, id, body)' = Document(kind, c, id, body)
  BY DEF Keeps, Document

\* The documents of each kind, outside the courses marked.
LEMMA MetadataKept ==
  ASSUME NEW A, Keeps(A)
  PROVE  \A d : d.course \notin A => (d \in Metadata' <=> d \in Metadata)
  <1>1. ASSUME NEW c \in Course, c \notin A
        PROVE  Document("course", c, c, 0)' = Document("course", c, c, 0)
    BY <1>1, DocumentKept
  <1>2. \A c : /\ Document("course", c, c, 0).course = c
               /\ Document("course", c, c, 0)'.course = c
    BY DEF Document
  <1> QED
    BY <1>1, <1>2 DEF Metadata

LEMMA MaterialsKept ==
  ASSUME NEW A, Keeps(A)
  PROVE  \A d : d.course \notin A => (d \in Materials' <=> d \in Materials)
  <1>1. ASSUME NEW r \in Resource, CourseOf[r] \notin A
        PROVE  /\ Document("material", CourseOf[r], r, current[r])'
                    = Document("material", CourseOf[r], r, current[r])
    <2>1. CourseOf[r] \in Course /\ current'[r] = current[r]
      BY <1>1, Tables DEF Keeps
    <2> QED
      BY <1>1, <2>1 DEF Keeps, Document
  <1>2. \A r : /\ Document("material", CourseOf[r], r, current[r]).course = CourseOf[r]
               /\ Document("material", CourseOf[r], r, current[r])'.course = CourseOf[r]
    BY DEF Document
  <1> QED
    BY <1>1, <1>2 DEF Materials

LEMMA EventsKept ==
  ASSUME NEW A, Keeps(A)
  PROVE  \A d : d.course \notin A => (d \in Events' <=> d \in Events)
  <1>1. ASSUME NEW c \in Course, c \notin A
        PROVE  /\ shown'[c] = shown[c]
               /\ Document("event", c, c, shown[c])' = Document("event", c, c, shown[c])
    BY <1>1 DEF Keeps, Document
  <1>2. \A c : /\ Document("event", c, c, shown[c]).course = c
               /\ Document("event", c, c, shown[c])'.course = c
    BY DEF Document
  <1> QED
    BY <1>1, <1>2 DEF Events

LEMMA ParseKept ==
  ASSUME Typed, NEW A, Keeps(A), NEW q
  PROVE  /\ q \in DOMAIN parse' /\ CourseOfParse(q)' \notin A =>
              q \in DOMAIN parse /\ CourseOfParse(q) \notin A
         /\ q \in DOMAIN parse /\ CourseOfParse(q) \notin A =>
              /\ q \in DOMAIN parse' /\ CourseOfParse(q)' = CourseOfParse(q)
              /\ CourseOfParse(q) \in Course /\ title'[CourseOfParse(q)] = title[CourseOfParse(q)]
              /\ parse'[q] = parse[q] /\ (CurrentUsable(q)' <=> CurrentUsable(q))
              /\ CurrentNote(q)' = CurrentNote(q)
  BY CourseKept DEF Keeps, Grows

LEMMA NativeKept ==
  ASSUME Typed, NEW A, Keeps(A)
  PROVE  \A d : d.course \notin A => (d \in NativeChunks' <=> d \in NativeChunks)
  <1> DEFINE D(q) == Document("native", CourseOfParse(q), q, parse[q].status)
  <1>1. ASSUME NEW q \in DOMAIN parse, CourseOfParse(q) \notin A
        PROVE  D(q)' = D(q)
    BY <1>1, ParseKept DEF Document
  <1>2. \A q : D(q).course = CourseOfParse(q) /\ D(q)'.course = CourseOfParse(q)'
    BY DEF Document
  <1>3. \A d : d \in NativeChunks <=> \E q \in DOMAIN parse : CurrentUsable(q) /\ d = D(q)
    BY DEF NativeChunks
  <1>4. \A d : d \in NativeChunks' <=> \E q \in DOMAIN parse' : CurrentUsable(q)' /\ d = D(q)'
    BY DEF NativeChunks
  <1> HIDE DEF D
  <1> QED
    BY <1>1, <1>2, <1>3, <1>4, ParseKept

LEMMA DerivedKept ==
  ASSUME Typed, NEW A, Keeps(A)
  PROVE  \A d : d.course \notin A => (d \in DerivedChunks' <=> d \in DerivedChunks)
  <1> DEFINE D(q) == Document("derived", CourseOfParse(q), q, CurrentNote(q))
  <1>1. ASSUME NEW q \in DOMAIN parse, CourseOfParse(q) \notin A
        PROVE  D(q)' = D(q)
    BY <1>1, ParseKept DEF Document
  <1>2. \A q : D(q).course = CourseOfParse(q) /\ D(q)'.course = CourseOfParse(q)'
    BY DEF Document
  <1>3. \A d : d \in DerivedChunks <=>
          \E q \in DOMAIN parse : CurrentUsable(q) /\ CurrentNote(q) # 0 /\ d = D(q)
    BY DEF DerivedChunks
  <1>4. \A d : d \in DerivedChunks' <=>
          \E q \in DOMAIN parse' : CurrentUsable(q)' /\ CurrentNote(q)' # 0 /\ d = D(q)'
    BY DEF DerivedChunks
  <1> HIDE DEF D
  <1> QED
    BY <1>1, <1>2, <1>3, <1>4, ParseKept

\* A claim document stays, or its extraction is retired.
LEMMA ClaimsStay ==
  ASSUME Typed, NEW A, Keeps(A)
  PROVE  \A d : d.course \notin A =>
           /\ d \in Claims' => d \in Claims
           /\ d \in Claims => d \in Claims' \/ (d.kind = "claim" /\ ~Effective(d.id)')
  <1> DEFINE D(x) == Document("claim", CourseOfExtraction(x), x, claim[x])
  <1>1. ASSUME NEW x \in DOMAIN extraction, CourseOfExtraction(x) \notin A
        PROVE  /\ D(x)' = D(x) /\ claim'[x] = claim[x] /\ x \in DOMAIN extraction'
    <2>1. /\ CourseOfExtraction(x)' = CourseOfExtraction(x) /\ CourseOfExtraction(x) \in Course
          /\ claim'[x] = claim[x]
      BY <1>1, CourseKept DEF Keeps
    <2> QED
      BY <1>1, <2>1 DEF Document, Keeps, Grows
  <1>2. \A x : /\ D(x).course = CourseOfExtraction(x) /\ D(x)'.course = CourseOfExtraction(x)'
               /\ D(x).kind = "claim" /\ D(x).id = x
    BY DEF Document
  <1>3. \A d : d \in Claims <=>
          \E x \in DOMAIN extraction : claim[x] # "NONE" /\ Effective(x) /\ d = D(x)
    BY DEF Claims
  <1>4. \A d : d \in Claims' <=>
          \E x \in DOMAIN extraction' : claim'[x] # "NONE" /\ Effective(x)' /\ d = D(x)'
    BY DEF Claims
  <1>5. ASSUME NEW x \in DOMAIN extraction', CourseOfExtraction(x)' \notin A, claim'[x] # "NONE"
        PROVE  x \in DOMAIN extraction /\ CourseOfExtraction(x) \notin A
    <2>1. x \in DOMAIN extraction
      BY <1>5 DEF Keeps
    <2>2. CourseOfExtraction(x)' = CourseOfExtraction(x)
      BY <2>1, CourseKept DEF Keeps
    <2> QED
      BY <1>5, <2>1, <2>2
  <1>6. \A x \in DOMAIN extraction : Effective(x)' => Effective(x)
    BY EffectiveOnce DEF Keeps
  <1> HIDE DEF D
  <1>7. ASSUME NEW d, d.course \notin A, d \in Claims' PROVE d \in Claims
    BY <1>1, <1>2, <1>3, <1>4, <1>5, <1>6, <1>7
  <1>8. ASSUME NEW d, d.course \notin A, d \in Claims
        PROVE  d \in Claims' \/ (d.kind = "claim" /\ ~Effective(d.id)')
    <2>1. PICK x \in DOMAIN extraction : claim[x] # "NONE" /\ Effective(x) /\ d = D(x)
      BY <1>3, <1>8
    <2>2. d.kind = "claim" /\ d.id = x /\ CourseOfExtraction(x) \notin A
      BY <1>2, <1>8, <2>1
    <2>3. D(x)' = D(x) /\ claim'[x] = claim[x] /\ x \in DOMAIN extraction'
      BY <1>1, <2>2
    <2>4. CASE Effective(x)'
      BY <1>4, <2>1, <2>3, <2>4
    <2>5. CASE ~Effective(x)'
      BY <2>2, <2>5
    <2> QED
      BY <2>4, <2>5
  <1> QED
    BY <1>7, <1>8

LEMMA ProjectionKept ==
  ASSUME Typed, NEW A, Keeps(A)
  PROVE  \A d : d.course \notin A =>
           /\ d \in Projection' => d \in Projection
           /\ d \in Projection => d \in Projection' \/ (d.kind = "claim" /\ ~Effective(d.id)')
  BY MetadataKept, MaterialsKept, EventsKept, NativeKept, DerivedKept, ClaimsStay DEF Projection

\* The documents of a rebuild, and of the claims retired since.
IndexInv ==
  /\ Typed
  /\ IndexHoldsProjection
  /\ ~indexed => document = {}
  /\ \A d \in document : d.kind = "claim" => d.id \in DOMAIN extraction

\* A transaction that marked the courses A.
Writes(A) ==
  /\ Keeps(A)
  /\ document' = IF indexed
                 THEN {d \in document : d.course \notin A} \cup {d \in Projection' : d.course \in A}
                 ELSE Projection'
  /\ indexed' = TRUE

\* Whatever is projected is of a kind of its own, and a claim is an extraction's.
KindsTold ==
  \A d \in Projection :
    /\ d.kind = "claim" => d.id \in DOMAIN extraction /\ Effective(d.id)
    /\ d.kind = "native" => d.id \in DOMAIN parse /\ CurrentUsable(d.id)

LEMMA ProjectedKinds == KindsTold
  <1>1. \A d \in Metadata : d.kind = "course"
    BY DEF Metadata, Document
  <1>2. \A d \in Materials : d.kind = "material"
    BY DEF Materials, Document
  <1>3. \A d \in NativeChunks : d.kind = "native" /\ d.id \in DOMAIN parse /\ CurrentUsable(d.id)
    BY DEF NativeChunks, Document
  <1>4. \A d \in DerivedChunks : d.kind = "derived"
    BY DEF DerivedChunks, Document
  <1>5. \A d \in Claims : d.kind = "claim" /\ d.id \in DOMAIN extraction /\ Effective(d.id)
    BY DEF Claims, Document
  <1>6. \A d \in Events : d.kind = "event"
    BY DEF Events, Document
  <1> QED
    BY <1>1, <1>2, <1>3, <1>4, <1>5, <1>6 DEF Projection, KindsTold

LEMMA ProjectedNext ==
  \A d \in Projection' :
    /\ d.kind = "claim" => d.id \in DOMAIN extraction' /\ Effective(d.id)'
    /\ d.kind = "native" => d.id \in DOMAIN parse' /\ CurrentUsable(d.id)'
  <1>1. KindsTold'
    BY ProjectedKinds, PTL
  <1> QED
    BY <1>1 DEF KindsTold

LEMMA WritesStep ==
  ASSUME IndexInv, NEW A, Writes(A), Typed'
  PROVE  IndexInv'
  <1>1. Grows /\ indexed' = TRUE /\ Typed
    BY DEF Writes, Keeps, IndexInv
  <1>2. CASE ~indexed
    <2>1. document' = Projection'
      BY <1>2 DEF Writes
    <2> QED
      BY <1>1, <2>1, ProjectedNext DEF IndexInv, IndexHoldsProjection
  <1>3. CASE indexed
    <2>1. document' = {d \in document : d.course \notin A} \cup {d \in Projection' : d.course \in A}
      BY <1>3 DEF Writes
    <2>2. /\ Projection \subseteq document
          /\ \A d \in document \ Projection : d.kind = "claim" /\ ~Effective(d.id)
          /\ \A d \in document : d.kind = "claim" => d.id \in DOMAIN extraction
      BY <1>3 DEF IndexInv, IndexHoldsProjection
    <2>3. \A d : d.course \notin A =>
            /\ d \in Projection' => d \in Projection
            /\ d \in Projection => d \in Projection' \/ (d.kind = "claim" /\ ~Effective(d.id)')
      BY <1>1, ProjectionKept DEF Writes
    <2>4. Projection' \subseteq document'
      BY <2>1, <2>2, <2>3
    <2>5. ASSUME NEW d \in document', d \notin Projection'
          PROVE  d.kind = "claim" /\ ~Effective(d.id)'
      <3>1. d \in document /\ d.course \notin A
        BY <2>1, <2>5
      <3>2. CASE d \in Projection
        BY <2>3, <2>5, <3>1, <3>2
      <3>3. CASE d \notin Projection
        <4>1. d.kind = "claim" /\ ~Effective(d.id) /\ d.id \in DOMAIN extraction
          BY <2>2, <3>1, <3>3
        <4> QED
          BY <1>1, <4>1, EffectiveOnce
      <3> QED
        BY <3>2, <3>3
    <2>6. \A d \in document' : d.kind = "claim" => d.id \in DOMAIN extraction'
      BY <1>1, <2>1, <2>2, ProjectedNext DEF Grows
    <2> QED
      BY <1>1, <2>4, <2>5, <2>6 DEF IndexInv, IndexHoldsProjection
  <1> QED
    BY <1>2, <1>3

LEMMA RebuildStep ==
  ASSUME IndexInv, Rebuild, Typed'
  PROVE  IndexInv'
  BY ProjectedNext DEF Rebuild, IndexInv, IndexHoldsProjection

LEMMA SameRows ==
  ASSUME UNCHANGED rows
  PROVE  /\ Projection' = Projection /\ \A x : Effective(x)' <=> Effective(x)
         /\ \A q : (CurrentUsable(q)' <=> CurrentUsable(q)) /\ CurrentNote(q)' = CurrentNote(q)
  <1>1. \A q : /\ CourseOfParse(q)' = CourseOfParse(q) /\ (CurrentUsable(q)' <=> CurrentUsable(q))
               /\ CurrentNote(q)' = CurrentNote(q)
    BY DEF rows, CourseOfParse, CurrentUsable, Usable, ParsesOf, CurrentNote, NotesOf
  <1>2. \A x : (Effective(x)' <=> Effective(x)) /\ CourseOfExtraction(x)' = CourseOfExtraction(x)
    BY DEF rows, Effective, VersionOf, CourseOfExtraction, CourseOfParse
  <1>3. Metadata' = Metadata /\ Materials' = Materials /\ Events' = Events
    BY DEF rows, Metadata, Materials, Events, Document
  <1>4. NativeChunks' = NativeChunks
    BY <1>1 DEF rows, NativeChunks, Document
  <1>5. DerivedChunks' = DerivedChunks
    BY <1>1 DEF rows, DerivedChunks, Document
  <1>6. Claims' = Claims
    BY <1>2 DEF rows, Claims, Document
  <1> QED
    BY <1>1, <1>2, <1>3, <1>4, <1>5, <1>6 DEF Projection

LEMMA QuietStep ==
  ASSUME IndexInv, UNCHANGED <<rows, document, indexed>>, Typed'
  PROVE  IndexInv'
  BY SameRows DEF IndexInv, IndexHoldsProjection, rows
-----------------------------------------------------------------------------
(***************************************************************************)
(* What each transaction marks is all it needs to.                         *)
(***************************************************************************)
LEMMA Refreshed ==
  ASSUME NEW courses, NEW resources, Refresh(courses, resources), NEW A,
         A = Affected(courses, resources), Keeps(A)
  PROVE  Writes(A)
  BY DEF Refresh, Writes

\* Parses, descriptions and extractions that nobody writes stay what they are.
LEMMA SameParses ==
  /\ UNCHANGED parse => \A q : CurrentUsable(q)' <=> CurrentUsable(q)
  /\ UNCHANGED note => \A q : CurrentNote(q)' = CurrentNote(q)
  <1>1. ASSUME UNCHANGED parse, NEW q PROVE CurrentUsable(q)' <=> CurrentUsable(q)
    BY <1>1 DEF CurrentUsable, Usable, ParsesOf
  <1>2. ASSUME UNCHANGED note, NEW q PROVE CurrentNote(q)' = CurrentNote(q)
    BY <1>2 DEF CurrentNote, NotesOf
  <1> QED
    BY <1>1, <1>2

LEMMA PutCourseKeeps ==
  ASSUME Typed, NEW c \in Course, PutCourse(c)
  PROVE  Writes({c})
  <1>1. /\ UNCHANGED <<version, current, parse, note, extraction, claim, shown>> /\ Grows
        /\ title' = [title EXCEPT ![c] = @ + 1] /\ Refresh({c}, {})
    BY PutCourseTyped DEF PutCourse
  <1>2. \A d \in Course \ {c} : title'[d] = title[d]
    BY <1>1 DEF Typed, VersionsTyped
  <1>3. Keeps({c})
    BY <1>1, <1>2, SameParses DEF Keeps
  <1>4. Affected({c}, {}) = {c}
    BY DEF Affected
  <1> QED
    BY <1>1, <1>3, <1>4, Refreshed

LEMMA StoreVersionKeeps ==
  ASSUME Typed, NEW r \in Resource, StoreVersion(r)
  PROVE  Writes({CourseOf[r]})
  <1>1. /\ UNCHANGED <<title, parse, note, extraction, claim, shown>> /\ Grows
        /\ Refresh({}, {r})
    BY StoreVersionTyped DEF StoreVersion
  <1>2. \A s \in Resource \ {r} : current'[s] = current[s]
    BY DEF StoreVersion, Typed, VersionsTyped
  <1>3. Keeps({CourseOf[r]})
    BY <1>1, <1>2, SameParses DEF Keeps
  <1>4. Affected({}, {r}) = {CourseOf[r]}
    BY DEF Affected
  <1> QED
    BY <1>1, <1>3, <1>4, Refreshed

\* A parse more is a parse of the course that is marked, and so are the parses it
\* may supersede.
LEMMA StoreTerminalKeeps ==
  ASSUME Typed, NEW p \in Process, StoreTerminal(p)
  PROVE  (\E A : Writes(A)) \/ UNCHANGED <<rows, document, indexed>>
  <1> DEFINE v == worker[p].version
             k == CourseOf[version[v]]
  <1>1. /\ UNCHANGED <<title, version, current, note, extraction, claim, shown>> /\ Grows
    BY StoreTerminalTyped DEF StoreTerminal
  <1>2. CASE UNCHANGED <<parse, document, indexed>>
    BY <1>1, <1>2 DEF rows
  <1>3. ASSUME NEW status,
               parse' = Append(parse, [version |-> v, contract |-> worker[p].contract,
                                       status |-> status]),
               Refresh({}, {version[v]})
        PROVE  Writes({k})
    <2> DEFINE row == [version |-> v, contract |-> worker[p].contract, status |-> status]
               last == Len(parse) + 1
    <2>1. /\ Len(parse) \in Nat /\ DOMAIN parse = 1..Len(parse)
          /\ DOMAIN parse' = DOMAIN parse \cup {last} /\ parse'[last] = row
          /\ \A q \in DOMAIN parse : parse'[q] = parse[q]
      <3>1. parse \in Seq(ParseRow \cup {row})
        BY DEF Typed, ParsesTyped
      <3> HIDE DEF row
      <3> QED
        BY <1>3, <3>1, Appended DEF row
    <2>2. row.version = v
      OBVIOUS
    <2> HIDE DEF row, last, v
    <2>3. \A q : q = last => CourseOfParse(q)' = k
      BY <1>1, <2>1, <2>2 DEF CourseOfParse
    <2>4. ASSUME NEW q \in DOMAIN parse', CourseOfParse(q)' # k
          PROVE  /\ q \in DOMAIN parse /\ (CurrentUsable(q)' <=> CurrentUsable(q))
                 /\ CurrentNote(q)' = CurrentNote(q)
      <3>1. q \in DOMAIN parse /\ parse'[q] = parse[q] /\ parse[q].version # v
        BY <1>1, <2>1, <2>3, <2>4 DEF CourseOfParse
      <3>2. \A o \in ParsesOf(parse[q].version)' : o \in DOMAIN parse /\ parse'[o] = parse[o]
        BY <2>1, <2>2, <3>1 DEF ParsesOf
      <3>3. ParsesOf(parse[q].version)' = ParsesOf(parse[q].version)
        BY <2>1, <2>2, <3>1 DEF ParsesOf
      <3>4. CurrentUsable(q)' <=> CurrentUsable(q)
        BY <3>1, <3>2, <3>3 DEF CurrentUsable, Usable
      <3> QED
        BY <1>1, <3>1, <3>4, SameParses
    <2>5. Keeps({k})
      BY <1>1, <2>4 DEF Keeps
    <2>6. Affected({}, {version[v]}) = {k}
      BY DEF Affected
    <2> QED
      BY <1>3, <2>5, <2>6, Refreshed DEF v
  <1> QED
    BY <1>2, <1>3 DEF StoreTerminal

LEMMA PrepareKeeps ==
  ASSUME Typed, NEW q \in DOMAIN parse, Prepare(q)
  PROVE  \E A : Writes(A)
  <1>1. UNCHANGED rows /\ Refresh({}, {version[parse[q].version]}) /\ Grows
    BY PrepareTyped DEF Prepare
  <1>2. \A A : Keeps(A)
    BY <1>1, SameParses DEF rows, Keeps
  <1> QED
    BY <1>1, <1>2, Refreshed

\* A new extraction has no claim, so nothing needs to be marked.
LEMMA ExtractKeeps ==
  ASSUME Typed, NEW q \in DOMAIN parse, ExtractVersion(q)
  PROVE  Writes({})
  <1>1. /\ UNCHANGED <<title, version, current, parse, note, claim, shown>> /\ Grows
        /\ ClaimsTyped' /\ Refresh({}, {})
    BY ExtractTyped DEF ExtractVersion
  <1>2. ASSUME NEW x \in DOMAIN extraction', claim'[x] # "NONE"
        PROVE  x \in DOMAIN extraction
    <2>1. x \in 1..MaxExtraction
      BY <1>1, RowBounds DEF ClaimsTyped
    <2> QED
      BY <1>1, <1>2, <2>1 DEF Typed, ClaimsTyped
  <1>3. Keeps({})
    BY <1>1, <1>2, SameParses DEF Keeps
  <1>4. Affected({}, {}) = {}
    BY DEF Affected
  <1> QED
    BY <1>1, <1>3, <1>4, Refreshed

LEMMA BundleKeeps ==
  ASSUME Typed, NEW p \in Process, NEW q \in DOMAIN parse, NEW t \in Text, ImportBundle(p, q, t)
  PROVE  \E A : Writes(A)
  <1> DEFINE k == CourseOf[version[parse[q].version]]
             marked == IF note' = note THEN {} ELSE {version[parse[q].version]}
  <1>1. /\ UNCHANGED <<title, version, current, parse, extraction, claim, shown>> /\ Grows
        /\ Refresh({}, marked)
    BY BundleTyped DEF ImportBundle
  <1>2. CASE note' = note
    <2>1. \A A : Keeps(A)
      BY <1>1, <1>2, SameParses DEF Keeps
    <2> QED
      BY <1>1, <2>1, Refreshed
  <1>3. CASE note' # note
    <2>1. /\ \A n \in DOMAIN note : n \in DOMAIN note' /\ note'[n] = note[n]
          /\ \A n \in DOMAIN note' : n \in DOMAIN note \/ note'[n].parse = q
      BY BundleNotes
    <2>2. ASSUME NEW o, o # q PROVE CurrentNote(o)' = CurrentNote(o)
      <3>1. NotesOf(o)' = NotesOf(o)
        BY <2>1, <2>2 DEF NotesOf
      <3> QED
        BY <3>1 DEF CurrentNote
    <2>3. CourseOfParse(q)' = k
      BY <1>1 DEF CourseOfParse
    <2>4. Keeps({k})
      BY <1>1, <2>2, <2>3, SameParses DEF Keeps
    <2>5. Affected({}, marked) = {k}
      BY <1>3 DEF Affected
    <2> HIDE DEF marked, k
    <2> QED
      BY <1>1, <2>4, <2>5, Refreshed
  <1> QED
    BY <1>2, <1>3

\* A reconciliation that leaves its course unmarked has changed nothing shown.
LEMMA ReconcileKeeps ==
  ASSUME Typed, NEW c \in Course, ReconcileCourse(c)
  PROVE  \E A : Writes(A)
  <1>1. /\ UNCHANGED <<title, version, current, parse, note, extraction>> /\ Grows
    BY ReconcileTyped DEF ReconcileCourse
  <1>2. CASE UNCHANGED <<claim, shown, reconciled>> /\ Refresh({}, {})
    <2>1. \A A : Keeps(A)
      BY <1>1, <1>2, SameParses DEF Keeps
    <2> QED
      BY <1>2, <2>1, Refreshed
  <1>3. CASE NewRun(c)
    <2> DEFINE eff == EffectiveIn(c)
               bound == {x \in DOMAIN extraction :
                           CourseOfExtraction(x) = c /\ claim[x] \in {"BOUND", "REJECTED"}}
               open == {x \in eff \ bound : extraction[x].drew}
    <2>1. PICK joined \in SUBSET open :
            /\ claim' = [x \in 1..MaxExtraction |->
                  IF x \in bound \cup joined THEN (IF x \in eff THEN "BOUND" ELSE "REJECTED")
                  ELSE IF x \in open THEN "UNRESOLVED" ELSE claim[x]]
            /\ shown' = [shown EXCEPT ![c] =
                  IF (bound \cup joined) \cap eff = {} THEN 0
                  ELSE CHOOSE x \in (bound \cup joined) \cap eff : TRUE]
            /\ Refresh({d \in {c} : bound \cup joined # {} \/ \E x \in open : claim[x] = "NONE"}, {})
      BY <1>3 DEF NewRun
    <2>2. /\ extraction \in Seq(ExtractionRow) /\ Len(extraction) <= MaxExtraction
          /\ claim \in [1..MaxExtraction -> ClaimState] /\ shown \in [Course -> Nat]
          /\ shown[c] # 0 => /\ shown[c] \in DOMAIN extraction
                             /\ CourseOfExtraction(shown[c]) = c /\ claim[shown[c]] = "BOUND"
      BY DEF Typed, ClaimsTyped
    <2>3. DOMAIN extraction \subseteq 1..MaxExtraction
      BY <2>2, RowBounds
    <2>4. /\ \A x \in 1..MaxExtraction :
               claim'[x] # claim[x] => x \in DOMAIN extraction /\ CourseOfExtraction(x) = c
          /\ \A d \in Course : d # c => shown'[d] = shown[d]
      BY <1>1, <1>3, ReconcileClaims DEF ReconcileCourse
    <2>5. \A x \in DOMAIN extraction : CourseOfExtraction(x)' = CourseOfExtraction(x)
      BY <1>1, CourseKept
    <2>6. CASE bound \cup joined # {} \/ \E x \in open : claim[x] = "NONE"
      <3>1. Keeps({c})
        BY <1>1, <2>3, <2>4, <2>5, SameParses DEF Keeps
      <3>2. Affected({d \in {c} : bound \cup joined # {} \/ \E x \in open : claim[x] = "NONE"}, {}) = {c}
        BY <2>6 DEF Affected
      <3> QED
        BY <2>1, <3>1, <3>2, Refreshed
    <2>7. CASE ~(bound \cup joined # {} \/ \E x \in open : claim[x] = "NONE")
      <3>1. bound = {} /\ joined = {} /\ \A x \in open : claim[x] # "NONE"
        BY <2>7
      <3>2. \A x \in open : x \in DOMAIN extraction /\ CourseOfExtraction(x) = c
        BY DEF EffectiveIn
      <3>3. \A x \in open : claim[x] = "UNRESOLVED"
        BY <2>2, <2>3, <3>1, <3>2 DEF ClaimState
      <3>4. \A x \in 1..MaxExtraction : claim'[x] = claim[x]
        <4> HIDE DEF bound, open, eff
        <4> QED
          BY <2>1, <3>1, <3>3
      <3>5. shown[c] = 0 /\ shown'[c] = 0
        BY <2>1, <2>2, <3>1
      <3>6. \A A : Keeps(A)
        BY <1>1, <2>3, <2>4, <3>4, <3>5, SameParses DEF Keeps
      <3> QED
        BY <2>1, <3>6, Refreshed
    <2> QED
      BY <2>6, <2>7
  <1> QED
    BY <1>2, <1>3 DEF ReconcileCourse

\* Every step is a transaction that marks what it changes, a rebuild, or leaves
\* the rows and the index alone.
LEMMA IndexSteps ==
  ASSUME Typed, [Next]_vars
  PROVE  \/ \E A : Writes(A)
         \/ UNCHANGED rows /\ Rebuild
         \/ UNCHANGED <<rows, document, indexed>>
  <1>1. CASE UNCHANGED vars
    BY <1>1 DEF vars
  <1>2. CASE IndexJob
    BY <1>2 DEF IndexJob
  <1>3. ASSUME NEW p \in Process,
               \/ \E v \in DOMAIN version, c \in Contract : ParseVersion(p, v, c)
               \/ GiveUp(p) \/ ImportRebuild(p)
        PROVE  UNCHANGED rows /\ (Rebuild \/ UNCHANGED <<document, indexed>>)
    BY <1>3 DEF ParseVersion, GiveUp, ImportRebuild
  <1>4. ASSUME NEW p \in Process, ImportExtract(p) PROVE \E A : Writes(A)
    <2>1. worker[p].step = "extract" /\ ExtractVersion(worker[p].parse)
      BY <1>4 DEF ImportExtract
    <2> QED
      BY <2>1, ImportParse, ExtractKeeps
  <1>5. ASSUME NEW p \in Process, ImportReconcile(p) PROVE \E A : Writes(A)
    <2>1. worker[p].step = "reconcile" /\ ReconcileCourse(CourseOfParse(worker[p].parse))
      BY <1>5 DEF ImportReconcile
    <2> QED
      BY <2>1, ImportParse, ReconcileKeeps
  <1>6. ASSUME NEW q \in DOMAIN parse, ExtractJob(q) PROVE \E A : Writes(A)
    BY <1>6, ExtractKeeps DEF ExtractJob
  <1>7. ASSUME NEW c \in Course, ReconcileJob(c) PROVE \E A : Writes(A)
    BY <1>7, ReconcileKeeps DEF ReconcileJob
  <1> QED
    BY <1>1, <1>2, <1>3, <1>4, <1>5, <1>6, <1>7, PutCourseKeeps, StoreVersionKeeps,
       StoreTerminalKeeps, PrepareKeeps, BundleKeeps DEF Next

LEMMA IndexNext ==
  ASSUME IndexInv, [Next]_vars
  PROVE  IndexInv'
  <1>1. Typed /\ Typed'
    BY TypedStep DEF IndexInv
  <1> QED
    BY <1>1, IndexSteps, WritesStep, RebuildStep, QuietStep

LEMMA IndexAlways == Spec => []IndexInv
  <1>1. Init => IndexInv
    BY TypedInit DEF Init, IndexInv, IndexHoldsProjection
  <1>2. IndexInv /\ [Next]_vars => IndexInv'
    BY IndexNext
  <1> QED
    BY <1>1, <1>2, PTL DEF Spec

\* Between transactions the index holds what a rebuild would write, and nothing
\* else but retired claims (refresh_dirty, the triggers of 0005 to 0007).
THEOREM IndexIsProjected == Spec => []IndexHoldsProjection
  <1>1. IndexInv => IndexHoldsProjection
    BY DEF IndexInv
  <1> QED
    BY <1>1, IndexAlways, PTL

\* A search that reports complete document text has it, with the current
\* descriptions (search/service.py).
THEOREM CompleteSearchesHideNothing == Spec => []CompleteHidesNothing
  <1>1. ASSUME IndexInv, indexed, NEW c \in Course, NEW history \in BOOLEAN,
               TextComplete(c, history), NEW r \in Resource, CourseOf[r] = c
        PROVE  /\ \E v \in DOMAIN version : version[v] = r
               /\ \A v \in DOMAIN version : version[v] = r /\ (history \/ current[r] = v) =>
                    \E q \in ParsesOf(v) :
                      /\ \A o \in ParsesOf(v) : o <= q
                      /\ Document("native", c, q, "COMPLETE") \in document
                      /\ CurrentNote(q) # 0 => Document("derived", c, q, CurrentNote(q)) \in document
    <2>1. /\ VersionsTyped /\ ParsesTyped /\ Projection \subseteq document
          /\ \A v \in InScope(c, history) : LatestComplete(v)
      BY <1>1 DEF IndexInv, IndexHoldsProjection, Typed, TextComplete
    <2>2. ~LatestComplete(0)
      <3>1. \A q \in DOMAIN parse : parse[q].version \in DOMAIN version
        BY <2>1 DEF ParsesTyped
      <3>2. 0 \notin DOMAIN version
        BY <2>1 DEF VersionsTyped
      <3> QED
        BY <3>1, <3>2 DEF LatestComplete
    <2>3. ~(IF history THEN \A v \in DOMAIN version : version[v] # r ELSE current[r] = 0)
      BY <1>1, <2>1, <2>2 DEF InScope
    <2>4. \E v \in DOMAIN version : version[v] = r
      BY <2>1, <2>3 DEF VersionsTyped
    <2>5. ASSUME NEW v \in DOMAIN version, version[v] = r, history \/ current[r] = v
          PROVE  \E q \in ParsesOf(v) :
                   /\ \A o \in ParsesOf(v) : o <= q
                   /\ Document("native", c, q, "COMPLETE") \in document
                   /\ CurrentNote(q) # 0 => Document("derived", c, q, CurrentNote(q)) \in document
      <3>1. v \in InScope(c, history)
        BY <1>1, <2>5 DEF InScope
      <3>2. PICK q \in DOMAIN parse :
              parse[q].version = v /\ parse[q].status = "COMPLETE" /\ \A o \in ParsesOf(v) : o <= q
        BY <2>1, <3>1 DEF LatestComplete
      <3>3. q \in ParsesOf(v) /\ CurrentUsable(q) /\ CourseOfParse(q) = c
        BY <1>1, <2>5, <3>2 DEF ParsesOf, CurrentUsable, Usable, CourseOfParse
      <3>4. Document("native", c, q, "COMPLETE") \in NativeChunks
        BY <3>2, <3>3 DEF NativeChunks
      <3>5. CurrentNote(q) # 0 => Document("derived", c, q, CurrentNote(q)) \in DerivedChunks
        BY <3>2, <3>3 DEF DerivedChunks
      <3> QED
        BY <2>1, <3>2, <3>3, <3>4, <3>5 DEF Projection
    <2> QED
      BY <2>4, <2>5
  <1>2. IndexInv => CompleteHidesNothing
    BY <1>1 DEF CompleteHidesNothing
  <1> QED
    BY <1>2, IndexAlways, PTL
-----------------------------------------------------------------------------
(***************************************************************************)
(* Text, once it can be found.                                             *)
(***************************************************************************)
\* A usable parse stays current until a usable one of the same version.
LEMMA UsableStays ==
  ASSUME Typed, [Next]_vars, NEW q \in DOMAIN parse, CurrentUsable(q)
  PROVE  \E o \in DOMAIN parse' : CurrentUsable(o)' /\ parse'[o].version = parse[q].version
  <1>1. CASE parse' = parse
    BY <1>1, SameParses
  <1>2. ASSUME NEW row, parse' = Append(parse, row)
        PROVE  \E o \in DOMAIN parse' : CurrentUsable(o)' /\ parse'[o].version = parse[q].version
    <2> DEFINE last == Len(parse) + 1
    <2>1. /\ Len(parse) \in Nat /\ DOMAIN parse = 1..Len(parse)
          /\ DOMAIN parse' = DOMAIN parse \cup {last} /\ parse'[last] = row
          /\ \A o \in DOMAIN parse : parse'[o] = parse[o]
      <3>1. parse \in Seq(ParseRow \cup {row})
        BY DEF Typed, ParsesTyped
      <3> QED
        BY <1>2, <3>1, Appended
    <2>2. \A o \in DOMAIN parse' : o \in Nat /\ o <= last
      BY <2>1
    <2>3. last \in DOMAIN parse' /\ q \in DOMAIN parse' /\ parse'[q] = parse[q]
      BY <2>1
    <2> HIDE DEF last
    <2>4. CASE row.status \in {"COMPLETE", "PARTIAL"} /\ row.version = parse[q].version
      <3>1. \A o : o = last => CurrentUsable(o)'
        BY <2>1, <2>2, <2>4 DEF CurrentUsable, Usable, ParsesOf
      <3> QED
        BY <2>1, <2>3, <2>4, <3>1
    <2>5. CASE ~(row.status \in {"COMPLETE", "PARTIAL"} /\ row.version = parse[q].version)
      <3>1. CurrentUsable(q)'
        BY <2>1, <2>3, <2>5 DEF CurrentUsable, Usable, ParsesOf
      <3> QED
        BY <2>3, <3>1
    <2> QED
      BY <2>4, <2>5
  <1>3. parse' = parse \/ \E row : parse' = Append(parse, row)
    <2>1. CASE UNCHANGED vars \/ IndexJob
      BY <2>1 DEF vars, rows, IndexJob
    <2>2. ASSUME NEW c \in Course, PutCourse(c) \/ ReconcileJob(c) PROVE parse' = parse
      BY <2>2 DEF PutCourse, ReconcileJob, ReconcileCourse
    <2>3. ASSUME NEW r \in Resource, StoreVersion(r) PROVE parse' = parse
      BY <2>3 DEF StoreVersion
    <2>4. ASSUME NEW o \in DOMAIN parse, Prepare(o) \/ ExtractJob(o) PROVE parse' = parse
      BY <2>4 DEF Prepare, ExtractJob, ExtractVersion, rows
    <2>5. ASSUME NEW p \in Process, StoreTerminal(p)
          PROVE  parse' = parse \/ \E row : parse' = Append(parse, row)
      BY <2>5 DEF StoreTerminal
    <2>6. ASSUME NEW p \in Process,
                 \/ \E v \in DOMAIN version, c \in Contract : ParseVersion(p, v, c)
                 \/ \E o \in DOMAIN parse, t \in Text : ImportBundle(p, o, t)
                 \/ ImportExtract(p) \/ ImportReconcile(p) \/ ImportRebuild(p) \/ GiveUp(p)
          PROVE  parse' = parse
      BY <2>6 DEF ParseVersion, ImportBundle, ImportExtract, ExtractVersion,
                  ImportReconcile, ReconcileCourse, ImportRebuild, GiveUp, rows
    <2> QED
      BY <2>1, <2>2, <2>3, <2>4, <2>5, <2>6 DEF Next
  <1> QED
    BY <1>1, <1>2, <1>3

\* Text of a version that can be found stays findable, whatever later parses of it
\* come to (the view current_usable_parse, _refresh_course).
THEOREM FoundTextStays == Spec => TextStaysSearchable
  <1> DEFINE Stays == \A v \in DOMAIN version :
                        Found(v, document, parse) => Found(v, document', parse')
  <1>1. ASSUME IndexInv, [Next]_vars PROVE Stays
    <2> SUFFICES ASSUME NEW v \in DOMAIN version, Found(v, document, parse)
                 PROVE  Found(v, document', parse')
      OBVIOUS
    <2>0. Typed
      BY <1>1 DEF IndexInv
    <2>1. PICK d \in document : d.kind = "native" /\ parse[d.id].version = v
      BY DEF Found
    <2>2. d \in Projection
      BY <1>1, <2>1 DEF IndexInv, IndexHoldsProjection
    <2>3. d.id \in DOMAIN parse /\ CurrentUsable(d.id)
      BY <2>1, <2>2, ProjectedKinds DEF KindsTold
    <2>4. PICK o \in DOMAIN parse' : CurrentUsable(o)' /\ parse'[o].version = v
      BY <1>1, <2>0, <2>1, <2>3, UsableStays
    <2>5. CASE UNCHANGED <<rows, document, indexed>>
      BY <2>1, <2>5 DEF Found, rows
    <2>6. CASE ~UNCHANGED <<rows, document, indexed>>
      <3>1. indexed'
        BY <1>1, <2>0, <2>6, IndexSteps DEF Writes, Rebuild
      <3>2. Projection' \subseteq document'
        BY <1>1, <3>1, IndexNext DEF IndexInv, IndexHoldsProjection
      <3>3. \E e \in NativeChunks' : e.kind = "native" /\ e.id = o
        <4> DEFINE D(q) == Document("native", CourseOfParse(q), q, parse[q].status)
        <4>1. \A e : e \in NativeChunks' <=> \E q \in DOMAIN parse' : CurrentUsable(q)' /\ e = D(q)'
          BY DEF NativeChunks
        <4>2. \A q : D(q)'.kind = "native" /\ D(q)'.id = q
          BY DEF Document
        <4> HIDE DEF D
        <4> QED
          BY <2>4, <4>1, <4>2
      <3>4. NativeChunks' \subseteq Projection'
        BY DEF Projection
      <3> QED
        BY <2>4, <3>2, <3>3, <3>4 DEF Found
    <2> QED
      BY <2>5, <2>6
  <1>2. IndexInv /\ [Next]_vars => [Stays]_vars
    BY <1>1
  <1>3. [][Stays]_vars => TextStaysSearchable
    BY PTL DEF TextStaysSearchable
  <1> QED
    BY <1>2, <1>3, IndexAlways, PTL DEF Spec
-----------------------------------------------------------------------------
(***************************************************************************)
(* Imports.  Between its transactions anything may be stored; what an      *)
(* import has done so far stays done.                                      *)
(***************************************************************************)
\* A reconciled extraction that drew a claim has one.
ReconciledClaims ==
  /\ DOMAIN reconciled = Course
  /\ \A c \in Course : \A x \in reconciled[c] :
       x \in DOMAIN extraction /\ (extraction[x].drew => claim[x] # "NONE")

\* Extraction x has what work w is about.
Serves(w, x) ==
  /\ x \in DOMAIN extraction
  /\ extraction[x].parse = w.parse /\ extraction[x].note >= w.note
  /\ w.step = "rebuild" /\ extraction[x].drew /\ Effective(x) => claim[x] # "NONE"

Imported ==
  \A p \in Process : worker[p].step \in {"reconcile", "rebuild"} => \E x : Serves(worker[p], x)

ImportInv == Typed /\ ReconciledClaims /\ Imported

\* Claims stay.
LEMMA ClaimsLast ==
  ASSUME Typed, [Next]_vars
  PROVE  /\ \A x \in DOMAIN extraction : claim[x] # "NONE" => claim'[x] # "NONE"
         /\ \/ UNCHANGED reconciled
            \/ \E c \in Course : /\ reconciled' = [reconciled EXCEPT ![c] = EffectiveIn(c)]
                                 /\ \A x \in EffectiveIn(c) : extraction[x].drew => claim'[x] # "NONE"
  <1>1. ASSUME NEW c \in Course, ReconcileCourse(c)
        PROVE  /\ \A x \in DOMAIN extraction : claim[x] # "NONE" => claim'[x] # "NONE"
               /\ \/ UNCHANGED reconciled
                  \/ /\ reconciled' = [reconciled EXCEPT ![c] = EffectiveIn(c)]
                     /\ \A x \in EffectiveIn(c) : extraction[x].drew => claim'[x] # "NONE"
    <2>1. CASE UNCHANGED <<claim, shown, reconciled>>
      BY <2>1
    <2>2. CASE NewRun(c)
      <3>1. DOMAIN extraction \subseteq 1..MaxExtraction
        BY RowBounds DEF Typed, ClaimsTyped
      <3> QED
        BY <1>1, <2>2, <3>1, ReconcileClaims DEF ReconcileCourse
    <2> QED
      BY <1>1, <2>1, <2>2 DEF ReconcileCourse
  <1>2. ASSUME NEW p \in Process, ImportReconcile(p)
        PROVE  \E c \in Course : ReconcileCourse(c)
    BY <1>2, ImportParse DEF ImportReconcile
  <1>3. ASSUME UNCHANGED vars \/ IndexJob PROVE UNCHANGED <<claim, reconciled>>
    BY <1>3 DEF vars, rows, IndexJob
  <1>4. ASSUME NEW c \in Course, PutCourse(c) PROVE UNCHANGED <<claim, reconciled>>
    BY <1>4 DEF PutCourse
  <1>5. ASSUME NEW r \in Resource, StoreVersion(r) PROVE UNCHANGED <<claim, reconciled>>
    BY <1>5 DEF StoreVersion
  <1>6. ASSUME NEW o \in DOMAIN parse, Prepare(o) \/ ExtractJob(o)
        PROVE  UNCHANGED <<claim, reconciled>>
    BY <1>6 DEF Prepare, ExtractJob, ExtractVersion, rows
  <1>7. ASSUME NEW p \in Process,
               \/ \E v \in DOMAIN version, c \in Contract : ParseVersion(p, v, c)
               \/ StoreTerminal(p)
               \/ \E o \in DOMAIN parse, t \in Text : ImportBundle(p, o, t)
               \/ ImportExtract(p) \/ ImportRebuild(p) \/ GiveUp(p)
        PROVE  UNCHANGED <<claim, reconciled>>
    BY <1>7 DEF ParseVersion, StoreTerminal, ImportBundle, ImportExtract, ExtractVersion,
                ImportRebuild, GiveUp, rows
  <1>8. CASE UNCHANGED <<claim, reconciled>>
    BY <1>8
  <1>9. CASE \E c \in Course : ReconcileCourse(c)
    BY <1>1, <1>9
  <1> QED
    BY <1>2, <1>3, <1>4, <1>5, <1>6, <1>7, <1>8, <1>9 DEF Next, ReconcileJob

LEMMA ReconciledNext ==
  ASSUME ImportInv, [Next]_vars
  PROVE  ReconciledClaims'
  <1>1. Typed /\ Grows
    BY TypedStep DEF ImportInv
  <1>2. /\ \A x \in DOMAIN extraction : claim[x] # "NONE" => claim'[x] # "NONE"
        /\ \/ UNCHANGED reconciled
           \/ \E c \in Course : /\ reconciled' = [reconciled EXCEPT ![c] = EffectiveIn(c)]
                                /\ \A x \in EffectiveIn(c) : extraction[x].drew => claim'[x] # "NONE"
    BY <1>1, ClaimsLast
  <1>3. \A c : \A x \in EffectiveIn(c) : x \in DOMAIN extraction
    BY DEF EffectiveIn
  <1>4. /\ DOMAIN reconciled = Course
        /\ \A c \in Course : \A x \in reconciled[c] :
             x \in DOMAIN extraction /\ (extraction[x].drew => claim[x] # "NONE")
    BY DEF ImportInv, ReconciledClaims
  <1>5. DOMAIN reconciled' = Course
    BY <1>2, <1>4
  <1>6. ASSUME NEW c \in Course, NEW x \in reconciled'[c]
        PROVE  x \in DOMAIN extraction /\ (extraction[x].drew => claim'[x] # "NONE")
    BY <1>2, <1>3, <1>4
  <1> QED
    BY <1>1, <1>5, <1>6 DEF ReconciledClaims, Grows

\* Work that goes on as it was is served as it was.
LEMMA ServedStill ==
  ASSUME Typed, [Next]_vars, NEW w, NEW x, Serves(w, x)
  PROVE  /\ x \in DOMAIN extraction' /\ extraction'[x].parse = w.parse
         /\ extraction'[x].note >= w.note
         /\ w.step = "rebuild" /\ extraction'[x].drew /\ Effective(x)' => claim'[x] # "NONE"
  BY TypedStep, ClaimsLast, EffectiveOnce DEF Serves, Grows

LEMMA ImportExtractServes ==
  ASSUME Typed, NEW p \in Process, ImportExtract(p)
  PROVE  /\ worker'[p].step = "reconcile"
         /\ \A o \in Process : o # p => worker'[o] = worker[o]
         /\ \E x \in DOMAIN extraction' : extraction'[x].parse = worker'[p].parse
                                          /\ extraction'[x].note >= worker'[p].note
  <1>1. /\ worker[p].step = "extract" /\ ExtractVersion(worker[p].parse)
        /\ worker' = [worker EXCEPT ![p].step = "reconcile"]
    BY DEF ImportExtract
  <1>2. worker[p].parse \in DOMAIN parse
    BY <1>1, ImportParse
  <1>3. Grows
    BY <1>1, <1>2, ExtractTyped
  <1>4. /\ worker'[p].step = "reconcile" /\ worker'[p].parse = worker[p].parse
        /\ worker'[p].note = worker[p].note
        /\ \A o \in Process : o # p => worker'[o] = worker[o]
    BY <1>1, <1>3, ImportGoesOn
  <1>5. PICK x \in DOMAIN extraction' :
          extraction'[x].parse = worker[p].parse /\ extraction'[x].note = CurrentNote(worker[p].parse)
    BY <1>1, <1>2, ExtractTyped
  <1>6. worker[p].note \in NotesOf(worker[p].parse)
    BY <1>1 DEF Typed, WorkTyped, NotesOf
  <1>7. worker[p].note \in Nat /\ CurrentNote(worker[p].parse) \in Nat
        /\ worker[p].note <= CurrentNote(worker[p].parse)
    BY <1>6, CurrentNoteIsLast DEF Typed
  <1> QED
    BY <1>4, <1>5, <1>7

LEMMA ImportReconcileServes ==
  ASSUME ImportInv, NEW p \in Process, ImportReconcile(p)
  PROVE  /\ worker'[p].step = "rebuild"
         /\ \A o \in Process : o # p => worker'[o] = worker[o]
         /\ \E x \in DOMAIN extraction' :
              /\ extraction'[x].parse = worker'[p].parse
              /\ extraction'[x].note >= worker'[p].note
              /\ extraction'[x].drew /\ Effective(x)' => claim'[x] # "NONE"
  <1> DEFINE c == CourseOfParse(worker[p].parse)
  <1>1. /\ worker[p].step = "reconcile" /\ ReconcileCourse(c) /\ Typed
        /\ worker' = [worker EXCEPT ![p].step = "rebuild"]
    BY DEF ImportReconcile, ImportInv
  <1>2. c \in Course
    BY <1>1, ImportParse
  <1>3. UNCHANGED <<title, version, current, parse, note, extraction, rendered>> /\ Grows
    BY <1>1, <1>2, ReconcileTyped DEF ReconcileCourse
  <1>4. /\ worker'[p].step = "rebuild" /\ worker'[p].parse = worker[p].parse
        /\ worker'[p].note = worker[p].note
        /\ \A o \in Process : o # p => worker'[o] = worker[o]
    BY <1>1, <1>3, ImportGoesOn
  <1>5. PICK x \in DOMAIN extraction :
          extraction[x].parse = worker[p].parse /\ extraction[x].note >= worker[p].note
    BY <1>1 DEF ImportInv, Imported, Serves
  <1>6. ASSUME extraction[x].drew, Effective(x)' PROVE claim'[x] # "NONE"
    <2>1. x \in EffectiveIn(c)
      BY <1>1, <1>3, <1>5, <1>6, EffectiveOnce DEF EffectiveIn, CourseOfExtraction
    <2>2. CASE NewRun(c)
      BY <1>1, <1>2, <1>3, <1>6, <2>1, <2>2, ReconcileClaims
    <2>3. CASE reconciled[c] = EffectiveIn(c) /\ UNCHANGED claim
      <3>1. x \in reconciled[c]
        BY <2>1, <2>3
      <3>2. claim[x] # "NONE"
        BY <1>2, <1>6, <3>1 DEF ImportInv, ReconciledClaims
      <3> QED
        BY <2>3, <3>2
    <2> QED
      BY <1>1, <2>2, <2>3 DEF ReconcileCourse
  <1> QED
    BY <1>3, <1>4, <1>5, <1>6

LEMMA ImportedNext ==
  ASSUME ImportInv, [Next]_vars
  PROVE  Imported'
  <1>0. Typed
    BY DEF ImportInv
  <1> SUFFICES ASSUME NEW o \in Process, worker'[o].step \in {"reconcile", "rebuild"}
               PROVE  \E x : /\ x \in DOMAIN extraction' /\ extraction'[x].parse = worker'[o].parse
                             /\ extraction'[x].note >= worker'[o].note
                             /\ worker'[o].step = "rebuild" /\ extraction'[x].drew /\ Effective(x)' =>
                                  claim'[x] # "NONE"
    BY DEF Imported, Serves
  <1>1. CASE worker'[o] = worker[o]
    <2>1. PICK x : Serves(worker[o], x)
      BY <1>1 DEF ImportInv, Imported
    <2> QED
      BY <1>0, <1>1, <2>1, ServedStill
  <1>2. ASSUME NEW p \in Process, ImportExtract(p)
        PROVE  \/ worker'[o] = worker[o]
               \/ /\ worker'[o].step # "rebuild"
                  /\ \E x \in DOMAIN extraction' : extraction'[x].parse = worker'[o].parse
                                                   /\ extraction'[x].note >= worker'[o].note
    BY <1>0, <1>2, ImportExtractServes
  <1>3. ASSUME NEW p \in Process, ImportReconcile(p)
        PROVE  \/ worker'[o] = worker[o]
               \/ \E x \in DOMAIN extraction' :
                    /\ extraction'[x].parse = worker'[o].parse
                    /\ extraction'[x].note >= worker'[o].note
                    /\ extraction'[x].drew /\ Effective(x)' => claim'[x] # "NONE"
    BY <1>3, ImportReconcileServes
  <1>4. ASSUME NEW p \in Process, NEW w \in Work, worker' = [worker EXCEPT ![p] = w],
               w.step \notin {"reconcile", "rebuild"}
        PROVE  worker'[o] = worker[o]
    BY <1>0, <1>4 DEF Typed, WorkTyped
  <1>5. ASSUME NEW p \in Process, GiveUp(p) \/ ImportRebuild(p) \/ StoreTerminal(p)
        PROVE  worker'[o] = worker[o]
    <2>1. worker' = [worker EXCEPT ![p] = Idle]
      BY <1>5 DEF GiveUp, ImportRebuild, StoreTerminal
    <2> QED
      BY <1>4, <2>1, IdleWork
  <1>6. ASSUME NEW p \in Process, NEW v \in DOMAIN version, NEW c \in Contract, ParseVersion(p, v, c)
        PROVE  worker'[o] = worker[o]
    <2> DEFINE w == [step |-> "parsing", version |-> v, contract |-> c]
    <2>1. v \in Nat
      BY <1>0 DEF Typed, VersionsTyped
    <2>2. w \in Work /\ w.step = "parsing" /\ worker' = [worker EXCEPT ![p] = w]
      BY <1>6, <2>1 DEF Work, ParseVersion
    <2> HIDE DEF w
    <2> QED
      BY <1>4, <2>2
  <1>7. ASSUME NEW p \in Process, NEW q \in DOMAIN parse, NEW t \in Text, ImportBundle(p, q, t)
        PROVE  worker'[o] = worker[o]
    <2>1. PICK n \in DOMAIN note' : worker' = [worker EXCEPT ![p] = Importing(q, n)]
      BY <1>0, <1>7, BundleNotes
    <2>2. q \in Nat /\ n \in Nat
      BY <1>0, <1>7, BundleNotes DEF Typed, ParsesTyped
    <2>3. Importing(q, n) \in Work /\ Importing(q, n).step = "extract"
      BY <2>2 DEF Importing, Work
    <2> QED
      BY <1>4, <2>1, <2>3
  <1>8. ASSUME UNCHANGED vars \/ IndexJob PROVE UNCHANGED worker
    BY <1>8 DEF vars, IndexJob
  <1>9. ASSUME NEW c \in Course, PutCourse(c) \/ ReconcileJob(c) PROVE UNCHANGED worker
    BY <1>9 DEF PutCourse, ReconcileJob
  <1>10. ASSUME NEW r \in Resource, StoreVersion(r) PROVE UNCHANGED worker
    BY <1>10 DEF StoreVersion
  <1>11. ASSUME NEW q \in DOMAIN parse, Prepare(q) \/ ExtractJob(q) PROVE UNCHANGED worker
    BY <1>11 DEF Prepare, ExtractJob
  <1> QED
    BY <1>1, <1>2, <1>3, <1>5, <1>6, <1>7, <1>8, <1>9, <1>10, <1>11 DEF Next

\* An import that ends without a warning leaves its description, or a newer one,
\* extracted and its claim searchable (_project_import).
THEOREM ImportsAreProjected == Spec => ImportIsProjected
  <1> DEFINE Projects ==
        \A p \in Process : ImportRebuild(p) =>
          \E x \in DOMAIN extraction :
            /\ extraction[x].parse = worker[p].parse
            /\ extraction[x].note >= worker[p].note
            /\ extraction[x].drew /\ Effective(x) =>
                 Document("claim", CourseOfExtraction(x), x, claim[x]) \in document'
  <1>1. ASSUME ImportInv PROVE Projects
    <2> SUFFICES ASSUME NEW p \in Process, ImportRebuild(p)
                 PROVE  \E x \in DOMAIN extraction :
                          /\ extraction[x].parse = worker[p].parse
                          /\ extraction[x].note >= worker[p].note
                          /\ extraction[x].drew /\ Effective(x) =>
                               Document("claim", CourseOfExtraction(x), x, claim[x]) \in document'
      OBVIOUS
    <2>1. worker[p].step = "rebuild" /\ UNCHANGED rows /\ document' = Projection'
      BY DEF ImportRebuild, Rebuild
    <2>2. PICK x \in DOMAIN extraction : Serves(worker[p], x)
      BY <1>1, <2>1 DEF ImportInv, Imported, Serves
    <2>3. document' = Projection
      BY <2>1, SameRows
    <2>4. extraction[x].drew /\ Effective(x) =>
            Document("claim", CourseOfExtraction(x), x, claim[x]) \in Claims
      BY <2>1, <2>2 DEF Serves, Claims
    <2> QED
      BY <2>2, <2>3, <2>4 DEF Serves, Projection
  <1>2. Init => ImportInv
    BY TypedInit, IdleWork DEF Init, ImportInv, ReconciledClaims, Imported
  <1>3. ASSUME ImportInv, [Next]_vars PROVE ImportInv'
    <2>1. Typed'
      BY <1>3, TypedStep DEF ImportInv
    <2> QED
      BY <1>3, <2>1, ReconciledNext, ImportedNext DEF ImportInv
  <1>4. ImportInv /\ [Next]_vars => ImportInv' /\ [Projects]_vars
    BY <1>1, <1>3
  <1>5. [][Projects]_vars => ImportIsProjected
    BY PTL DEF ImportIsProjected
  <1> QED
    BY <1>2, <1>4, <1>5, PTL DEF Spec
=============================================================================
