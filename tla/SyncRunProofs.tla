---------------------------- MODULE SyncRunProofs ----------------------------
(***************************************************************************)
(* Synchronization runs for every value of the constants: any requests,    *)
(* any tree of content, any pages of any size, any number of runs.         *)
(***************************************************************************)
EXTENDS SyncRun, TLAPS, FiniteSetTheorems, FunctionTheorems, WellFoundedInduction

(***************************************************************************)
(* What the proofs need of sequences.                                      *)
(***************************************************************************)
LEMMA FirstAndRest ==
  ASSUME NEW S, NEW s \in Seq(S), s # <<>>
  PROVE  /\ Head(s) \in S /\ Tail(s) \in Seq(S)
         /\ Range(s) = {Head(s)} \cup Range(Tail(s))
  <1>1. /\ Len(s) \in Nat \ {0} /\ DOMAIN s = 1..Len(s)
        /\ Head(s) \in S /\ Head(s) = s[1] /\ Tail(s) \in Seq(S)
        /\ DOMAIN Tail(s) = 1..(Len(s) - 1)
        /\ \A n \in 1..(Len(s) - 1) : Tail(s)[n] = s[n + 1]
    OBVIOUS
  <1>2. ASSUME NEW e \in Range(s) PROVE e = Head(s) \/ e \in Range(Tail(s))
    <2>1. PICK n \in 1..Len(s) : e = s[n]
      BY <1>1 DEF Range
    <2>2. n = 1 \/ (n - 1 \in 1..(Len(s) - 1) /\ s[n] = Tail(s)[n - 1])
      BY <1>1
    <2> QED
      BY <1>1, <2>1, <2>2 DEF Range
  <1>3. Head(s) \in Range(s)
    BY <1>1 DEF Range
  <1>4. ASSUME NEW e \in Range(Tail(s)) PROVE e \in Range(s)
    <2>1. PICK n \in 1..(Len(s) - 1) : e = s[n + 1]
      BY <1>1 DEF Range
    <2>2. n + 1 \in 1..Len(s)
      BY <1>1
    <2> QED
      BY <1>1, <2>1, <2>2 DEF Range
  <1> QED
    BY <1>1, <1>2, <1>3, <1>4

LEMMA OneMore ==
  ASSUME NEW S, NEW s \in Seq(S), NEW e
  PROVE  /\ Append(s, e) # <<>> /\ Len(Append(s, e)) = Len(s) + 1 /\ Len(s) \in Nat
         /\ Range(Append(s, e)) = Range(s) \cup {e}
         /\ e \in S => Append(s, e) \in Seq(S)
  <1> DEFINE t == Append(s, e)
  <1>1. /\ Len(s) \in Nat /\ DOMAIN s = 1..Len(s) /\ t # <<>>
        /\ Len(t) = Len(s) + 1 /\ DOMAIN t = 1..(Len(s) + 1)
        /\ t[Len(s) + 1] = e
        /\ \A n \in 1..Len(s) : t[n] = s[n]
        /\ e \in S => t \in Seq(S)
    OBVIOUS
  <1> HIDE DEF t
  <1>2. Len(s) + 1 \in 1..(Len(s) + 1) /\ \A n \in 1..Len(s) : n \in 1..(Len(s) + 1)
    BY <1>1
  <1>3. ASSUME NEW x \in Range(t) PROVE x = e \/ x \in Range(s)
    <2>1. PICK n \in 1..(Len(s) + 1) : x = t[n]
      BY <1>1 DEF Range
    <2>2. n = Len(s) + 1 \/ n \in 1..Len(s)
      BY <1>1
    <2> QED
      BY <1>1, <2>1, <2>2 DEF Range
  <1>4. Range(s) \subseteq Range(t) /\ e \in Range(t)
    BY <1>1, <1>2 DEF Range
  <1> QED
    BY <1>1, <1>3, <1>4 DEF t

LEMMA Members ==
  ASSUME NEW S, NEW s \in Seq(S)
  PROVE  /\ Range(s) \subseteq S
         /\ s = <<>> <=> Range(s) = {}
         /\ Len(s) \in Nat
  <1>1. Len(s) \in Nat /\ DOMAIN s = 1..Len(s) /\ \A n \in 1..Len(s) : s[n] \in S
    OBVIOUS
  <1>2. s # <<>> => s[1] \in Range(s)
    <2>1. s # <<>> => 1 \in DOMAIN s
      BY <1>1
    <2> QED
      BY <2>1 DEF Range
  <1>3. s = <<>> => Range(s) = {}
    BY DEF Range
  <1>4. Range(s) \subseteq S
    BY <1>1 DEF Range
  <1> QED
    BY <1>1, <1>2, <1>3, <1>4

LEMMA Larger ==
  ASSUME NEW S, NEW T, S \subseteq T, NEW s \in Seq(S)
  PROVE  s \in Seq(T)
  OBVIOUS
-----------------------------------------------------------------------------
(***************************************************************************)
(* The reading of one scope.                                               *)
(***************************************************************************)
\* What the pages of a scope list, and the entries that stand for it
ItemsOf(scope) ==
  CASE scope \in {"courses", "availability"} -> Course
    [] scope = "content" -> Node
    [] OTHER -> Thing
EntriesOf(scope) ==
  CASE scope \in {"courses", "availability"} -> Course
    [] scope = "content" -> Node
    [] OTHER -> Thing \X Text

Fits(rd) ==
  /\ rd \in Reader
  /\ rd.seen \in Seq(ItemsOf(rd.scope))
  /\ rd.pending \in Seq(EntriesOf(rd.scope) \cup {Bad})
  /\ rd.scope = "assessments" => rd.parents \in Seq(Assessment)

\* The places a reader still goes to, and the things it still stores
Frontier(rd) == {place \in {<<rd.parent, rd.cursor>>} : rd.cursor # End} \cup (Range(rd.parents) \X {Start})
Awaited(rd) ==
  {Subject(rd, e) : e \in Range(rd.pending)} \cup {n \in Range(rd.parents) : rd.scope = "assessments"}

Honest(rd) ==
  /\ rd.coverage = "FAILED" => rd.phase = "READ" /\ rd.seen = <<>>
  /\ rd.phase = "READING" /\ (rd.scope = "content" => rd.cause = "none") => rd.unread \subseteq Frontier(rd)
  /\ rd.phase = "READ" /\ rd.traversed => rd.unread = {}
  /\ rd.phase = "READ" /\ rd.coverage = "COMPLETE" =>
       rd.traversed /\ rd.pending = <<>> /\ (rd.scope = "assessments" => rd.parents = <<>>)
  /\ rd.coverage = "COMPLETE" => rd.cause = "none" /\ ~rd.short /\ rd.owed \subseteq Awaited(rd)
  /\ rd.scope \notin {"content", "assessments"} => rd.parents = <<>>
  /\ rd.scope = "assessments" => rd.unread = {}
  /\ rd.scope = "availability" => rd.owed = {}

\* What a step of a reader keeps
Goes(rd, g) ==
  /\ Fits(g) /\ Honest(g)
  /\ g.scope = rd.scope /\ g.course = rd.course /\ g.phase # "CLOSED"
  /\ rd.seen # <<>> => g.seen # <<>>

LEMMA ItemsTyped ==
  /\ \A scope : ItemsOf(scope) \subseteq Course \cup Node \cup Item
  /\ \A scope : EntriesOf(scope) \subseteq (Thing \X Text) \cup Course \cup Node
  /\ Container \subseteq Node /\ Assessment \subseteq Node
  BY KindsTyped DEF ItemsOf, EntriesOf, Thing

LEMMA FitsAlike ==
  ASSUME NEW rd, NEW g \in Reader, Fits(rd), g.scope = rd.scope,
         g.seen = rd.seen, g.pending = rd.pending, g.parents = rd.parents
  PROVE  Fits(g) /\ Awaited(g) = Awaited(rd)
  BY DEF Fits, Awaited, Subject

LEMMA FailedGoes ==
  ASSUME NEW rd, Fits(rd), Honest(rd)
  PROVE  /\ Goes(rd, Failed(rd))
         /\ Failed(rd).seen = rd.seen /\ Failed(rd).pending = rd.pending
         /\ Failed(rd).parents = rd.parents /\ Failed(rd).coverage # "COMPLETE"
  <1> DEFINE c == IF rd.pages > 0 \/ rd.seen # <<>> THEN "PARTIAL" ELSE "FAILED"
             g == [rd EXCEPT !.phase = "READ", !.traversed = FALSE, !.cause = "error", !.coverage = c]
  <1>1. c \in Coverage /\ c # "COMPLETE" /\ (c = "FAILED" => rd.seen = <<>>)
    BY DEF Coverage
  <1>2. Failed(rd) = g
    BY DEF Failed
  <1> HIDE DEF c
  <1>3. /\ g \in Reader /\ g.scope = rd.scope /\ g.course = rd.course /\ g.phase = "READ"
        /\ g.seen = rd.seen /\ g.pending = rd.pending /\ g.parents = rd.parents
        /\ g.unread = rd.unread /\ g.owed = rd.owed
        /\ ~g.traversed /\ g.coverage = c
    BY ZenonT(60), <1>1 DEF Fits, Reader
  <1> HIDE DEF g
  <1>4. Fits(g)
    BY <1>3, FitsAlike
  <1> QED
    BY <1>1, <1>2, <1>3, <1>4 DEF Goes, Honest

LEMMA StopGoes ==
  ASSUME NEW rd, Fits(rd), Honest(rd), NEW c \in {"empty_page", "page_limit", "node_limit", "cycle"},
         NEW g, g = [Partial(rd, c) EXCEPT !.phase = "READ"]
  PROVE  /\ Goes(rd, g)
         /\ g.seen = rd.seen /\ g.pending = rd.pending /\ g.parents = rd.parents
         /\ g.coverage # "COMPLETE"
  <1>1. /\ g \in Reader /\ g.scope = rd.scope /\ g.course = rd.course /\ g.phase = "READ"
        /\ g.seen = rd.seen /\ g.pending = rd.pending /\ g.parents = rd.parents
        /\ g.unread = rd.unread /\ g.owed = rd.owed
        /\ ~g.traversed /\ g.coverage = "PARTIAL"
    BY ZenonT(60) DEF Fits, Partial, Reader, Coverage
  <1>2. Fits(g)
    BY <1>1, FitsAlike
  <1> QED
    BY <1>1, <1>2 DEF Goes, Honest

LEMMA NextParentGoes ==
  ASSUME NEW rd, Fits(rd), Honest(rd), rd.phase = "READING", rd.scope = "content",
         rd.pending = <<>>, rd.cursor = End \/ rd.cause # "none"
  PROVE  LET g == NextParent(rd) IN
         Goes(rd, g) /\ g.seen = rd.seen /\ g.pending = rd.pending
  <1>1. CASE rd.parents = <<>>
    <2>1. Range(rd.parents) = {}
      BY <1>1 DEF Range
    <2>2. rd.cause = "none" => rd.unread = {}
      BY <2>1 DEF Honest, Frontier
    <2>3. CASE rd.cause = "none"
      <3> DEFINE g == [rd EXCEPT !.phase = "READ", !.traversed = TRUE]
      <3>1. /\ g \in Reader /\ g.seen = rd.seen /\ g.pending = rd.pending /\ g.scope = rd.scope
            /\ g.course = rd.course /\ g.phase = "READ" /\ g.unread = rd.unread
            /\ g.parents = rd.parents /\ g.traversed
            /\ g.cause = rd.cause /\ g.coverage = rd.coverage /\ g.short = rd.short
            /\ g.owed = rd.owed
        BY ZenonT(60) DEF Fits, Reader
      <3>2. NextParent(rd) = g
        BY <1>1, <2>3 DEF NextParent
      <3> HIDE DEF g
      <3>3. Fits(g) /\ Awaited(g) = Awaited(rd)
        BY <3>1, FitsAlike
      <3> QED
        BY <1>1, <2>2, <2>3, <3>1, <3>2, <3>3 DEF Goes, Honest
    <2>4. CASE rd.cause # "none"
      <3> DEFINE g == [rd EXCEPT !.phase = "READ", !.traversed = FALSE]
      <3>1. /\ g \in Reader /\ g.seen = rd.seen /\ g.pending = rd.pending /\ g.scope = rd.scope
            /\ g.course = rd.course /\ g.phase = "READ" /\ g.unread = rd.unread
            /\ g.parents = rd.parents /\ ~g.traversed
            /\ g.cause = rd.cause /\ g.coverage = rd.coverage /\ g.short = rd.short
            /\ g.owed = rd.owed
        BY ZenonT(60) DEF Fits, Reader
      <3>2. NextParent(rd) = g
        BY <1>1, <2>4 DEF NextParent
      <3> HIDE DEF g
      <3>3. Fits(g) /\ Awaited(g) = Awaited(rd)
        BY <3>1, FitsAlike
      <3> QED
        BY <1>1, <2>2, <2>4, <3>1, <3>2, <3>3 DEF Goes, Honest
    <2> QED
      BY <2>3, <2>4
  <1>2. CASE rd.parents # <<>>
    <2> DEFINE g == [rd EXCEPT !.parent = Head(rd.parents), !.parents = Tail(rd.parents),
                               !.cursor = Start, !.cursors = {}]
    <2>1. /\ Head(rd.parents) \in Node /\ Tail(rd.parents) \in Seq(Node)
          /\ Range(rd.parents) = {Head(rd.parents)} \cup Range(Tail(rd.parents))
      BY <1>2, FirstAndRest DEF Fits, Reader
    <2>2. /\ Fits(g) /\ g.seen = rd.seen /\ g.pending = rd.pending /\ g.scope = rd.scope
          /\ g.course = rd.course /\ g.phase = "READING" /\ g.unread = rd.unread
          /\ g.parent = Head(rd.parents) /\ g.cursor = Start /\ g.parents = Tail(rd.parents)
          /\ g.cause = rd.cause /\ g.coverage = rd.coverage /\ g.short = rd.short
          /\ g.owed = rd.owed
      BY ZenonT(60), <2>1 DEF Fits, Reader
    <2>3. NextParent(rd) = g
      BY <1>2 DEF NextParent
    <2> HIDE DEF g
    <2>4. rd.cause = "none" => Frontier(rd) \subseteq Frontier(g)
      BY <2>1, <2>2, NamesApart DEF Frontier
    <2>5. Awaited(g) = Awaited(rd)
      BY <2>2 DEF Awaited, Subject
    <2> QED
      BY <2>2, <2>3, <2>4, <2>5 DEF Goes, Honest
  <1> QED
    BY <1>1, <1>2

LEMMA TurnedGoes ==
  ASSUME NEW rd, Fits(rd), Honest(rd), rd.phase # "CLOSED"
  PROVE  LET g == Turned(rd) IN
         /\ Goes(rd, g) /\ g.seen = rd.seen /\ g.pending = rd.pending
         /\ rd.scope = "assessments" => g.parents = rd.parents
         /\ rd.scope = "assessments" => g.coverage = rd.coverage
  <1>1. rd.phase \in {"READING", "READ"}
    BY DEF Fits, Reader
  <1>2. CASE rd.phase = "READ" \/ rd.pending # <<>>
    <2>1. Turned(rd) = rd
      BY <1>2 DEF Turned
    <2> QED
      BY <2>1 DEF Goes
  <1>3. CASE rd.phase = "READING" /\ rd.pending = <<>> /\ rd.scope = "assessments"
    <2>1. CASE rd.parents # <<>>
      <3>1. Turned(rd) = rd
        BY <1>3, <2>1 DEF Turned
      <3> QED
        BY <3>1 DEF Goes
    <2>2. CASE rd.parents = <<>>
      <3> DEFINE g == [rd EXCEPT !.phase = "READ", !.traversed = TRUE]
      <3>1. /\ g \in Reader /\ g.seen = rd.seen /\ g.pending = rd.pending /\ g.scope = rd.scope
            /\ g.course = rd.course /\ g.phase = "READ" /\ g.unread = rd.unread
            /\ g.parents = rd.parents /\ g.traversed
            /\ g.cause = rd.cause /\ g.coverage = rd.coverage /\ g.short = rd.short
            /\ g.owed = rd.owed
        BY ZenonT(60) DEF Fits, Reader
      <3>2. Turned(rd) = g
        BY <1>3, <2>2 DEF Turned
      <3> HIDE DEF g
      <3>3. Fits(g) /\ Awaited(g) = Awaited(rd)
        BY <3>1, FitsAlike
      <3> QED
        BY <1>3, <2>2, <3>1, <3>2, <3>3 DEF Goes, Honest
    <2> QED
      BY <2>1, <2>2
  <1>4. CASE rd.phase = "READING" /\ rd.pending = <<>> /\ rd.scope # "assessments" /\ rd.cursor # End
    <2>1. Turned(rd) = rd
      BY <1>4 DEF Turned
    <2> QED
      BY <2>1 DEF Goes
  <1>5. CASE rd.phase = "READING" /\ rd.pending = <<>> /\ rd.scope = "content" /\ rd.cursor = End
    BY <1>5, NextParentGoes DEF Turned
  <1>6. CASE /\ rd.phase = "READING" /\ rd.pending = <<>> /\ rd.cursor = End
             /\ rd.scope \notin {"content", "assessments"}
    <2> DEFINE g == [rd EXCEPT !.phase = "READ", !.traversed = TRUE]
    <2>1. Range(rd.parents) = {} /\ Range(rd.pending) = {}
      BY <1>6 DEF Honest, Range
    <2>2. Frontier(rd) = {} /\ Awaited(rd) = {}
      BY <1>6, <2>1 DEF Frontier, Awaited
    <2>3. /\ g \in Reader /\ g.seen = rd.seen /\ g.pending = rd.pending /\ g.scope = rd.scope
          /\ g.course = rd.course /\ g.phase = "READ" /\ g.unread = rd.unread
          /\ g.parents = rd.parents /\ g.traversed
          /\ g.cause = rd.cause /\ g.coverage = rd.coverage /\ g.short = rd.short
          /\ g.owed = rd.owed
      BY ZenonT(60) DEF Fits, Reader
    <2>4. Turned(rd) = g
      BY <1>6 DEF Turned
    <2> HIDE DEF g
    <2>5. Fits(g) /\ Awaited(g) = Awaited(rd)
      BY <2>3, FitsAlike
    <2> QED
      BY <1>6, <2>2, <2>3, <2>4, <2>5 DEF Goes, Honest
  <1> QED
    BY <1>1, <1>2, <1>3, <1>4, <1>5, <1>6

LEMMA PassedFits ==
  ASSUME NEW rd, Fits(rd), rd.pending # <<>>
  PROVE  /\ Head(rd.pending) \in EntriesOf(rd.scope) \cup {Bad}
         /\ Tail(rd.pending) \in Seq(EntriesOf(rd.scope) \cup {Bad})
         /\ Range(rd.pending) = {Head(rd.pending)} \cup Range(Tail(rd.pending))
         /\ Tail(rd.pending) \in Seq((Thing \X Text) \cup Course \cup Node \cup {Bad})
  <1>1. /\ Head(rd.pending) \in EntriesOf(rd.scope) \cup {Bad}
        /\ Tail(rd.pending) \in Seq(EntriesOf(rd.scope) \cup {Bad})
        /\ Range(rd.pending) = {Head(rd.pending)} \cup Range(Tail(rd.pending))
    <2> DEFINE S == EntriesOf(rd.scope) \cup {Bad}
               s == rd.pending
    <2>1. s \in Seq(S) /\ s # <<>>
      BY DEF Fits
    <2> HIDE DEF S, s
    <2>2. Head(s) \in S /\ Tail(s) \in Seq(S) /\ Range(s) = {Head(s)} \cup Range(Tail(s))
      BY <2>1, FirstAndRest
    <2> QED
      BY <2>2 DEF S, s
  <1>2. EntriesOf(rd.scope) \cup {Bad} \subseteq (Thing \X Text) \cup Course \cup Node \cup {Bad}
    BY ItemsTyped
  <1> QED
    BY <1>1, <1>2, Larger

\* A course or content item that is stored
LEMMA StoredGoes ==
  ASSUME NEW rd, Fits(rd), Honest(rd), rd.phase = "READING", rd.pending # <<>>,
         rd.scope \in Listing, Head(rd.pending) # Bad, NEW nodes
  PROVE  LET g == Stored(rd, Head(rd.pending), nodes) IN
         /\ Goes(rd, g)
         /\ rd.scope = "availability" => g.seen = rd.seen \/ g.seen = <<rd.course>>
  <1> DEFINE item == Head(rd.pending)
             rest == Tail(rd.pending)
             passed == [rd EXCEPT !.pending = rest]
             g == Stored(rd, item, nodes)
  <1>1. /\ item \in EntriesOf(rd.scope)
        /\ rest \in Seq(EntriesOf(rd.scope) \cup {Bad})
        /\ Range(rd.pending) = {item} \cup Range(rest)
        /\ rest \in Seq((Thing \X Text) \cup Course \cup Node \cup {Bad})
    BY PassedFits
  <1>2. item \in ItemsOf(rd.scope) /\ item \in Course \cup Node \cup Item
    BY <1>1 DEF Listing, EntriesOf, ItemsOf
  <1>3. Awaited(rd) = {item} \cup Range(rest)
    BY <1>1 DEF Awaited, Subject, Listing
  <1>e. <<>> \in Seq(EntriesOf(rd.scope) \cup {Bad}) /\ <<>> \in Seq((Thing \X Text) \cup Course \cup Node \cup {Bad})
    OBVIOUS
  <1> HIDE DEF item, rest
  <1>4. ASSUME NEW s \in Seq(ItemsOf(rd.scope))
        PROVE  s \in Seq(Course \cup Node \cup Item)
    <2>1. ItemsOf(rd.scope) \subseteq Course \cup Node \cup Item
      BY ItemsTyped
    <2> QED
      BY <2>1, Larger
  <1>5. CASE rd.scope = "availability" /\ item = rd.course
    <2> DEFINE h == [rd EXCEPT !.seen = <<item>>, !.traversed = TRUE, !.phase = "READ",
                               !.pending = <<>>, !.unread = {}]
    <2>1. <<item>> \in Seq(ItemsOf(rd.scope))
      BY <1>2
    <2>2. /\ h \in Reader /\ h.seen = <<item>> /\ h.pending = <<>> /\ h.scope = rd.scope
          /\ h.course = rd.course /\ h.phase = "READ" /\ h.unread = {}
          /\ h.parents = rd.parents /\ h.traversed
          /\ h.cause = rd.cause /\ h.coverage = rd.coverage /\ h.short = rd.short
          /\ h.owed = rd.owed
      BY ZenonT(60), <2>1, <1>4, <1>e DEF Fits, Reader
    <2>3. g = h
      BY <1>5 DEF Stored
    <2>4. <<item>> # <<>>
      OBVIOUS
    <2> HIDE DEF h, g
    <2>5. Fits(h)
      BY <1>5, <1>e, <2>1, <2>2 DEF Fits
    <2> QED
      BY <1>5, <2>2, <2>3, <2>4, <2>5 DEF Goes, Honest, g, item
  <1>6. CASE rd.scope = "availability" /\ item # rd.course
    <2>1. /\ passed \in Reader /\ passed.seen = rd.seen /\ passed.pending = rest
          /\ passed.scope = rd.scope /\ passed.parent = rd.parent /\ passed.cursor = rd.cursor
          /\ passed.course = rd.course /\ passed.phase = "READING" /\ passed.unread = rd.unread
          /\ passed.parents = rd.parents
          /\ passed.cause = rd.cause /\ passed.coverage = rd.coverage /\ passed.short = rd.short
          /\ passed.owed = rd.owed
      BY ZenonT(60), <1>1 DEF Fits, Reader
    <2>2. g = passed
      BY <1>6 DEF Stored, rest
    <2> HIDE DEF passed, g
    <2>3. Fits(passed)
      BY <1>1, <1>6, <2>1 DEF Fits
    <2>4. Frontier(passed) = Frontier(rd)
      BY <2>1 DEF Frontier
    <2> QED
      BY <1>6, <2>1, <2>2, <2>3, <2>4 DEF Goes, Honest, g, item
  <1>7. CASE rd.scope # "availability" /\ item \in Range(rd.seen)
    <2> DEFINE h == Partial(passed, "duplicate")
    <2>1. /\ h \in Reader /\ h.seen = rd.seen /\ h.pending = rest
          /\ h.scope = rd.scope /\ h.parent = rd.parent /\ h.cursor = rd.cursor
          /\ h.course = rd.course /\ h.phase = "READING" /\ h.unread = rd.unread
          /\ h.parents = rd.parents
          /\ h.cause = "duplicate" /\ h.coverage = "PARTIAL"
          /\ h.owed = rd.owed
      BY ZenonT(60), <1>1 DEF Fits, Reader, Partial, Coverage
    <2>2. g = h
      BY <1>7 DEF Stored, rest
    <2> HIDE DEF h, g, passed
    <2>3. Fits(h)
      BY <1>1, <2>1 DEF Fits, Listing
    <2>4. Frontier(h) = Frontier(rd)
      BY <2>1 DEF Frontier
    <2> QED
      BY <1>7, <2>1, <2>2, <2>3, <2>4 DEF Goes, Honest, g, item, Listing
  <1>8. CASE rd.scope = "content" /\ item \notin Range(rd.seen) /\ Len(rd.seen) >= nodes
    <2>1. g = [Partial(rd, "node_limit") EXCEPT !.phase = "READ"]
      BY <1>8 DEF Stored
    <2> HIDE DEF g
    <2> QED
      BY <1>8, <2>1, StopGoes DEF g, item
  <1>9. CASE /\ rd.scope # "availability" /\ item \notin Range(rd.seen)
             /\ ~(rd.scope = "content" /\ Len(rd.seen) >= nodes)
    <2> DEFINE more == Append(rd.seen, item)
               listed == [rd EXCEPT !.pending = rest, !.seen = more, !.owed = @ \ {item}]
    <2>1. more \in Seq(ItemsOf(rd.scope)) /\ more # <<>>
      <3> HIDE DEF more
      <3>1. rd.seen \in Seq(ItemsOf(rd.scope))
        BY DEF Fits
      <3> QED
        BY <1>2, <3>1, OneMore DEF more
    <2>2. more \in Seq(Course \cup Node \cup Item)
      BY <1>4, <2>1
    <2> HIDE DEF more
    <2>3. rd.coverage = "COMPLETE" => rd.owed \ {item} \subseteq Range(rest)
      BY <1>3 DEF Honest
    <2>4. CASE rd.scope = "content" /\ item \in Container
      <3> DEFINE folders == Append(rd.parents, item)
                 places == rd.unread \cup {<<item, Start>>}
                 h == [listed EXCEPT !.parents = folders, !.unread = places]
      <3>1. item \in Node /\ rd.parents \in Seq(Node)
        BY <2>4, ItemsTyped DEF Fits, Reader
      <3>2. folders \in Seq(Node) /\ Range(folders) = Range(rd.parents) \cup {item}
        BY <3>1, OneMore
      <3>3. places \in SUBSET ((Node \cup {Root}) \X (Cursor \cup {Start, End}))
        BY <3>1 DEF Fits, Reader
      <3> HIDE DEF folders, places
      <3>4. /\ h \in Reader /\ h.seen = more /\ h.pending = rest
            /\ h.scope = rd.scope /\ h.parent = rd.parent /\ h.cursor = rd.cursor
            /\ h.course = rd.course /\ h.phase = "READING" /\ h.unread = places
            /\ h.parents = folders
            /\ h.cause = rd.cause /\ h.coverage = rd.coverage /\ h.short = rd.short
            /\ h.owed = rd.owed \ {item}
        BY ZenonT(60), <1>1, <2>2, <3>2, <3>3 DEF Fits, Reader
      <3>5. g = h
        BY <1>9, <2>4 DEF Stored, rest, more, folders, places
      <3> HIDE DEF h, g, listed
      <3>6. Fits(h)
        BY <1>1, <2>1, <2>4, <3>4 DEF Fits
      <3>7. rd.cause = "none" => places \subseteq Frontier(h)
        <4>1. rd.cause = "none" => rd.unread \subseteq Frontier(rd)
          BY DEF Honest
        <4>2. Frontier(rd) \subseteq Frontier(h) /\ <<item, Start>> \in Frontier(h)
          BY <3>2, <3>4 DEF Frontier
        <4> QED
          BY <4>1, <4>2 DEF places
      <3>8. Range(rest) \subseteq Awaited(h)
        BY <2>4, <3>4 DEF Awaited, Subject, Listing
      <3> QED
        BY <1>9, <2>1, <2>3, <2>4, <3>4, <3>5, <3>6, <3>7, <3>8 DEF Goes, Honest, g, item
    <2>5. CASE ~(rd.scope = "content" /\ item \in Container)
      <3>1. /\ listed \in Reader /\ listed.seen = more /\ listed.pending = rest
            /\ listed.scope = rd.scope /\ listed.parent = rd.parent /\ listed.cursor = rd.cursor
            /\ listed.course = rd.course /\ listed.phase = "READING" /\ listed.unread = rd.unread
            /\ listed.parents = rd.parents
            /\ listed.cause = rd.cause /\ listed.coverage = rd.coverage /\ listed.short = rd.short
            /\ listed.owed = rd.owed \ {item}
        BY ZenonT(60), <1>1, <2>2 DEF Fits, Reader
      <3>2. g = listed
        BY <1>9, <2>5 DEF Stored, rest, more
      <3> HIDE DEF g, listed
      <3>3. Fits(listed)
        BY <1>1, <2>1, <3>1 DEF Fits, Listing
      <3>4. Frontier(listed) = Frontier(rd)
        BY <3>1 DEF Frontier
      <3>5. Range(rest) \subseteq Awaited(listed)
        BY <3>1 DEF Awaited, Subject, Listing
      <3> QED
        BY <1>9, <2>1, <2>3, <3>1, <3>2, <3>3, <3>4, <3>5 DEF Goes, Honest, g, item, Listing
    <2> QED
      BY <2>4, <2>5
  <1> QED
    BY <1>5, <1>6, <1>7, <1>8, <1>9 DEF Listing

LEMMA SubjectsTyped ==
  ASSUME NEW rd, NEW e \in EntriesOf(rd.scope) \cup {Bad}
  PROVE  Subject(rd, e) \in Course \cup Node \cup Item \cup {Bad}
  <1>1. CASE e = Bad
    BY <1>1 DEF Subject
  <1>2. CASE e # Bad /\ rd.scope \in Listing
    BY <1>2 DEF Subject, Listing, EntriesOf
  <1>3. CASE e # Bad /\ rd.scope \notin Listing
    <2>1. e \in Thing \X Text
      BY <1>3 DEF EntriesOf, Listing
    <2>2. e[1] \in Item \cup Node
      BY <2>1, ItemsTyped DEF Thing
    <2> QED
      BY <1>3, <2>2 DEF Subject
  <1> QED
    BY <1>1, <1>2, <1>3

\* What the source answers
LEMMA PagesTyped ==
  ASSUME NEW rd, rd.scope # "assessments", NEW flaws, NEW page \in Pages(rd, flaws)
  PROVE  /\ page.items \in Seq(EntriesOf(rd.scope) \cup {Bad})
         /\ page.items \in Seq((Thing \X Text) \cup Course \cup Node \cup {Bad})
         /\ page.coverage \in {"COMPLETE", "PARTIAL", "UNKNOWN"}
         /\ page.next \in Cursor \cup {End}
  <1>1. Listable(rd) \subseteq EntriesOf(rd.scope)
    <2>1. CASE rd.scope \in Listing
      BY <2>1 DEF Listable, EntriesOf, Listing
    <2>2. CASE rd.scope \notin Listing
      <3>1. ASSUME NEW i \in Item PROVE {i} \X TextOf[i] \subseteq Thing \X Text
        <4>1. i \in Thing /\ TextOf[i] \in Range(TextOf)
          BY KindsTyped DEF Thing, Range
        <4> QED
          BY <4>1 DEF Text
      <3>2. Listable(rd) = UNION {{i} \X TextOf[i] : i \in
                                   {j \in Item : HomeOf[j] = rd.course /\ KindOf[j] = rd.scope}}
        BY <2>2 DEF Listable, Listing
      <3>3. EntriesOf(rd.scope) = Thing \X Text
        BY <2>2 DEF EntriesOf, Listing
      <3> QED
        BY <3>1, <3>2, <3>3
    <2> QED
      BY <2>1, <2>2
  <1> DEFINE L == Listable(rd) \cup {Bad}
             E == EntriesOf(rd.scope) \cup {Bad}
             A == (Thing \X Text) \cup Course \cup Node \cup {Bad}
  <1>2. L \subseteq E /\ E \subseteq A
    BY <1>1, ItemsTyped
  <1>3. /\ page.items \in UNION {[1..n -> L] : n \in 0..MaxItems}
        /\ page.coverage \in Coverage \ {"FAILED"} /\ page.next \in Cursor \cup {End}
    BY DEF Pages
  <1> HIDE DEF L, E, A
  <1>4. page.items \in Seq(L)
    <2>1. PICK n \in 0..MaxItems : page.items \in [1..n -> L]
      BY <1>3
    <2>2. n \in Nat
      BY BoundsTyped
    <2> QED
      BY <2>1, <2>2
  <1>5. page.items \in Seq(E) /\ page.items \in Seq(A)
    BY <1>2, <1>4, Larger
  <1> QED
    BY <1>3, <1>5 DEF E, A, Coverage

\* The history of a page that is read
LEMMA TurningTyped ==
  ASSUME NEW rd, Fits(rd), Honest(rd), rd.phase = "READING", rd.pending = <<>>,
         rd.scope # "assessments", NEW page,
         page.items \in Seq(EntriesOf(rd.scope) \cup {Bad}), page.next \in Cursor \cup {End},
         page.coverage \in {"COMPLETE", "PARTIAL", "UNKNOWN"}
  PROVE  LET g == Turning(rd, page)
             subjects == {Subject(rd, e) : e \in Range(page.items)}
         IN
         /\ g \in Reader /\ g.seen = rd.seen /\ g.pending = rd.pending /\ g.scope = rd.scope
         /\ g.course = rd.course /\ g.phase = rd.phase /\ g.parents = rd.parents
         /\ g.parent = rd.parent /\ g.pages = rd.pages /\ g.cursors = rd.cursors
         /\ g.cursor = rd.cursor /\ g.cause = rd.cause /\ g.coverage = rd.coverage
         /\ (rd.scope = "content" => rd.cause = "none") =>
              g.unread \subseteq {place \in {<<rd.parent, page.next>>} : page.next # End}
                                   \cup (Range(rd.parents) \X {Start})
         /\ rd.coverage = "COMPLETE" => g.owed \subseteq subjects
         /\ rd.scope = "availability" => g.owed = {}
         /\ rd.coverage = "COMPLETE" /\ page.coverage = "COMPLETE" => ~g.short
  <1> DEFINE subjects == {Subject(rd, e) : e \in Range(page.items)}
             unread == (rd.unread \cup ({rd.parent} \X ({page.next} \ {End})))
                         \ {<<rd.parent, rd.cursor>>}
             owed == rd.owed \cup (IF rd.scope = "availability" THEN {} ELSE subjects)
             short == rd.short \/ page.coverage # "COMPLETE"
             g == Turning(rd, page)
  <1>1. subjects \subseteq Course \cup Node \cup Item \cup {Bad}
    <2>1. Range(page.items) \subseteq EntriesOf(rd.scope) \cup {Bad}
      BY Members
    <2> QED
      BY <2>1, SubjectsTyped
  <1>2. unread \in SUBSET ((Node \cup {Root}) \X (Cursor \cup {Start, End}))
    BY DEF Fits, Reader
  <1>3. rd.coverage = "COMPLETE" => rd.owed = {}
    <2>1. Awaited(rd) = {}
      BY DEF Awaited, Range
    <2> QED
      BY <2>1 DEF Honest
  <1>4. /\ owed \in SUBSET (Course \cup Node \cup Item \cup {Bad})
        /\ rd.coverage = "COMPLETE" => owed \subseteq subjects
        /\ rd.scope = "availability" => owed = {}
    <2> HIDE DEF subjects
    <2> QED
      BY <1>1, <1>3 DEF Fits, Reader, Honest
  <1>5. (rd.scope = "content" => rd.cause = "none") =>
          unread \subseteq {place \in {<<rd.parent, page.next>>} : page.next # End}
                             \cup (Range(rd.parents) \X {Start})
    BY DEF Honest, Frontier
  <1>6. CASE rd.coverage = "COMPLETE" /\ page.coverage = "COMPLETE"
    <2> DEFINE h == [rd EXCEPT !.unread = unread, !.owed = owed, !.short = FALSE]
    <2>1. short = FALSE
      BY <1>6 DEF Honest
    <2>2. g = [rd EXCEPT !.unread = unread, !.owed = owed, !.short = short]
      BY DEF Turning
    <2> HIDE DEF short, unread, owed, g
    <2>3. g = h
      BY <2>1, <2>2
    <2>4. /\ h.seen = rd.seen /\ h.pending = rd.pending /\ h.scope = rd.scope
          /\ h.course = rd.course /\ h.phase = rd.phase /\ h.parents = rd.parents
          /\ h.parent = rd.parent /\ h.pages = rd.pages /\ h.cursors = rd.cursors
          /\ h.cursor = rd.cursor /\ h.cause = rd.cause /\ h.coverage = rd.coverage
          /\ h.unread = unread /\ h.owed = owed /\ ~h.short
      BY DEF Fits, Reader
    <2>6. h \in Reader
      BY ZenonT(60), <1>2, <1>4 DEF Fits, Reader
    <2> HIDE DEF h
    <2>5. /\ g \in Reader /\ g.seen = rd.seen /\ g.pending = rd.pending /\ g.scope = rd.scope
          /\ g.course = rd.course /\ g.phase = rd.phase /\ g.parents = rd.parents
          /\ g.parent = rd.parent /\ g.pages = rd.pages /\ g.cursors = rd.cursors
          /\ g.cursor = rd.cursor /\ g.cause = rd.cause /\ g.coverage = rd.coverage
          /\ g.unread = unread /\ g.owed = owed /\ ~g.short
      BY <2>3, <2>4, <2>6
    <2> QED
      BY <2>5, <1>4, <1>5 DEF g
  <1>7. CASE ~(rd.coverage = "COMPLETE" /\ page.coverage = "COMPLETE")
    <2>1. short \in BOOLEAN
      OBVIOUS
    <2>2. g = [rd EXCEPT !.unread = unread, !.owed = owed, !.short = short]
      BY DEF Turning
    <2> HIDE DEF short, unread, owed, g
    <2>3. /\ g \in Reader /\ g.seen = rd.seen /\ g.pending = rd.pending /\ g.scope = rd.scope
          /\ g.course = rd.course /\ g.phase = rd.phase /\ g.parents = rd.parents
          /\ g.parent = rd.parent /\ g.pages = rd.pages /\ g.cursors = rd.cursors
          /\ g.cursor = rd.cursor /\ g.cause = rd.cause /\ g.coverage = rd.coverage
          /\ g.unread = unread /\ g.owed = owed
      BY ZenonT(60), <1>2, <1>4, <2>1, <2>2 DEF Fits, Reader
    <2> QED
      BY <1>7, <2>3, <1>4, <1>5 DEF g
  <1> QED
    BY <1>6, <1>7

\* A page that is read
LEMMA ReadGoes ==
  ASSUME NEW rd, Fits(rd), Honest(rd), rd.phase = "READING", rd.pending = <<>>,
         rd.scope # "assessments", NEW flaws, NEW page \in Pages(rd, flaws)
  PROVE  Goes(rd, Read(rd, page)) /\ Read(rd, page).seen = rd.seen
  <1> DEFINE t == Turning(rd, page)
             visited == rd.cursors \cup {rd.cursor}
             counted == [t EXCEPT !.pages = rd.pages + 1, !.cursors = visited, !.cursor = page.next]
             c == Merged(rd, page.coverage)
             merged == [counted EXCEPT !.coverage = c]
             filled == [merged EXCEPT !.pending = page.items]
             subjects == {Subject(rd, e) : e \in Range(page.items)}
             ahead == {place \in {<<rd.parent, page.next>>} : page.next # End}
                        \cup (Range(rd.parents) \X {Start})
  <1>1. /\ page.items \in Seq(EntriesOf(rd.scope) \cup {Bad})
        /\ page.items \in Seq((Thing \X Text) \cup Course \cup Node \cup {Bad})
        /\ page.coverage \in {"COMPLETE", "PARTIAL", "UNKNOWN"}
        /\ page.next \in Cursor \cup {End}
    BY PagesTyped
  <1>2. /\ t \in Reader /\ t.seen = rd.seen /\ t.pending = rd.pending /\ t.scope = rd.scope
        /\ t.course = rd.course /\ t.phase = rd.phase /\ t.parents = rd.parents
        /\ t.parent = rd.parent /\ t.pages = rd.pages /\ t.cursors = rd.cursors
        /\ t.cursor = rd.cursor /\ t.cause = rd.cause /\ t.coverage = rd.coverage
        /\ (rd.scope = "content" => rd.cause = "none") => t.unread \subseteq ahead
        /\ rd.coverage = "COMPLETE" => t.owed \subseteq subjects
        /\ rd.scope = "availability" => t.owed = {}
        /\ rd.coverage = "COMPLETE" /\ page.coverage = "COMPLETE" => ~t.short
    BY <1>1, TurningTyped
  <1>3. /\ c \in Coverage
        /\ c = "COMPLETE" => rd.coverage = "COMPLETE" /\ page.coverage = "COMPLETE"
        /\ c = "FAILED" => rd.coverage = "FAILED"
    BY <1>1, <1>2 DEF Merged, Coverage, Fits, Reader
  <1>4. visited \in SUBSET (Cursor \cup {Start, End}) /\ rd.pages + 1 \in Nat
        /\ page.next \in Cursor \cup {Start, End}
    BY <1>1 DEF Fits, Reader
  <1>5. Read(rd, page) =
          IF Refused(rd, page.coverage) THEN Failed(counted)
          ELSE IF rd.scope \in EventScope /\ page.items = <<>> /\ page.next # End
          THEN [Partial(merged, "empty_page") EXCEPT !.phase = "READ"]
          ELSE Turned(filled)
    BY <1>2 DEF Read
  <1> HIDE DEF t, visited, c, ahead, subjects
  <1>6. /\ counted \in Reader /\ counted.seen = rd.seen /\ counted.pending = rd.pending
        /\ counted.scope = rd.scope /\ counted.course = rd.course /\ counted.phase = rd.phase
        /\ counted.parents = rd.parents /\ counted.parent = rd.parent
        /\ counted.cursor = page.next /\ counted.cause = rd.cause /\ counted.coverage = rd.coverage
        /\ counted.unread = t.unread /\ counted.owed = t.owed /\ counted.short = t.short
    BY ZenonT(60), <1>2, <1>4 DEF Reader
  <1> HIDE DEF counted
  <1>7. /\ merged \in Reader /\ merged.seen = rd.seen /\ merged.pending = rd.pending
        /\ merged.scope = rd.scope /\ merged.course = rd.course /\ merged.phase = rd.phase
        /\ merged.parents = rd.parents /\ merged.parent = rd.parent
        /\ merged.cursor = page.next /\ merged.cause = rd.cause /\ merged.coverage = c
        /\ merged.unread = t.unread /\ merged.owed = t.owed /\ merged.short = t.short
    BY ZenonT(60), <1>3, <1>6 DEF Reader
  <1> HIDE DEF merged
  <1>8. /\ filled \in Reader /\ filled.seen = rd.seen /\ filled.pending = page.items
        /\ filled.scope = rd.scope /\ filled.course = rd.course /\ filled.phase = rd.phase
        /\ filled.parents = rd.parents /\ filled.parent = rd.parent
        /\ filled.cursor = page.next /\ filled.cause = rd.cause /\ filled.coverage = c
        /\ filled.unread = t.unread /\ filled.owed = t.owed /\ filled.short = t.short
    BY ZenonT(60), <1>1, <1>7 DEF Reader
  <1> HIDE DEF filled
  <1>9. rd.coverage # "FAILED"
    BY DEF Honest
  <1>10. CASE Refused(rd, page.coverage)
    <2>1. Fits(counted)
      BY <1>6, FitsAlike
    <2>2. Frontier(counted) = ahead
      BY <1>6 DEF Frontier, ahead
    <2>3. Honest(counted)
      BY <1>2, <1>6, <1>9, <1>10, <2>2 DEF Honest, Refused
    <2>4. Goes(counted, Failed(counted)) /\ Failed(counted).seen = counted.seen
      BY <2>1, <2>3, FailedGoes
    <2> QED
      BY <1>5, <1>6, <1>10, <2>4 DEF Goes
  <1>11. CASE /\ ~Refused(rd, page.coverage)
              /\ rd.scope \in EventScope /\ page.items = <<>> /\ page.next # End
    <2>1. Fits(merged)
      BY <1>7, FitsAlike
    <2>2. Frontier(merged) = ahead
      BY <1>7 DEF Frontier, ahead
    <2>3. subjects = {}
      BY <1>11 DEF subjects, Range
    <2>4. Honest(merged)
      <3>1. rd.coverage = "COMPLETE" => rd.cause = "none"
        BY DEF Honest
      <3> QED
        BY <1>2, <1>3, <1>7, <1>9, <2>2, <2>3, <3>1 DEF Honest
    <2>5. Read(rd, page) = [Partial(merged, "empty_page") EXCEPT !.phase = "READ"]
      BY <1>5, <1>11
    <2>6. Goes(merged, Read(rd, page)) /\ Read(rd, page).seen = merged.seen
      BY <2>1, <2>4, <2>5, StopGoes
    <2> QED
      BY <1>7, <2>6 DEF Goes
  <1>12. CASE /\ ~Refused(rd, page.coverage)
              /\ ~(rd.scope \in EventScope /\ page.items = <<>> /\ page.next # End)
    <2>1. Fits(filled)
      BY <1>1, <1>8 DEF Fits
    <2>2. Frontier(filled) = ahead
      BY <1>8 DEF Frontier, ahead
    <2>3. Awaited(filled) = subjects
      BY <1>8 DEF Awaited, Subject, subjects
    <2>4. Honest(filled)
      <3>1. rd.coverage = "COMPLETE" => rd.cause = "none"
        BY DEF Honest
      <3> QED
        BY <1>2, <1>3, <1>8, <1>9, <2>2, <2>3, <3>1 DEF Honest
    <2>5. Read(rd, page) = Turned(filled)
      BY <1>5, <1>12
    <2>6. Goes(filled, Read(rd, page)) /\ Read(rd, page).seen = filled.seen
      BY <1>8, <2>1, <2>4, <2>5, TurnedGoes
    <2> QED
      BY <1>8, <2>6 DEF Goes
  <1> QED
    BY <1>10, <1>11, <1>12

\* A cursor that was read before
LEMMA CycleGoes ==
  ASSUME NEW rd, Fits(rd), Honest(rd), rd.phase = "READING", rd.pending = <<>>,
         rd.scope # "assessments"
  PROVE  LET p == Partial(rd, "cycle")
             g == IF rd.scope = "content" THEN NextParent(p) ELSE [p EXCEPT !.phase = "READ"]
         IN Goes(rd, g) /\ g.seen = rd.seen
  <1> DEFINE p == Partial(rd, "cycle")
  <1>1. CASE rd.scope = "content"
    <2>1. /\ p \in Reader /\ p.scope = rd.scope /\ p.course = rd.course /\ p.phase = "READING"
          /\ p.seen = rd.seen /\ p.pending = rd.pending /\ p.parents = rd.parents
          /\ p.cause = "cycle" /\ p.coverage = "PARTIAL"
      BY ZenonT(60) DEF Fits, Partial, Reader, Coverage
    <2> HIDE DEF p
    <2>2. Fits(p)
      BY <2>1, FitsAlike
    <2>3. Honest(p)
      BY <1>1, <2>1 DEF Honest
    <2>4. Goes(p, NextParent(p)) /\ NextParent(p).seen = p.seen
      BY <1>1, <2>1, <2>2, <2>3, NextParentGoes
    <2> QED
      BY <1>1, <2>1, <2>4 DEF Goes, p
  <1>2. CASE rd.scope # "content"
    <2> DEFINE g == [p EXCEPT !.phase = "READ"]
    <2>1. Goes(rd, g) /\ g.seen = rd.seen
      <3>1. g = [Partial(rd, "cycle") EXCEPT !.phase = "READ"]
        OBVIOUS
      <3> HIDE DEF g
      <3> QED
        BY <3>1, StopGoes
    <2> QED
      BY <1>2, <2>1
  <1> QED
    BY <1>1, <1>2

\* The record of an assessment that is read, not stored yet
LEMMA RecordGoes ==
  ASSUME NEW rd, Fits(rd), Honest(rd), rd.phase = "READING", rd.pending = <<>>,
         rd.scope = "assessments", rd.parents # <<>>, NEW t \in TextOf[Head(rd.parents)]
  PROVE  LET g == [rd EXCEPT !.parents = Tail(@), !.pending = <<<<Head(rd.parents), t>>>>] IN
         Goes(rd, g) /\ g.seen = rd.seen /\ Awaited(g) = Awaited(rd) /\ g.coverage = rd.coverage
  <1> DEFINE first == Head(rd.parents)
             rest == Tail(rd.parents)
             record == <<<<first, t>>>>
             g == [rd EXCEPT !.parents = rest, !.pending = record]
  <1>1. /\ first \in Assessment /\ rest \in Seq(Assessment) /\ rest \in Seq(Node)
        /\ Range(rd.parents) = {first} \cup Range(rest)
    <2>1. rd.parents \in Seq(Assessment)
      BY DEF Fits
    <2>2. first \in Assessment /\ rest \in Seq(Assessment) /\ Range(rd.parents) = {first} \cup Range(rest)
      BY <2>1, FirstAndRest
    <2> QED
      BY <2>2, ItemsTyped, Larger
  <1>2. <<first, t>> \in Thing \X Text
    <2>1. first \in Thing /\ TextOf[first] \in Range(TextOf)
      BY <1>1, KindsTyped DEF Thing, Range
    <2> QED
      BY <2>1 DEF Text
  <1>3. /\ record \in Seq(EntriesOf(rd.scope) \cup {Bad})
        /\ record \in Seq((Thing \X Text) \cup Course \cup Node \cup {Bad})
        /\ record # <<>> /\ Range(record) = {<<first, t>>}
    <2> DEFINE e == <<first, t>>
    <2>1. e \in EntriesOf(rd.scope) /\ e \in Thing \X Text
      BY <1>2 DEF EntriesOf
    <2> HIDE DEF e
    <2>2. Range(<<e>>) = {e}
      BY DEF Range
    <2> QED
      BY <2>1, <2>2 DEF e
  <1>4. Subject(rd, <<first, t>>) = first
    BY <1>2, NamesApart DEF Subject, Listing
  <1> HIDE DEF first, rest, record
  <1>5. /\ g \in Reader /\ g.seen = rd.seen /\ g.pending = record
        /\ g.scope = rd.scope /\ g.course = rd.course /\ g.phase = rd.phase
        /\ g.parents = rest /\ g.parent = rd.parent
        /\ g.cursor = rd.cursor /\ g.cause = rd.cause /\ g.coverage = rd.coverage
        /\ g.unread = rd.unread /\ g.owed = rd.owed /\ g.short = rd.short
    BY ZenonT(60), <1>1, <1>3 DEF Fits, Reader
  <1> HIDE DEF g
  <1>6. Fits(g)
    BY <1>1, <1>3, <1>5 DEF Fits
  <1>7. Awaited(rd) = {first} \cup Range(rest)
    <2>1. Range(rd.pending) = {}
      BY DEF Range
    <2> QED
      BY <1>1, <2>1 DEF Awaited
  <1>8. Awaited(g) = {Subject(rd, <<first, t>>)} \cup Range(rest)
    BY <1>3, <1>5 DEF Awaited, Subject
  <1> QED
    BY <1>3, <1>4, <1>5, <1>6, <1>7, <1>8 DEF Goes, Honest, g, first, rest, record

\* The instant of a record
LEMMA StampGoes ==
  ASSUME NEW rd, Fits(rd), Honest(rd), rd.phase # "CLOSED", NEW n \in Nat
  PROVE  LET g == [rd EXCEPT !.stamp = n] IN
         Goes(rd, g) /\ g.seen = rd.seen /\ Awaited(g) = Awaited(rd) /\ g.coverage = rd.coverage
  <1> DEFINE g == [rd EXCEPT !.stamp = n]
  <1>1. /\ g \in Reader /\ g.seen = rd.seen /\ g.pending = rd.pending
        /\ g.scope = rd.scope /\ g.course = rd.course /\ g.phase = rd.phase
        /\ g.parents = rd.parents /\ g.parent = rd.parent /\ g.traversed = rd.traversed
        /\ g.cursor = rd.cursor /\ g.cause = rd.cause /\ g.coverage = rd.coverage
        /\ g.unread = rd.unread /\ g.owed = rd.owed /\ g.short = rd.short
    BY ZenonT(60) DEF Fits, Reader
  <1> HIDE DEF g
  <1>2. Fits(g) /\ Awaited(g) = Awaited(rd)
    BY <1>1, FitsAlike
  <1>3. Frontier(g) = Frontier(rd)
    BY <1>1 DEF Frontier
  <1> QED
    BY <1>1, <1>2, <1>3 DEF Goes, Honest, g

\* A record that is stored
LEMMA ObservedGoes ==
  ASSUME NEW rd, Fits(rd), Honest(rd), rd.phase = "READING", rd.scope \in EventScope,
         rd.pending # <<>>, Head(rd.pending) # Bad
  PROVE  LET thing == Head(rd.pending)[1]
             g == Turned([rd EXCEPT !.pending = Tail(@), !.stamp = 0,
                                    !.seen = Append(@, thing), !.owed = @ \ {thing}])
         IN
         /\ thing \in Thing /\ Head(rd.pending)[2] \in Text
         /\ Goes(rd, g) /\ g.seen # <<>>
         /\ rd.scope = "assessments" =>
              /\ g.coverage = rd.coverage
              /\ Awaited(rd) \cup Range(rd.seen) \subseteq Awaited(g) \cup Range(g.seen)
  <1> DEFINE thing == Head(rd.pending)[1]
             rest == Tail(rd.pending)
             more == Append(rd.seen, thing)
             owed == rd.owed \ {thing}
             h == [rd EXCEPT !.pending = rest, !.stamp = 0, !.seen = more, !.owed = owed]
             g == Turned(h)
  <1>1. /\ Head(rd.pending) \in Thing \X Text
        /\ rest \in Seq(EntriesOf(rd.scope) \cup {Bad})
        /\ Range(rd.pending) = {Head(rd.pending)} \cup Range(rest)
        /\ rest \in Seq((Thing \X Text) \cup Course \cup Node \cup {Bad})
    BY PassedFits DEF EntriesOf, EventScope
  <1>2. thing \in Thing /\ Head(rd.pending)[2] \in Text
    BY <1>1
  <1>3. Subject(rd, Head(rd.pending)) = thing
    BY DEF Subject, EventScope, Listing
  <1>4. ItemsOf(rd.scope) = Thing
    BY DEF ItemsOf, EventScope
  <1>5. more \in Seq(ItemsOf(rd.scope)) /\ Range(more) = Range(rd.seen) \cup {thing} /\ more # <<>>
    <2>1. rd.seen \in Seq(Thing)
      BY <1>4 DEF Fits
    <2> HIDE DEF thing
    <2> QED
      BY <1>2, <1>4, <2>1, OneMore
  <1>6. more \in Seq(Course \cup Node \cup Item)
    <2>1. ItemsOf(rd.scope) \subseteq Course \cup Node \cup Item
      BY ItemsTyped
    <2> HIDE DEF more
    <2> QED
      BY <1>5, <2>1, Larger
  <1>7. owed \in SUBSET (Course \cup Node \cup Item \cup {Bad}) /\ owed \subseteq rd.owed
        /\ thing \notin owed
    BY DEF Fits, Reader
  <1>8. Awaited(rd) = {thing} \cup {Subject(rd, e) : e \in Range(rest)}
                        \cup {n \in Range(rd.parents) : rd.scope = "assessments"}
    BY <1>1, <1>3 DEF Awaited
  <1> HIDE DEF thing, rest, more, owed
  <1>9. /\ h \in Reader /\ h.seen = more /\ h.pending = rest
        /\ h.scope = rd.scope /\ h.course = rd.course /\ h.phase = rd.phase
        /\ h.parents = rd.parents /\ h.parent = rd.parent
        /\ h.cursor = rd.cursor /\ h.cause = rd.cause /\ h.coverage = rd.coverage
        /\ h.unread = rd.unread /\ h.owed = owed /\ h.short = rd.short
    BY ZenonT(60), <1>1, <1>6, <1>7 DEF Fits, Reader
  <1>10. g = Turned([rd EXCEPT !.pending = Tail(@), !.stamp = 0,
                               !.seen = Append(@, Head(rd.pending)[1]),
                               !.owed = @ \ {Head(rd.pending)[1]}])
    BY DEF thing, rest, more, owed
  <1> HIDE DEF h
  <1>11. Awaited(h) = {Subject(rd, e) : e \in Range(rest)}
                        \cup {n \in Range(rd.parents) : rd.scope = "assessments"}
    BY <1>9 DEF Awaited, Subject
  <1>12. Fits(h)
    BY <1>1, <1>5, <1>9 DEF Fits
  <1>13. Frontier(h) = Frontier(rd)
    BY <1>9 DEF Frontier
  <1>14. Honest(h)
    <2>1. rd.coverage = "COMPLETE" => owed \subseteq Awaited(h)
      BY <1>7, <1>8, <1>11 DEF Honest
    <2> QED
      BY <1>9, <1>13, <2>1 DEF Honest, EventScope
  <1>15. /\ Goes(h, g) /\ g.seen = h.seen /\ g.pending = h.pending
         /\ rd.scope = "assessments" => g.parents = h.parents
         /\ rd.scope = "assessments" => g.coverage = h.coverage
    BY <1>9, <1>12, <1>14, TurnedGoes
  <1> HIDE DEF g
  <1>16. rd.scope = "assessments" => Awaited(g) = Awaited(h)
    BY <1>9, <1>15 DEF Awaited, Subject, Goes
  <1>17. Goes(rd, g) /\ g.seen # <<>> /\ g.seen = more
    BY <1>5, <1>9, <1>15 DEF Goes
  <1> QED
    BY <1>2, <1>5, <1>8, <1>9, <1>10, <1>11, <1>15, <1>16, <1>17 DEF thing

\* Scopes whose reading begins
LEMMA NoReaderFits ==
  /\ Fits(NoReader) /\ Honest(NoReader) /\ NoReader.phase = "CLOSED"
  /\ NoReader \in Reader
  <1>1. NoReader \in Reader
    BY DEF NoReader, Reader, Listing, EventScope, Coverage
  <1> QED
    BY <1>1 DEF Fits, Honest, NoReader

LEMMA OpenListingGoes ==
  ASSUME NEW g \in Reader, g.seen = <<>>, g.pending = <<>>, g.parents = <<>>,
         g.phase = "READING", g.coverage = "COMPLETE", g.cause = "none", g.scope # "assessments",
         g.parent = Root, g.cursor = Start, g.unread = {<<Root, Start>>}, g.owed = {}, ~g.short
  PROVE  Fits(g) /\ Honest(g)
  <1>1. Fits(g)
    BY DEF Fits
  <1>2. Frontier(g) = {<<Root, Start>>}
    BY NamesApart DEF Frontier, Range
  <1> QED
    BY <1>1, <1>2 DEF Honest

LEMMA OpenAssessmentsGoes ==
  ASSUME NEW h \in Reader, h.seen = <<>>, h.pending = <<>>, h.parents \in Seq(Assessment),
         h.phase = "READING", h.coverage # "FAILED", h.cause = "none", h.scope = "assessments",
         h.unread = {}, h.owed = Range(h.parents), ~h.short
  PROVE  LET g == Turned(h) IN
         /\ Goes(h, g) /\ g.coverage = h.coverage /\ Range(h.parents) \subseteq Awaited(g)
         /\ g.seen = <<>>
  <1> DEFINE g == Turned(h)
  <1>1. Fits(h)
    BY DEF Fits
  <1>2. Range(h.parents) \subseteq Awaited(h)
    BY DEF Awaited
  <1>3. Honest(h)
    BY <1>2 DEF Honest
  <1>4. /\ Goes(h, g) /\ g.seen = h.seen /\ g.pending = h.pending /\ g.parents = h.parents
        /\ g.coverage = h.coverage
    BY <1>1, <1>3, TurnedGoes
  <1> HIDE DEF g
  <1>5. Awaited(g) = Awaited(h)
    BY <1>4 DEF Awaited, Subject, Goes
  <1> QED
    BY <1>2, <1>4, <1>5 DEF g
-----------------------------------------------------------------------------
(***************************************************************************)
(* The way of a run through its steps.                                     *)
(***************************************************************************)
LEMMA LeastNatural ==
  ASSUME NEW T \in SUBSET Nat, T # {}
  PROVE  \E m \in T : \A n \in T : m <= n
  <1>1. PICK m \in T : \A n \in T : ~(<<n, m>> \in OpToRel(<, Nat))
    <2> DEFINE R == OpToRel(<, Nat)
    <2>1. IsWellFoundedOn(R, Nat)
      BY NatLessThanWellFounded
    <2> HIDE DEF R
    <2>2. \E m \in T : \A n \in T : ~(<<n, m>> \in R)
      BY <2>1, WFMin
    <2> QED
      BY <2>2 DEF R
  <1>2. ASSUME NEW n \in T PROVE m <= n
    <2>1. <<n, m>> \in Nat \X Nat /\ <<n, m>>[1] = n /\ <<n, m>>[2] = m
      OBVIOUS
    <2>2. ~(n < m)
      BY <1>1, <2>1 DEF OpToRel
    <2> QED
      BY <2>2
  <1> QED
    BY <1>2

\* The first step from n on that is done, and the steps before it that are not
LEMMA FromProps ==
  ASSUME NEW rq, NEW n \in 1..EndStep
  PROVE  /\ From(rq, n) \in n..EndStep
         /\ Wanted(rq, Steps[From(rq, n)])
         /\ \A k \in n..(From(rq, n) - 1) : ~Wanted(rq, Steps[k])
  <1> DEFINE T == {m \in n..EndStep : Wanted(rq, Steps[m])}
  <1>1. EndStep \in T
    BY DEF EndStep, Steps, Wanted, EventScope
  <1>2. T \in SUBSET Nat /\ T # {}
    BY <1>1 DEF EndStep
  <1> HIDE DEF T
  <1>3. PICK m \in T : \A k \in T : m <= k
    BY <1>2, LeastNatural
  <1>4. m \in n..EndStep /\ Wanted(rq, Steps[m])
    BY <1>3 DEF T
  <1>5. \A k \in n..(m - 1) : ~Wanted(rq, Steps[k])
    <2> SUFFICES ASSUME NEW k \in n..(m - 1) PROVE ~Wanted(rq, Steps[k])
      OBVIOUS
    <2>1. k \in n..EndStep /\ ~(m <= k)
      BY <1>4 DEF EndStep
    <2> QED
      BY <1>3, <2>1 DEF T
  <1> QED
    BY <1>4, <1>5 DEF From

\* The step that sends a course's events on its way is never left out
LEMMA EventsFirst ==
  ASSUME NEW rq, NEW n \in 1..4
  PROVE  From(rq, n) <= 4
  <1>1. Wanted(rq, Steps[4])
    BY DEF Wanted, Steps, EventScope
  <1>2. n \in 1..EndStep
    BY DEF EndStep
  <1>3. /\ From(rq, n) \in n..EndStep
        /\ \A k \in n..(From(rq, n) - 1) : ~Wanted(rq, Steps[k])
    BY <1>2, FromProps
  <1>4. ~(4 \in n..(From(rq, n) - 1))
    BY <1>1, <1>3
  <1> QED
    BY <1>3, <1>4 DEF EndStep

\* A set in some order
LEMMA InSomeOrder ==
  ASSUME NEW S, IsFiniteSet(S), NEW s \in SetToSeqs(S)
  PROVE  s \in Seq(S) /\ Range(s) = S
  <1> DEFINE n == Cardinality(S)
             D == 1..n
  <1>1. n \in Nat
    BY FS_CardinalityType
  <1>2. s \in [D -> S] /\ \A i, j \in D : i # j => s[i] # s[j]
    BY DEF SetToSeqs
  <1>3. IsFiniteSet(D) /\ Cardinality(D) = n
    <2> HIDE DEF n
    <2> QED
      BY <1>1, FS_Interval
  <1>4. s \in Injection(D, S)
    <2> HIDE DEF D
    <2> QED
      BY <1>2 DEF Injection, IsInjective
  <1>5. s \in Surjection(D, S)
    <2> HIDE DEF D
    <2> QED
      BY <1>3, <1>4, FS_Injection
  <1>6. Range(s) = S
    <2> HIDE DEF D
    <2>1. s \in [D -> S] /\ \A t \in S : \E d \in D : s[d] = t
      BY <1>5, Fun_SurjectionProperties
    <2> QED
      BY <2>1 DEF Range
  <1>7. s \in Seq(S)
    BY <1>1, <1>2
  <1> QED
    BY <1>6, <1>7

LEMMA StepNames ==
  /\ EndStep = 12 /\ ContentStep = 3
  /\ Steps[1] = "courses" /\ Steps[2] = "availability" /\ Steps[3] = "content"
  /\ Steps[4] = "events" /\ Steps[5] = "announcements" /\ Steps[6] = "assessments"
  /\ Steps[7] = "schedule" /\ Steps[8] = "due_items" /\ Steps[9] = "plan"
  /\ Steps[10] = "resources" /\ Steps[11] = "local_jobs" /\ Steps[12] = "end"
  BY DEF Steps, EndStep, ContentStep

\* The locals of a run in any state.  The inventory that lists assessments is
\* one the event sources take; a reader reads the scope of the run's step.
Well(w, stored) ==
  /\ w \in Locals
  /\ Fits(w.reader) /\ Honest(w.reader)
  /\ Range(w.keys) \subseteq stored
  /\ w.step \in 5..8 => Accepts(InventoryCoverage(w))
  /\ w.reader.phase # "CLOSED" => w.reader.scope = Steps[w.step] /\ w.reader.course = w.course

Typed ==
  /\ TypeOK
  /\ \A r \in Run : Well(work[r], DOMAIN observation)
  /\ \A r \in Run : status[r] = "NEW" => work[r] = NoWork

LEMMA InventoryTyped ==
  ASSUME NEW w \in Locals
  PROVE  InventoryCoverage(w) \in Coverage
  <1> DEFINE found == {s \in Range(w.scopes) : s.scope = "content" /\ s.course = w.course}
  <1>1. Range(w.scopes) \subseteq Result
    BY Members DEF Locals
  <1>2. found # {} => (CHOOSE s \in found : TRUE) \in Result
    BY <1>1
  <1> HIDE DEF found
  <1>3. found # {} => (CHOOSE s \in found : TRUE).coverage \in Coverage
    BY <1>2 DEF Result
  <1>4. InventoryCoverage(w) = IF found = {} THEN "UNKNOWN" ELSE (CHOOSE s \in found : TRUE).coverage
    BY DEF InventoryCoverage, found
  <1> QED
    BY <1>3, <1>4 DEF Coverage

LEMMA SameInventory ==
  ASSUME NEW v, NEW w, v.course = w.course,
         \A s : s.scope = "content" => (s \in Range(v.scopes) <=> s \in Range(w.scopes))
  PROVE  InventoryCoverage(v) = InventoryCoverage(w)
  <1> DEFINE F == {s \in Range(v.scopes) : s.scope = "content" /\ s.course = v.course}
             G == {s \in Range(w.scopes) : s.scope = "content" /\ s.course = w.course}
  <1>1. F = G
    OBVIOUS
  <1>2. /\ InventoryCoverage(v) = IF F = {} THEN "UNKNOWN" ELSE (CHOOSE s \in F : TRUE).coverage
        /\ InventoryCoverage(w) = IF G = {} THEN "UNKNOWN" ELSE (CHOOSE s \in G : TRUE).coverage
    BY DEF InventoryCoverage
  <1> HIDE DEF F, G
  <1> QED
    BY <1>1, <1>2

\* A step of a reader
LEMMA ReaderWell ==
  ASSUME NEW w, NEW stored, Well(w, stored), w.reader.phase # "CLOSED",
         NEW g, Goes(w.reader, g)
  PROVE  Well([w EXCEPT !.reader = g], stored)
  <1> DEFINE v == [w EXCEPT !.reader = g]
  <1>1. g \in Reader
    BY DEF Goes, Fits
  <1>2. /\ v \in Locals /\ v.reader = g /\ v.keys = w.keys /\ v.step = w.step
        /\ v.course = w.course /\ v.scopes = w.scopes
    BY <1>1 DEF Well, Locals
  <1> HIDE DEF v
  <1>3. InventoryCoverage(v) = InventoryCoverage(w)
    BY <1>2 DEF InventoryCoverage
  <1> QED
    BY <1>2, <1>3 DEF Well, Goes, v

\* What the steps of a run that are scopes leave behind
LEMMA ConcludedWell ==
  ASSUME Typed, NEW r \in Run, NEW c \in Coverage, NEW seen,
         Doing(r) \in Listing \cup EventScope \cup {"resources", "local_jobs"},
         Doing(r) = "courses" => seen \in Seq(Course),
         Doing(r) = "content" => seen \in Seq(Node)
  PROVE  /\ Well(Concluded(r, c, seen), DOMAIN observation)
         /\ recorded[r][1] <= Len(Concluded(r, c, seen).scopes)
  <1> DEFINE w == work[r]
             scope == Doing(r)
             courses == IF scope = "courses" /\ request[r].kind = "all" THEN seen ELSE <<>>
             n == IF scope = "courses" \/ (scope = "availability" /\ seen = <<>>) THEN EndStep
                  ELSE From(request[r], w.step + 1)
             content == IF scope = "content" THEN Range(seen) ELSE w.content
             listed == w.listed \o courses
             left == w.left \o courses
             result == [scope |-> scope, course |-> Named(scope, w.course, known), coverage |-> c]
             scopes == Append(w.scopes, result)
             v == [w EXCEPT !.reader = NoReader, !.step = n, !.listed = listed, !.left = left,
                            !.content = content, !.scopes = scopes]
  <1>1. /\ w \in Locals /\ Well(w, DOMAIN observation)
        /\ w.step \in 1..EndStep /\ scope = Steps[w.step]
    BY DEF Typed, TypeOK, Doing, Locals
  <1>2. w.step \in 1..11 /\ w.step # 4 /\ (w.step = 3 <=> scope = "content")
    BY SMTT(30), <1>1, StepNames DEF Listing, EventScope
  <1>3. n \in 1..EndStep
    <2>1. w.step + 1 \in 1..EndStep /\ EndStep \in 1..EndStep
      BY <1>2 DEF EndStep
    <2>2. From(request[r], w.step + 1) \in (w.step + 1)..EndStep
      BY <2>1, FromProps
    <2> QED
      BY <1>2, <2>1, <2>2 DEF EndStep
  <1>4. listed \in Seq(Course) /\ left \in Seq(Course)
    <2>1. courses \in Seq(Course)
      OBVIOUS
    <2> HIDE DEF courses
    <2> QED
      BY <1>1, <2>1 DEF Locals
  <1>5. content \in SUBSET Node
    BY <1>1, Members DEF Locals
  <1>6. result \in Result
    BY <1>1 DEF Result, Named, Locals
  <1>7. /\ scopes \in Seq(Result) /\ Len(scopes) = Len(w.scopes) + 1 /\ Len(w.scopes) \in Nat
        /\ Range(scopes) = Range(w.scopes) \cup {result}
    BY <1>1, <1>6, OneMore DEF Locals
  <1>8. result.scope = scope
    OBVIOUS
  <1> HIDE DEF n, listed, left, content, result, scopes
  <1>9. /\ v \in Locals /\ v.reader = NoReader /\ v.keys = w.keys /\ v.step = n
        /\ v.course = w.course /\ v.scopes = scopes
    BY <1>1, <1>3, <1>4, <1>5, <1>7, NoReaderFits DEF Locals
  <1>10. Concluded(r, c, seen) = v
    BY DEF Concluded, n, listed, left, content, result, scopes
  <1> HIDE DEF v
  <1>11. v.step \in 5..8 => Accepts(InventoryCoverage(v))
    <2> SUFFICES ASSUME n \in 5..8 PROVE Accepts(InventoryCoverage(v))
      BY <1>9
    <2>1. n = From(request[r], w.step + 1)
      BY DEF n, EndStep
    <2>2. w.step + 1 \in 1..EndStep
      BY <1>2 DEF EndStep
    <2>3. n >= w.step + 1
      BY SMTT(30), <1>2, <2>1, <2>2, FromProps DEF EndStep
    <2>4. w.step + 1 \in 1..4 => n <= 4
      BY <2>1, EventsFirst
    <2>5. w.step \in 5..8 /\ w.step # 3
      BY <1>2, <2>3, <2>4
    <2>6. Accepts(InventoryCoverage(w))
      BY <1>1, <2>5 DEF Well
    <2>7. result.scope # "content"
      BY <1>2, <1>8, <2>5
    <2>8. InventoryCoverage(v) = InventoryCoverage(w)
      BY <1>7, <1>9, <2>7, SameInventory
    <2> QED
      BY <2>6, <2>8
  <1>12. recorded[r][1] <= Len(w.scopes) /\ recorded[r][1] \in Nat
    BY DEF Typed, TypeOK
  <1> QED
    BY <1>1, <1>7, <1>9, <1>10, <1>11, <1>12, NoReaderFits DEF Well

\* Steps that change the locals of one run, and perhaps its status
LEMMA LocalTyped ==
  ASSUME Typed, NEW r \in Run, NEW w, Well(w, DOMAIN observation),
         recorded[r][1] <= Len(w.scopes),
         work' = [work EXCEPT ![r] = w],
         status' = [status EXCEPT ![r] = "RUNNING"],
         known' \subseteq Course,
         UNCHANGED <<request, recorded, aborted, dead, rows, now>>
  PROVE  Typed'
  <1>1. /\ work' \in [Run -> Locals]
        /\ \A q \in Run : work'[q] = IF q = r THEN w ELSE work[q]
    BY DEF Typed, TypeOK, Well
  <1>2. \A q \in Run : Well(work[q], DOMAIN observation)
    BY DEF Typed
  <1>3. \A q \in Run : Well(work'[q], DOMAIN observation')
    BY <1>1, <1>2 DEF rows
  <1>4. TypeOK'
    BY <1>1 DEF Typed, TypeOK, rows
  <1>5. \A q \in Run : status'[q] = "NEW" => work'[q] = NoWork
    BY <1>1 DEF Typed, TypeOK
  <1> QED
    BY <1>3, <1>4, <1>5 DEF Typed

LEMMA WorkTyped ==
  ASSUME Typed, NEW r \in Run, Running(r), NEW w, Well(w, DOMAIN observation),
         w.scopes = work[r].scopes, Work(r, w)
  PROVE  Typed'
  <1>1. recorded[r][1] <= Len(w.scopes)
    BY DEF Typed, TypeOK
  <1>2. status' = [status EXCEPT ![r] = "RUNNING"]
    BY DEF Typed, TypeOK, Running, Work
  <1> QED
    BY <1>1, <1>2, LocalTyped DEF Work, Typed, TypeOK

LEMMA ConcludeTyped ==
  ASSUME Typed, NEW r \in Run, Running(r), NEW c \in Coverage, NEW seen,
         Doing(r) \in Listing \cup EventScope \cup {"resources", "local_jobs"},
         Doing(r) = "courses" => seen \in Seq(Course),
         Doing(r) = "content" => seen \in Seq(Node),
         Conclude(r, c, seen)
  PROVE  Typed'
  <1>1. status' = [status EXCEPT ![r] = "RUNNING"]
    BY DEF Typed, TypeOK, Running, Conclude, Work
  <1> QED
    BY <1>1, ConcludedWell, LocalTyped DEF Conclude, Work, Typed, TypeOK

LEMMA ReaderTyped ==
  ASSUME Typed, NEW r \in Run, Running(r), work[r].reader.phase # "CLOSED", NEW g,
         Goes(work[r].reader, g), Work(r, [work[r] EXCEPT !.reader = g])
  PROVE  Typed'
  <1> DEFINE w == [work[r] EXCEPT !.reader = g]
  <1>1. Well(w, DOMAIN observation)
    BY ReaderWell DEF Typed
  <1>2. w.scopes = work[r].scopes
    BY DEF Typed, TypeOK, Locals
  <1> HIDE DEF w
  <1>3. Work(r, w)
    BY DEF w
  <1> QED
    BY <1>1, <1>2, <1>3, WorkTyped

\* The step of a run moves on
LEMMA MovedWell ==
  ASSUME NEW w, NEW stored, Well(w, stored), w.reader.phase = "CLOSED",
         NEW n \in 1..EndStep, n \in 5..8 => Accepts(InventoryCoverage(w))
  PROVE  Well([w EXCEPT !.step = n], stored)
  <1> DEFINE v == [w EXCEPT !.step = n]
  <1>1. /\ v \in Locals /\ v.reader = w.reader /\ v.keys = w.keys /\ v.step = n
        /\ v.course = w.course /\ v.scopes = w.scopes
    BY DEF Well, Locals
  <1> HIDE DEF v
  <1>2. InventoryCoverage(v) = InventoryCoverage(w)
    BY <1>1 DEF InventoryCoverage
  <1> QED
    BY <1>1, <1>2 DEF Well, v

LEMMA OnwardTyped ==
  ASSUME Typed, NEW r \in Run, Running(r), Doing(r) \in {"events", "plan", "local_jobs"},
         Doing(r) = "events" => Accepts(InventoryCoverage(work[r])),
         work[r].reader.phase = "CLOSED", Work(r, Onward(r))
  PROVE  Typed'
  <1> DEFINE w == work[r]
             n == From(request[r], w.step + 1)
             v == [w EXCEPT !.step = n]
  <1>1. w \in Locals /\ Well(w, DOMAIN observation) /\ w.step \in 1..EndStep
    BY DEF Typed, TypeOK, Locals
  <1>2. w.step \in {4, 9, 11} /\ (Doing(r) = "events" <=> w.step = 4)
    BY <1>1, StepNames DEF Doing
  <1>3. n \in (w.step + 1)..EndStep
    <2>1. w.step + 1 \in 1..EndStep
      BY <1>2 DEF EndStep
    <2> QED
      BY <2>1, FromProps
  <1>4. n \in 1..EndStep /\ (n \in 5..8 => Doing(r) = "events")
    BY <1>2, <1>3 DEF EndStep
  <1>5. Onward(r) = v
    BY DEF Onward
  <1> HIDE DEF n
  <1>6. Well(v, DOMAIN observation)
    BY <1>1, <1>4, MovedWell
  <1>7. v.scopes = work[r].scopes
    BY <1>1 DEF Locals
  <1> HIDE DEF v
  <1> QED
    BY <1>5, <1>6, <1>7, WorkTyped

\* The reader of a run that reads
LEMMA ReadingFacts ==
  ASSUME Typed, NEW r \in Run
  PROVE  LET rd == work[r].reader IN
         /\ Fits(rd) /\ Honest(rd) /\ rd.seen \in Seq(ItemsOf(rd.scope))
         /\ Reading(r) => rd.phase = "READING"
         /\ Reading(r) /\ ~AtItem(r) => rd.pending = <<>>
         /\ AtItem(r) => Reading(r) /\ rd.pending # <<>>
         /\ AtPage(r) => Reading(r) /\ rd.pending = <<>> /\ rd.scope # "assessments"
         /\ AtRecord(r) => AtItem(r) /\ rd.scope \in EventScope /\ Head(rd.pending) # Bad
  BY DEF Typed, Well, Fits, Reading, AtItem, AtPage, AtRecord

\* A step of a reader that stores nothing
Turns(r, g) ==
  LET rd == work[r].reader IN
  /\ rd.phase # "CLOSED" /\ Goes(rd, g) /\ g.seen = rd.seen
  /\ Work(r, [work[r] EXCEPT !.reader = g])
  /\ g.scope = "assessments" =>
       /\ Awaited(rd) \cup Range(rd.seen) \subseteq Awaited(g) \cup Range(g.seen)
       /\ g.coverage = "COMPLETE" => rd.coverage = "COMPLETE"

LEMMA TurnFacts ==
  ASSUME Typed, NEW r \in Run,
         \/ ReadPage(r) \/ StopAtLimit(r) \/ LeaveCycle(r) \/ ReadError(r)
         \/ ReadAssessment(r) \/ RejectItem(r) \/ Stamp(r)
  PROVE  \E g : Turns(r, g)
  <1> DEFINE rd == work[r].reader
  <1>1. Fits(rd) /\ Honest(rd)
    BY ReadingFacts
  <1>8. \A g : g.scope = rd.scope /\ g.pending = rd.pending /\ g.parents = rd.parents => Awaited(g) = Awaited(rd)
    BY DEF Awaited, Subject
  <1>2. CASE ReadPage(r)
    <2>1. /\ rd.phase = "READING" /\ rd.pending = <<>> /\ rd.scope # "assessments"
      BY <1>2, ReadingFacts DEF ReadPage
    <2>2. PICK page \in Pages(rd, request[r].flaws) :
            Work(r, [work[r] EXCEPT !.reader = Read(rd, page)])
      BY <1>2 DEF ReadPage
    <2>3. Goes(rd, Read(rd, page)) /\ Read(rd, page).seen = rd.seen
      BY <1>1, <2>1, ReadGoes
    <2>4. Read(rd, page).scope # "assessments"
      BY <2>1, <2>3 DEF Goes
    <2> HIDE DEF rd
    <2> QED
      BY <2>1, <2>2, <2>3, <2>4 DEF rd, Turns
  <1>3. CASE StopAtLimit(r)
    <2> DEFINE g == [Partial(rd, "page_limit") EXCEPT !.phase = "READ"]
    <2>1. rd.phase = "READING" /\ Work(r, [work[r] EXCEPT !.reader = g])
      BY <1>3, ReadingFacts DEF StopAtLimit
    <2>2. /\ Goes(rd, g) /\ g.seen = rd.seen /\ g.pending = rd.pending /\ g.parents = rd.parents
          /\ g.coverage # "COMPLETE"
      <3>1. g = [Partial(rd, "page_limit") EXCEPT !.phase = "READ"]
        OBVIOUS
      <3> HIDE DEF g
      <3> QED
        BY ZenonT(60), <1>1, <3>1, StopGoes
    <2> HIDE DEF g, rd
    <2>3. Awaited(g) = Awaited(rd)
      BY <1>8, <2>2 DEF Goes
    <2> QED
      BY <2>1, <2>2, <2>3 DEF rd, Turns
  <1>4. CASE LeaveCycle(r)
    <2> DEFINE p == Partial(rd, "cycle")
               g == IF rd.scope = "content" THEN NextParent(p) ELSE [p EXCEPT !.phase = "READ"]
    <2>1. /\ rd.phase = "READING" /\ rd.pending = <<>> /\ rd.scope # "assessments"
      BY <1>4, ReadingFacts DEF LeaveCycle
    <2>2. p.scope = rd.scope
      BY <1>1 DEF Partial, Fits, Reader
    <2>3. Work(r, [work[r] EXCEPT !.reader = g])
      BY <1>4, <2>2 DEF LeaveCycle
    <2>4. Goes(rd, g) /\ g.seen = rd.seen
      BY <1>1, <2>1, CycleGoes
    <2> HIDE DEF g, rd
    <2>5. g.scope # "assessments"
      BY <2>1, <2>4 DEF Goes
    <2> QED
      BY <2>1, <2>3, <2>4, <2>5 DEF rd, Turns
  <1>5. CASE ReadError(r) \/ RejectItem(r)
    <2> DEFINE g == Failed(rd)
    <2>1. rd.phase = "READING" /\ Work(r, [work[r] EXCEPT !.reader = g])
      BY <1>5, ReadingFacts DEF ReadError, RejectItem
    <2>2. /\ Goes(rd, g) /\ g.seen = rd.seen /\ g.pending = rd.pending /\ g.parents = rd.parents
          /\ g.coverage # "COMPLETE"
      BY <1>1, FailedGoes
    <2> HIDE DEF g, rd
    <2>3. Awaited(g) = Awaited(rd)
      BY <1>8, <2>2 DEF Goes
    <2> QED
      BY <2>1, <2>2, <2>3 DEF rd, Turns
  <1>6. CASE ReadAssessment(r)
    <2>1. /\ rd.phase = "READING" /\ rd.pending = <<>> /\ rd.scope = "assessments"
          /\ rd.parents # <<>>
      BY <1>6, ReadingFacts DEF ReadAssessment
    <2>2. PICK t \in TextOf[Head(rd.parents)] :
            Work(r, [work[r] EXCEPT !.reader =
              [rd EXCEPT !.parents = Tail(@), !.pending = <<<<Head(rd.parents), t>>>>]])
      BY <1>6 DEF ReadAssessment
    <2> DEFINE g == [rd EXCEPT !.parents = Tail(@), !.pending = <<<<Head(rd.parents), t>>>>]
    <2>3. Goes(rd, g) /\ g.seen = rd.seen /\ Awaited(g) = Awaited(rd) /\ g.coverage = rd.coverage
      BY <1>1, <2>1, RecordGoes
    <2>4. Work(r, [work[r] EXCEPT !.reader = g])
      BY <2>2
    <2> HIDE DEF g, rd
    <2> QED
      BY <2>1, <2>3, <2>4 DEF rd, Turns
  <1>7. CASE Stamp(r)
    <2> DEFINE n == IF request[r].captured = Live THEN now ELSE request[r].captured
               g == [rd EXCEPT !.stamp = n]
    <2>1. rd.phase = "READING"
      BY <1>7, ReadingFacts DEF Stamp
    <2>2. n \in Nat
      BY RequestsTyped, BoundsTyped DEF Typed, TypeOK, Request
    <2>3. Work(r, [work[r] EXCEPT !.reader = g])
      BY <1>7 DEF Stamp
    <2> HIDE DEF n
    <2>4. Goes(rd, g) /\ g.seen = rd.seen /\ Awaited(g) = Awaited(rd) /\ g.coverage = rd.coverage
      BY <1>1, <2>1, <2>2, StampGoes
    <2> HIDE DEF g, rd
    <2> QED
      BY <2>1, <2>3, <2>4 DEF rd, Turns
  <1> QED
    BY <1>2, <1>3, <1>4, <1>5, <1>6, <1>7

\* The step a run begins with, for the whole run or for a course
LEMMA BegunTyped ==
  ASSUME Typed, NEW r \in Run, StartRun(r) \/ NextCourse(r)
  PROVE  Typed'
  <1> DEFINE w == work[r]
  <1>1. /\ w \in Locals /\ Well(w, DOMAIN observation) /\ request[r] \in Request
        /\ recorded[r][1] <= Len(w.scopes)
    BY RequestsTyped DEF Typed, TypeOK
  <1>2. CASE StartRun(r)
    <2> DEFINE n == From(request[r], 1)
               c == request[r].course
               content == IF request[r].events = {"assessments"} THEN KnownAssessments(c) ELSE {}
               v == [w EXCEPT !.step = n, !.course = c, !.content = content]
    <2>1. n \in 1..EndStep /\ n <= 4
      BY FromProps, EventsFirst DEF EndStep
    <2>2. c \in Course \cup {Nothing} /\ content \in SUBSET Node
      BY <1>1, ItemsTyped DEF Request, KnownAssessments
    <2>3. work' = [work EXCEPT ![r] = v]
      BY <1>2 DEF StartRun, Typed, TypeOK
    <2> HIDE DEF n, c, content
    <2>4. /\ v \in Locals /\ v.reader = w.reader /\ v.keys = w.keys /\ v.step = n
          /\ v.scopes = w.scopes
      BY <1>1, <2>1, <2>2 DEF Locals
    <2>5. w.reader.phase = "CLOSED"
      BY <1>2, NoReaderFits DEF StartRun, MayStart, Typed, NoWork
    <2> HIDE DEF v
    <2>6. Well(v, DOMAIN observation)
      BY <1>1, <2>1, <2>4, <2>5 DEF Well
    <2> QED
      BY <1>1, <1>2, <2>3, <2>4, <2>6, LocalTyped DEF StartRun, Typed, TypeOK
  <1>3. CASE NextCourse(r)
    <2> DEFINE c == Head(w.left)
               n == IF Selected(r, c) THEN From(request[r], ContentStep) ELSE w.step
               rest == Tail(w.left)
               v == [w EXCEPT !.left = rest, !.course = c, !.step = n]
    <2>1. c \in Course /\ rest \in Seq(Course)
      BY <1>1, <1>3, FirstAndRest DEF NextCourse, Locals
    <2>2. w.step = 12 /\ w.reader.phase = "CLOSED" /\ Running(r)
      <3>1. w.step \in 1..EndStep
        BY <1>1 DEF Locals
      <3>2. Doing(r) = "end" /\ w.reader.phase = "CLOSED" /\ Running(r)
        BY <1>3 DEF NextCourse, At, Between
      <3> QED
        BY <3>1, <3>2, StepNames DEF Doing
    <2>3. n \in 1..EndStep /\ n \notin 5..8
      <3>1. 3 \in 1..EndStep /\ 3 \in 1..4
        BY DEF EndStep
      <3>2. From(request[r], 3) \in 3..EndStep /\ From(request[r], 3) <= 4
        BY <3>1, FromProps, EventsFirst
      <3> QED
        BY <2>2, <3>2 DEF ContentStep, EndStep
    <2>4. Work(r, v)
      BY <1>3 DEF NextCourse
    <2> HIDE DEF n, c, rest
    <2>5. /\ v \in Locals /\ v.reader = w.reader /\ v.keys = w.keys /\ v.step = n
          /\ v.scopes = w.scopes
      BY <1>1, <2>1, <2>3 DEF Locals
    <2> HIDE DEF v
    <2>6. Well(v, DOMAIN observation)
      BY <1>1, <2>2, <2>3, <2>5 DEF Well
    <2> QED
      BY <2>2, <2>4, <2>5, <2>6, WorkTyped
  <1> QED
    BY <1>2, <1>3

\* A step that ends in a scope result
LEMMA ResultTyped ==
  ASSUME Typed, NEW r \in Run,
         LackCapability(r) \/ DenySession(r) \/ CloseReader(r) \/ FetchResources(r) \/ RunJobs(r)
  PROVE  Typed'
  <1> DEFINE w == work[r]
  <1>1. w \in Locals /\ Well(w, DOMAIN observation)
    BY DEF Typed, TypeOK
  <1>2. <<>> \in Seq(Course) /\ <<>> \in Seq(Node)
    OBVIOUS
  <1>3. CASE LackCapability(r) \/ DenySession(r)
    BY <1>2, <1>3, ConcludeTyped DEF LackCapability, DenySession, At, Between, Coverage
  <1>4. CASE CloseReader(r)
    <2> DEFINE rd == w.reader
    <2>1. /\ rd \in Reader /\ rd.seen \in Seq(ItemsOf(rd.scope))
          /\ rd.phase = "READ" /\ rd.scope = Doing(r)
      BY <1>1, <1>4 DEF CloseReader, Well, Fits, Doing
    <2>2. Reported(rd) \in Coverage /\ Doing(r) \in Listing \cup EventScope
      BY <2>1 DEF Reader, Reported, Coverage
    <2>3. /\ Doing(r) = "courses" => rd.seen \in Seq(Course)
          /\ Doing(r) = "content" => rd.seen \in Seq(Node)
      BY <2>1 DEF ItemsOf
    <2>4. Conclude(r, Reported(rd), rd.seen)
      BY <1>4 DEF CloseReader
    <2>5. Running(r)
      BY <1>4 DEF CloseReader
    <2> HIDE DEF rd
    <2> QED
      BY <2>2, <2>3, <2>4, <2>5, ConcludeTyped
  <1>5. CASE FetchResources(r)
    <2>1. PICK c \in Coverage : Conclude(r, c, <<>>)
      BY <1>1, <1>5, InventoryTyped DEF FetchResources, Coverage
    <2>2. Doing(r) = "resources" /\ Running(r)
      BY <1>5 DEF FetchResources, At, Between
    <2> QED
      BY <1>2, <2>1, <2>2, ConcludeTyped
  <1>6. CASE RunJobs(r)
    <2>1. Doing(r) = "local_jobs" /\ w.reader.phase = "CLOSED" /\ Running(r)
      BY <1>6 DEF RunJobs, At, Between
    <2>2. CASE Work(r, Onward(r))
      BY <2>1, <2>2, OnwardTyped
    <2>3. CASE Conclude(r, "PARTIAL", <<>>)
      BY <1>2, <2>1, <2>3, ConcludeTyped DEF Coverage
    <2> QED
      BY <1>6, <2>2, <2>3 DEF RunJobs
  <1> QED
    BY <1>3, <1>4, <1>5, <1>6

\* A reader that is opened
Opens(r, g) ==
  /\ work[r].reader.phase = "CLOSED"
  /\ Work(r, [work[r] EXCEPT !.reader = g])
  /\ Fits(g) /\ Honest(g) /\ g.scope = Doing(r) /\ g.course = work[r].course
  /\ g.phase # "CLOSED" /\ g.seen = <<>>
  /\ g.scope = "assessments" =>
       /\ g.coverage = "COMPLETE" => InventoryCoverage(work[r]) = "COMPLETE"
       /\ work[r].content \cap Assessment \subseteq Awaited(g)

LEMMA OpenedFacts ==
  ASSUME Typed, NEW r \in Run, OpenListing(r) \/ OpenAssessments(r)
  PROVE  \E g : Opens(r, g)
  <1> DEFINE w == work[r]
  <1>1. w \in Locals /\ Well(w, DOMAIN observation) /\ w.course \in Course \cup {Nothing}
        /\ w.step \in 1..EndStep
    BY DEF Typed, TypeOK, Locals
  <1>2. w.reader.phase = "CLOSED"
    BY DEF OpenListing, OpenAssessments, At, Between
  <1>3. CASE OpenListing(r)
    <2> DEFINE s == Doing(r)
               c == w.course
               places == {<<Root, Start>>}
               o == [NoReader EXCEPT !.phase = "READING", !.scope = s, !.course = c]
               g == [o EXCEPT !.coverage = "COMPLETE", !.unread = places]
    <2>1. /\ s \in Listing \cup EventScope /\ s # "assessments"
          /\ c \in Course \cup {Nothing}
          /\ places \in SUBSET ((Node \cup {Root}) \X (Cursor \cup {Start, End}))
      BY <1>1, <1>3 DEF OpenListing, At
    <2>2. Work(r, [w EXCEPT !.reader = g])
      BY <1>3 DEF OpenListing, Opened
    <2> HIDE DEF s, c, places
    <2>3. /\ o \in Reader /\ o.seen = <<>> /\ o.pending = <<>> /\ o.parents = <<>> /\ o.scope = s
          /\ o.course = c /\ o.phase = "READING" /\ o.parent = Root /\ o.cursor = Start
          /\ o.cause = "none" /\ o.owed = {} /\ ~o.short
      BY ZenonT(60), <2>1, NoReaderFits DEF NoReader, Reader
    <2> HIDE DEF o
    <2>4. /\ g.seen = <<>> /\ g.pending = <<>> /\ g.parents = <<>> /\ g.scope = s
          /\ g.course = c /\ g.phase = "READING" /\ g.parent = Root /\ g.cursor = Start
          /\ g.cause = "none" /\ g.owed = {} /\ ~g.short
          /\ g.coverage = "COMPLETE" /\ g.unread = places
      BY <2>3 DEF Reader
    <2>6. g \in Reader
      BY ZenonT(60), <2>1, <2>3 DEF Reader, Coverage
    <2> HIDE DEF g
    <2>5. Fits(g) /\ Honest(g)
      BY <2>1, <2>4, <2>6, OpenListingGoes DEF places
    <2> QED
      BY <1>2, <2>1, <2>2, <2>4, <2>5 DEF s, c, Opens
  <1>4. CASE OpenAssessments(r)
    <2> DEFINE S == w.content \cap Assessment
               v == InventoryCoverage(w)
    <2>1. Doing(r) = "assessments" /\ w.step = 6
      <3>1. Doing(r) = "assessments"
        BY <1>4 DEF OpenAssessments, At
      <3> QED
        BY <1>1, <3>1, StepNames DEF Doing
    <2>2. v \in {"COMPLETE", "PARTIAL", "UNKNOWN"}
      BY <1>1, <2>1 DEF Well, Accepts
    <2>3. IsFiniteSet(S)
      BY BoundsTyped, FS_Subset
    <2>4. PICK ids \in SetToSeqs(S) : Work(r, [work[r] EXCEPT !.reader =
            Turned([Opened(r) EXCEPT !.coverage = v, !.parents = ids, !.owed = Range(ids)])])
      BY <1>4 DEF OpenAssessments
    <2>5. ids \in Seq(Assessment) /\ Range(ids) = S
      <3>1. ids \in Seq(S) /\ Range(ids) = S
        <4> HIDE DEF S
        <4> QED
          BY <2>3, InSomeOrder
      <3> QED
        BY <3>1, Larger
    <2> DEFINE c == w.course
               things == Range(ids)
               o == [NoReader EXCEPT !.phase = "READING", !.scope = "assessments", !.course = c]
               h == [o EXCEPT !.coverage = v, !.parents = ids, !.owed = things]
               g == Turned(h)
    <2>6. Work(r, [w EXCEPT !.reader = g])
      BY <2>1, <2>4 DEF Opened
    <2>7. ids \in Seq(Node) /\ things \subseteq Node /\ c \in Course \cup {Nothing}
      BY <1>1, <2>5, ItemsTyped, Larger
    <2> HIDE DEF c, things, v
    <2>8. /\ o \in Reader /\ o.seen = <<>> /\ o.pending = <<>> /\ o.scope = "assessments"
          /\ o.course = c /\ o.phase = "READING"
          /\ o.cause = "none" /\ o.unread = {} /\ ~o.short
      BY ZenonT(60), <2>7, NoReaderFits DEF NoReader, Reader, EventScope
    <2> HIDE DEF o
    <2>9. /\ h \in Reader /\ h.seen = <<>> /\ h.pending = <<>> /\ h.scope = "assessments"
          /\ h.course = c /\ h.phase = "READING"
          /\ h.cause = "none" /\ h.unread = {} /\ ~h.short
          /\ h.coverage = v /\ h.parents = ids /\ h.owed = things
      BY ZenonT(60), <2>2, <2>7, <2>8 DEF Reader, Coverage
    <2> HIDE DEF h
    <2>10. /\ Goes(h, g) /\ g.coverage = h.coverage /\ Range(h.parents) \subseteq Awaited(g)
           /\ g.seen = <<>>
      BY <2>2, <2>5, <2>9, OpenAssessmentsGoes DEF things
    <2> HIDE DEF g
    <2> QED
      BY <1>2, <2>1, <2>5, <2>6, <2>9, <2>10 DEF v, c, Goes, Opens
  <1> QED
    BY <1>3, <1>4

LEMMA OpenedTyped ==
  ASSUME Typed, NEW r \in Run, OpenListing(r) \/ OpenAssessments(r)
  PROVE  Typed'
  <1>1. PICK g :
           /\ work[r].reader.phase = "CLOSED"
           /\ Work(r, [work[r] EXCEPT !.reader = g])
           /\ Fits(g) /\ Honest(g) /\ g.scope = Doing(r) /\ g.course = work[r].course
    BY OpenedFacts DEF Opens
  <1> DEFINE w == work[r]
             v == [w EXCEPT !.reader = g]
  <1>2. w \in Locals /\ Well(w, DOMAIN observation) /\ g \in Reader
    BY <1>1 DEF Typed, TypeOK, Fits
  <1>3. /\ v \in Locals /\ v.reader = g /\ v.keys = w.keys /\ v.step = w.step
        /\ v.course = w.course /\ v.scopes = w.scopes
    BY <1>2 DEF Locals
  <1>4. Work(r, v) /\ Running(r)
    BY <1>1 DEF OpenListing, OpenAssessments, At, Between
  <1> HIDE DEF v
  <1>5. InventoryCoverage(v) = InventoryCoverage(w)
    BY <1>3 DEF InventoryCoverage
  <1>6. Well(v, DOMAIN observation)
    BY <1>1, <1>2, <1>3, <1>5 DEF Well, Doing
  <1> QED
    BY <1>3, <1>4, <1>6, WorkTyped

\* A course or content item that is stored
Stores(r, g) ==
  LET rd == work[r].reader IN
  /\ Running(r) /\ rd.phase = "READING" /\ rd.scope \in Listing
  /\ Goes(rd, g)
  /\ work' = [work EXCEPT ![r] = [work[r] EXCEPT !.reader = g]]
  /\ known \subseteq known' /\ known' \subseteq Course
  /\ rd.scope = "availability" /\ rd.seen = <<>> /\ g.seen # <<>> => rd.course \in known'

LEMMA StoreFacts ==
  ASSUME Typed, NEW r \in Run, StoreItem(r)
  PROVE  \E g : Stores(r, g)
  <1> DEFINE rd == work[r].reader
             f == Stored(rd, Head(rd.pending), request[r].nodes)
             g == Turned(f)
  <1>1. /\ Running(r) /\ rd.phase = "READING" /\ rd.pending # <<>> /\ rd.scope \in Listing
        /\ Head(rd.pending) # Bad
        /\ Fits(rd) /\ Honest(rd)
    BY ReadingFacts DEF StoreItem, AtItem, Reading
  <1>2. /\ Goes(rd, f)
        /\ rd.scope = "availability" => f.seen = rd.seen \/ f.seen = <<rd.course>>
    BY <1>1, StoredGoes
  <1>3. /\ work' = [work EXCEPT ![r].reader = g]
        /\ known' = IF rd.scope \in {"courses", "availability"}
                    THEN known \cup Range(f.seen) ELSE known
    BY DEF StoreItem
  <1> HIDE DEF f
  <1>4. Fits(f) /\ Honest(f) /\ f.phase # "CLOSED"
    BY <1>2 DEF Goes
  <1>5. Goes(f, g) /\ g.seen = f.seen
    BY <1>4, TurnedGoes
  <1>6. Goes(rd, g)
    BY <1>2, <1>5 DEF Goes
  <1> HIDE DEF g
  <1>7. work' = [work EXCEPT ![r] = [work[r] EXCEPT !.reader = g]]
    BY <1>3 DEF Typed, TypeOK, Locals
  <1>8. known' \subseteq Course
    <2>1. rd.scope \in {"courses", "availability"} => f.seen \in Seq(Course)
      BY <1>2 DEF Goes, Fits, ItemsOf
    <2> HIDE DEF rd
    <2>2. rd.scope \in {"courses", "availability"} => Range(f.seen) \subseteq Course
      BY <2>1, Members
    <2> QED
      BY <1>3, <2>2 DEF Typed, TypeOK
  <1>9. rd.scope = "availability" /\ rd.seen = <<>> /\ g.seen # <<>> => rd.course \in known'
    <2>1. \A c : Range(<<c>>) = {c}
      BY DEF Range
    <2> HIDE DEF rd
    <2> QED
      BY <1>2, <1>3, <1>5, <2>1
  <1>10. known \subseteq known'
    BY <1>3
  <1> HIDE DEF rd
  <1> QED
    BY <1>1, <1>6, <1>7, <1>8, <1>9, <1>10 DEF rd, Stores

LEMMA StoreTyped ==
  ASSUME Typed, NEW r \in Run, StoreItem(r)
  PROVE  Typed'
  <1>1. PICK g :
           /\ Running(r) /\ work[r].reader.phase = "READING"
           /\ Goes(work[r].reader, g)
           /\ work' = [work EXCEPT ![r] = [work[r] EXCEPT !.reader = g]]
           /\ known' \subseteq Course
    BY StoreFacts DEF Stores
  <1> DEFINE w == [work[r] EXCEPT !.reader = g]
  <1>2. Well(w, DOMAIN observation)
    BY <1>1, ReaderWell DEF Typed
  <1>3. recorded[r][1] <= Len(w.scopes)
    BY DEF Typed, TypeOK, Locals
  <1>4. work' = [work EXCEPT ![r] = w]
    BY <1>1
  <1> HIDE DEF w
  <1>5. status' = [status EXCEPT ![r] = "RUNNING"]
    BY <1>1 DEF Typed, TypeOK, Running, StoreItem
  <1> QED
    BY <1>1, <1>2, <1>3, <1>4, <1>5, LocalTyped DEF StoreItem

\* A record that is stored
Observes(r, thing, text, at, g) ==
  LET rd == work[r].reader
      key == <<thing, r, text>>
  IN
  /\ key \in Key /\ Running(r) /\ rd.phase = "READING"
  /\ observation' = Inserted(key, at)
  /\ current' = [current EXCEPT ![thing] = Current(key, at)]
  /\ newest' = [newest EXCEPT ![thing] =
       CASE at > @.at -> [at |-> at, texts |-> {text}]
         [] at = @.at -> [at |-> at, texts |-> @.texts \cup {text}]
         [] OTHER -> @]
  /\ blurred' = IF key \in DOMAIN observation /\ observation[key] < at
                THEN blurred \cup {thing} ELSE blurred
  /\ work' = [work EXCEPT ![r] = [work[r] EXCEPT !.reader = g, !.keys = Append(@, key)]]
  /\ Goes(rd, g) /\ g.seen # <<>> /\ rd.scope \in EventScope
  /\ rd.scope = "assessments" =>
       /\ g.coverage = rd.coverage
       /\ Awaited(rd) \cup Range(rd.seen) \subseteq Awaited(g) \cup Range(g.seen)

LEMMA ObserveFacts ==
  ASSUME Typed, NEW r \in Run, Observe(r)
  PROVE  \E thing \in Thing, text \in Text, at \in Nat \ {0} : \E g : Observes(r, thing, text, at, g)
  <1> DEFINE rd == work[r].reader
             thing == Head(rd.pending)[1]
             text == Head(rd.pending)[2]
             key == <<thing, r, text>>
             g == Turned([rd EXCEPT !.pending = Tail(@), !.stamp = 0,
                                    !.seen = Append(@, thing), !.owed = @ \ {thing}])
  <1>1. /\ Running(r) /\ rd.phase = "READING" /\ rd.pending # <<>> /\ rd.scope \in EventScope
        /\ Head(rd.pending) # Bad
        /\ Fits(rd) /\ Honest(rd)
    BY ReadingFacts DEF Observe, AtItem, Reading
  <1>2. rd.stamp \in Nat \ {0}
    BY <1>1 DEF Observe, Fits, Reader
  <1>3. /\ thing \in Thing /\ text \in Text
        /\ Goes(rd, g) /\ g.seen # <<>>
        /\ rd.scope = "assessments" =>
             /\ g.coverage = rd.coverage
             /\ Awaited(rd) \cup Range(rd.seen) \subseteq Awaited(g) \cup Range(g.seen)
    BY <1>1, ObservedGoes
  <1>4. key \in Key
    BY <1>3 DEF Key
  <1>5. /\ observation' = Inserted(key, rd.stamp)
        /\ current' = [current EXCEPT ![thing] = Current(key, rd.stamp)]
        /\ newest' = [newest EXCEPT ![thing] =
             CASE rd.stamp > @.at -> [at |-> rd.stamp, texts |-> {text}]
               [] rd.stamp = @.at -> [at |-> rd.stamp, texts |-> @.texts \cup {text}]
               [] OTHER -> @]
        /\ blurred' = IF key \in DOMAIN observation /\ observation[key] < rd.stamp
                      THEN blurred \cup {thing} ELSE blurred
    BY DEF Observe
  <1>6. work' = [work EXCEPT ![r].reader = g, ![r].keys = Append(@, key)]
    BY DEF Observe
  <1> HIDE DEF g, thing, text
  <1>7. work' = [work EXCEPT ![r] = [work[r] EXCEPT !.reader = g, !.keys = Append(@, key)]]
    BY <1>6 DEF Typed, TypeOK, Locals
  <1> DEFINE at == rd.stamp
  <1>8. Observes(r, thing, text, at, g)
    BY <1>1, <1>3, <1>4, <1>5, <1>7 DEF Observes
  <1>9. at \in Nat \ {0} /\ thing \in Thing /\ text \in Text
    BY <1>2, <1>3
  <1> HIDE DEF at
  <1> QED
    BY <1>8, <1>9

LEMMA InsertedKeeps ==
  ASSUME NEW key, NEW at \in Nat, Range(observation) \subseteq Nat
  PROVE  /\ DOMAIN Inserted(key, at) = DOMAIN observation \cup {key}
         /\ \A k \in DOMAIN observation : Inserted(key, at)[k] = observation[k]
         /\ key \notin DOMAIN observation => Inserted(key, at)[key] = at
         /\ Range(Inserted(key, at)) \subseteq Nat
  <1> DEFINE o == Inserted(key, at)
  <1>1. /\ DOMAIN o = DOMAIN observation \cup {key}
        /\ \A k \in DOMAIN observation : o[k] = observation[k]
        /\ key \notin DOMAIN observation => o[key] = at
    BY DEF Inserted
  <1> HIDE DEF o
  <1>2. ASSUME NEW k \in DOMAIN o PROVE o[k] \in Nat
    <2>1. \A j \in DOMAIN observation : observation[j] \in Nat
      BY DEF Range
    <2> QED
      BY <1>1, <2>1
  <1>3. Range(o) \subseteq Nat
    BY <1>2 DEF Range
  <1> QED
    BY <1>1, <1>3 DEF o

LEMMA ObserveTyped ==
  ASSUME Typed, NEW r \in Run, Observe(r)
  PROVE  Typed'
  <1>1. PICK thing \in Thing, text \in Text, at \in Nat \ {0} : \E g : Observes(r, thing, text, at, g)
    BY ObserveFacts
  <1>2. PICK g : Observes(r, thing, text, at, g)
    BY <1>1
  <1> DEFINE key == <<thing, r, text>>
  <1>3. key \in Key /\ key[1] = thing /\ Running(r)
    BY <1>2 DEF Observes
  <1>4. UNCHANGED <<request, status, recorded, aborted, dead, known, planned, now>>
    BY DEF Observe
  <1>5. /\ observation' = Inserted(key, at)
        /\ current' = [current EXCEPT ![thing] = Current(key, at)]
        /\ newest' = [newest EXCEPT ![thing] =
             CASE at > @.at -> [at |-> at, texts |-> {text}]
               [] at = @.at -> [at |-> at, texts |-> @.texts \cup {text}]
               [] OTHER -> @]
        /\ blurred' = IF key \in DOMAIN observation /\ observation[key] < at
                      THEN blurred \cup {thing} ELSE blurred
        /\ work' = [work EXCEPT ![r] = [work[r] EXCEPT !.reader = g, !.keys = Append(@, key)]]
        /\ Goes(work[r].reader, g) /\ work[r].reader.phase = "READING"
    BY <1>2 DEF Observes
  <1> HIDE DEF key
  <1>6. /\ DOMAIN observation' = DOMAIN observation \cup {key}
        /\ Range(observation') \subseteq Nat
    BY <1>5, InsertedKeeps DEF Typed, TypeOK
  <1>7. current' \in [Thing -> Key \cup {Nothing}]
    <2>1. Current(key, at) \in Key \cup {Nothing}
      BY <1>3 DEF Current, Typed, TypeOK
    <2> QED
      BY <1>5, <2>1 DEF Typed, TypeOK
  <1>8. newest' \in [Thing -> [at : Nat, texts : SUBSET Text]]
    <2>1. /\ newest[thing] \in [at : Nat, texts : SUBSET Text]
          /\ newest \in [Thing -> [at : Nat, texts : SUBSET Text]]
      BY DEF Typed, TypeOK
    <2> DEFINE n == CASE at > newest[thing].at -> [at |-> at, texts |-> {text}]
                      [] at = newest[thing].at -> [at |-> at, texts |-> newest[thing].texts \cup {text}]
                      [] OTHER -> newest[thing]
    <2>2. n \in [at : Nat, texts : SUBSET Text]
      <3>1. CASE at > newest[thing].at
        BY <2>1, <3>1
      <3>2. CASE at = newest[thing].at
        BY <2>1, <3>2
      <3>3. CASE ~(at > newest[thing].at) /\ at # newest[thing].at
        BY <2>1, <3>3
      <3> QED
        BY <3>1, <3>2, <3>3
    <2>3. newest' = [newest EXCEPT ![thing] = n]
      BY <1>5
    <2> HIDE DEF n
    <2> QED
      BY <2>1, <2>2, <2>3
  <1> DEFINE w == work[r]
             keys == Append(w.keys, key)
             v == [w EXCEPT !.reader = g, !.keys = keys]
  <1>9. w \in Locals /\ Well(w, DOMAIN observation) /\ g \in Reader
    BY <1>5 DEF Typed, TypeOK, Goes, Fits
  <1>10. keys \in Seq(Key) /\ Range(keys) = Range(w.keys) \cup {key}
    BY <1>3, <1>9, OneMore DEF Locals
  <1>11. work' = [work EXCEPT ![r] = v]
    BY <1>5
  <1> HIDE DEF keys
  <1>12. /\ v \in Locals /\ v.reader = g /\ v.keys = keys /\ v.step = w.step
         /\ v.course = w.course /\ v.scopes = w.scopes
    BY <1>9, <1>10 DEF Locals
  <1> HIDE DEF v
  <1>13. InventoryCoverage(v) = InventoryCoverage(w)
    BY <1>12 DEF InventoryCoverage
  <1>14. Well(v, DOMAIN observation')
    BY <1>5, <1>6, <1>9, <1>10, <1>12, <1>13 DEF Well, Goes
  <1>15. /\ work' \in [Run -> Locals]
         /\ \A q \in Run : work'[q] = IF q = r THEN v ELSE work[q]
    BY <1>11, <1>12 DEF Typed, TypeOK
  <1>16. \A q \in Run : Well(work'[q], DOMAIN observation')
    BY <1>6, <1>14, <1>15 DEF Typed, Well
  <1>17. \A q \in Run : Len(work'[q].scopes) = Len(work[q].scopes)
    BY <1>12, <1>15
  <1>18. blurred' \subseteq Thing
    BY <1>5 DEF Typed, TypeOK
  <1>19. DOMAIN observation' \subseteq Key /\ planned' \subseteq DOMAIN observation'
    BY <1>3, <1>4, <1>6 DEF Typed, TypeOK
  <1>20. TypeOK'
    BY <1>4, <1>6, <1>7, <1>8, <1>15, <1>17, <1>18, <1>19 DEF Typed, TypeOK
  <1>21. \A q \in Run : status'[q] = "NEW" => work'[q] = NoWork
    BY <1>3, <1>4, <1>15 DEF Typed, Running
  <1> QED
    BY <1>16, <1>20, <1>21 DEF Typed

\* The jobs of an observation
LEMMA PlanFacts ==
  ASSUME Typed, NEW r \in Run, PlanObservation(r)
  PROVE  /\ work' = [work EXCEPT ![r] = [work[r] EXCEPT !.keys = Tail(@)]]
         /\ work[r].keys \in Seq(Key) /\ Tail(work[r].keys) \in Seq(Key)
         /\ Range(work[r].keys) = {Head(work[r].keys)} \cup Range(Tail(work[r].keys))
         /\ planned' = planned \cup {Head(work[r].keys)}
         /\ Running(r) /\ work[r].reader.phase = "CLOSED" /\ Doing(r) = "plan"
  <1>1. work[r].keys \in Seq(Key) /\ work[r].keys # <<>>
    BY DEF Typed, TypeOK, Locals, PlanObservation
  <1>2. work' = [work EXCEPT ![r] = [work[r] EXCEPT !.keys = Tail(@)]]
    BY DEF PlanObservation, Typed, TypeOK, Locals
  <1> QED
    BY <1>1, <1>2, FirstAndRest DEF PlanObservation, At, Between

LEMMA PlanTyped ==
  ASSUME Typed, NEW r \in Run, PlanObservation(r)
  PROVE  Typed'
  <1> DEFINE w == work[r]
             rest == Tail(w.keys)
             v == [w EXCEPT !.keys = rest]
  <1>1. /\ work' = [work EXCEPT ![r] = v]
        /\ rest \in Seq(Key)
        /\ Range(w.keys) = {Head(w.keys)} \cup Range(rest)
        /\ planned' = planned \cup {Head(w.keys)}
        /\ Running(r)
    BY PlanFacts
  <1>2. w \in Locals /\ Well(w, DOMAIN observation)
    BY DEF Typed, TypeOK
  <1>3. UNCHANGED <<request, status, recorded, aborted, dead, known, observation,
                    current, newest, blurred, now>>
    BY DEF PlanObservation
  <1> HIDE DEF rest
  <1>4. /\ v \in Locals /\ v.reader = w.reader /\ v.keys = rest /\ v.step = w.step
        /\ v.course = w.course /\ v.scopes = w.scopes
    BY <1>1, <1>2 DEF Locals
  <1> HIDE DEF v
  <1>5. InventoryCoverage(v) = InventoryCoverage(w)
    BY <1>4 DEF InventoryCoverage
  <1>6. Well(v, DOMAIN observation)
    BY <1>1, <1>2, <1>4, <1>5 DEF Well
  <1>7. /\ work' \in [Run -> Locals]
        /\ \A q \in Run : work'[q] = IF q = r THEN v ELSE work[q]
    BY <1>1, <1>4 DEF Typed, TypeOK
  <1>8. \A q \in Run : Well(work'[q], DOMAIN observation') /\ Len(work'[q].scopes) = Len(work[q].scopes)
    BY <1>3, <1>4, <1>6, <1>7 DEF Typed
  <1>9. planned' \subseteq DOMAIN observation'
    BY <1>1, <1>2, <1>3 DEF Typed, TypeOK, Well
  <1>10. TypeOK'
    BY <1>3, <1>7, <1>8, <1>9 DEF Typed, TypeOK
  <1>11. \A q \in Run : status'[q] = "NEW" => work'[q] = NoWork
    BY <1>1, <1>3, <1>7 DEF Typed, Running
  <1> QED
    BY <1>8, <1>10, <1>11 DEF Typed

\* Steps that leave the locals and the rows alone
LEMMA OuterTyped ==
  ASSUME Typed, NEW r \in Run,
         \/ Abort(r) /\ status[r] # "NEW"
         \/ RecordScope(r) \/ RecordAttempt(r) \/ Finish(r) \/ Crash(r) \/ Tick
  PROVE  Typed'
  <1>1. UNCHANGED <<request, work, known, rows>>
    BY DEF Abort, RecordScope, RecordAttempt, Finish, Crash, Tick
  <1>2. \A q \in Run : Well(work'[q], DOMAIN observation')
    BY <1>1 DEF Typed, rows
  <1>3. CASE Abort(r) \/ Crash(r)
    BY <1>1, <1>2, <1>3 DEF Typed, TypeOK, rows, Abort, Crash
  <1>4. CASE Finish(r)
    <2>1. RunStatus(work[r].scopes) \in {"SUCCEEDED", "SUCCEEDED_WITH_WARNINGS", "FAILED"}
      BY DEF RunStatus
    <2> QED
      BY <1>1, <1>2, <1>4, <2>1 DEF Typed, TypeOK, rows, Finish
  <1>5. CASE RecordScope(r) \/ RecordAttempt(r)
    <2>1. /\ recorded[r] \in Nat \X Nat /\ recorded[r][2] <= recorded[r][1]
          /\ recorded[r][1] <= Len(work[r].scopes) /\ Len(work[r].scopes) \in Nat
      BY Members DEF Typed, TypeOK, Locals
    <2> DEFINE a == recorded[r][1]
               b == recorded[r][2]
    <2>2. \/ recorded' = [recorded EXCEPT ![r] = <<a + 1, b>>] /\ a < Len(work[r].scopes)
          \/ recorded' = [recorded EXCEPT ![r] = <<a, b + 1>>] /\ b < a
      <3>1. recorded[r] = <<a, b>>
        BY <2>1
      <3> QED
        BY <1>5, <2>1, <3>1 DEF RecordScope, RecordAttempt, Typed, TypeOK
    <2>3. /\ recorded' \in [Run -> Nat \X Nat]
          /\ \A q \in Run : recorded'[q][2] <= recorded'[q][1] /\ recorded'[q][1] <= Len(work[q].scopes)
      <3>1. a \in Nat /\ b \in Nat /\ b <= a /\ a <= Len(work[r].scopes)
        BY <2>1
      <3> HIDE DEF a, b
      <3>2. CASE recorded' = [recorded EXCEPT ![r] = <<a + 1, b>>] /\ a < Len(work[r].scopes)
        BY <2>1, <3>1, <3>2 DEF Typed, TypeOK
      <3>3. CASE recorded' = [recorded EXCEPT ![r] = <<a, b + 1>>] /\ b < a
        BY <2>1, <3>1, <3>3 DEF Typed, TypeOK
      <3> QED
        BY <2>2, <3>2, <3>3
    <2> QED
      BY <1>1, <1>2, <1>5, <2>3 DEF Typed, TypeOK, rows, RecordScope, RecordAttempt
  <1>6. CASE Tick
    <2>1. now' \in 1..MaxTime
      BY <1>6, BoundsTyped DEF Tick, Typed, TypeOK
    <2> QED
      BY <1>1, <1>2, <1>6, <2>1 DEF Typed, TypeOK, rows, Tick
  <1> QED
    BY <1>3, <1>4, <1>5, <1>6

LEMMA TypedInit ==
  ASSUME Init PROVE Typed
  <1>1. NoWork \in Locals /\ Well(NoWork, DOMAIN observation)
    <2>1. NoWork \in Locals
      BY NoReaderFits DEF NoWork, Locals, EndStep
    <2>2. Range(NoWork.keys) = {}
      BY DEF NoWork, Range
    <2> QED
      BY <2>1, <2>2, NoReaderFits DEF Well, NoWork
  <1>2. TypeOK
    <2>1. /\ DOMAIN observation = {} /\ Range(observation) = {}
          /\ Known \subseteq Course
          /\ Len(NoWork.scopes) = 0
      <3>1. Known \subseteq Course
        BY NamesApart DEF Course
      <3> QED
        BY <3>1 DEF Init, Range, NoWork
    <2>2. work \in [Run -> Locals] /\ \A r \in Run : work[r] = NoWork
      BY <1>1 DEF Init
    <2>3. newest \in [Thing -> [at : Nat, texts : SUBSET Text]]
      BY DEF Init, Unseen
    <2> QED
      BY <2>1, <2>2, <2>3, BoundsTyped DEF Init, TypeOK
  <1>3. \A r \in Run : work[r] = NoWork
    BY DEF Init
  <1> QED
    BY <1>1, <1>2, <1>3 DEF Typed

LEMMA TypedStep ==
  ASSUME Typed, [Next]_vars PROVE Typed'
  <1>1. CASE UNCHANGED vars \/ Rest
    <2>1. UNCHANGED vars
      BY <1>1 DEF Rest
    <2> QED
      BY <2>1 DEF vars, Typed, TypeOK
  <1>2. CASE Tick
    <2>1. CASE Run = {}
      <3>1. now' \in 1..MaxTime
        BY <1>2, BoundsTyped DEF Tick, Typed, TypeOK
      <3> QED
        BY <1>2, <2>1, <3>1 DEF Tick, Typed, TypeOK, rows
    <2> QED
      BY <1>2, <2>1, OuterTyped
  <1>3. ASSUME NEW r \in Run, Step(r) \/ StorageFails(r) \/ Crash(r) PROVE Typed'
    <2>1. CASE StartRun(r) \/ NextCourse(r)
      BY <2>1, BegunTyped
    <2>2. CASE LackCapability(r) \/ DenySession(r) \/ CloseReader(r) \/ FetchResources(r) \/ RunJobs(r)
      BY <2>2, ResultTyped
    <2>3. CASE OpenListing(r) \/ OpenAssessments(r)
      BY <2>3, OpenedTyped
    <2>4. CASE \/ ReadPage(r) \/ StopAtLimit(r) \/ LeaveCycle(r) \/ ReadError(r)
               \/ ReadAssessment(r) \/ RejectItem(r) \/ Stamp(r)
      <3>1. Running(r)
        BY <2>4 DEF ReadPage, StopAtLimit, LeaveCycle, ReadError, ReadAssessment, RejectItem,
                    Stamp, AtPage, AtItem, AtRecord, Reading
      <3> QED
        BY <2>4, <3>1, TurnFacts, ReaderTyped DEF Turns
    <2>5. CASE StoreItem(r)
      BY <2>5, StoreTyped
    <2>6. CASE Observe(r)
      BY <2>6, ObserveTyped
    <2>7. CASE EnterEvents(r) \/ EndPlanning(r)
      BY <2>7, OnwardTyped DEF EnterEvents, EndPlanning, At, Between
    <2>8. CASE PlanObservation(r)
      BY <2>8, PlanTyped
    <2>9. CASE RefuseInventory(r) \/ StorageFails(r) \/ RecordScope(r) \/ RecordAttempt(r) \/ Finish(r) \/ Crash(r)
      <3>1. RefuseInventory(r) \/ StorageFails(r) => Abort(r) /\ status[r] # "NEW"
        BY DEF RefuseInventory, StorageFails, At, Between, Running
      <3> QED
        BY <2>9, <3>1, OuterTyped
    <2> QED
      BY <1>3, <2>1, <2>2, <2>3, <2>4, <2>5, <2>6, <2>7, <2>8, <2>9 DEF Step
  <1> QED
    BY <1>1, <1>2, <1>3 DEF Next

\* Typed holds in every state of the system: TypeOK, and that a reader fits the
\* scope it reads.
LEMMA AlwaysTyped == Spec => []Typed
  <1>1. Init => Typed
    BY TypedInit
  <1>2. Typed /\ [Next]_vars => Typed'
    BY TypedStep
  <1> QED
    BY <1>1, <1>2, PTL DEF Spec

\* Every variable keeps its type, whatever the source answers and in whatever
\* order runs read and store: the reading of a scope stays within what that
\* scope lists, jobs are planned for rows only, and no more is recorded than
\* there are results (sync/engine.py, sync/discovery.py, sync/event_sources.py).
THEOREM RunTypeOK == Spec => []TypeOK
  <1>1. Typed => TypeOK
    BY DEF Typed
  <1> QED
    BY <1>1, AlwaysTyped, PTL
-----------------------------------------------------------------------------
(***************************************************************************)
(* COMPLETE means that everything was read.                                *)
(***************************************************************************)
Quiet(r) ==
  \/ Abort(r) \/ RecordScope(r) \/ RecordAttempt(r) \/ Finish(r) \/ Crash(r)
Closing(r) ==
  \/ StartRun(r) \/ NextCourse(r) \/ LackCapability(r) \/ DenySession(r) \/ CloseReader(r)
  \/ FetchResources(r) \/ RunJobs(r) \/ EnterEvents(r) \/ EndPlanning(r) \/ PlanObservation(r)

\* What a step may be, as far as readers are concerned
LEMMA StepKinds ==
  ASSUME Typed, NEW r \in Run, Step(r) \/ StorageFails(r) \/ Crash(r)
  PROVE  \/ \E g : Turns(r, g)
         \/ StoreItem(r) /\ \E g : Stores(r, g)
         \/ Observe(r) /\ \E thing \in Thing, text \in Text, at \in Nat \ {0} :
                            \E g : Observes(r, thing, text, at, g)
         \/ \E g : Opens(r, g)
         \/ Closing(r)
         \/ Quiet(r)
  <1>1. CASE \/ ReadPage(r) \/ StopAtLimit(r) \/ LeaveCycle(r) \/ ReadError(r)
             \/ ReadAssessment(r) \/ RejectItem(r) \/ Stamp(r)
    BY <1>1, TurnFacts
  <1>2. CASE StoreItem(r)
    BY <1>2, StoreFacts
  <1>3. CASE Observe(r)
    BY <1>3, ObserveFacts
  <1>4. CASE OpenListing(r) \/ OpenAssessments(r)
    BY <1>4, OpenedFacts
  <1>5. CASE \/ RefuseInventory(r) \/ StorageFails(r) \/ RecordScope(r) \/ RecordAttempt(r)
             \/ Finish(r) \/ Crash(r)
    BY <1>5 DEF Quiet, RefuseInventory, StorageFails
  <1>6. CASE \/ StartRun(r) \/ NextCourse(r) \/ LackCapability(r) \/ DenySession(r)
             \/ CloseReader(r) \/ FetchResources(r) \/ RunJobs(r) \/ EnterEvents(r)
             \/ EndPlanning(r) \/ PlanObservation(r)
    BY <1>6 DEF Closing
  <1> QED
    BY <1>1, <1>2, <1>3, <1>4, <1>5, <1>6 DEF Step

\* How these steps change the locals
LEMMA ClosingFacts ==
  ASSUME Typed, NEW r \in Run, Closing(r)
  PROVE  /\ \A q \in Run \ {r} : work'[q] = work[q]
         /\ work'[r].reader.phase = "CLOSED"
         /\ UNCHANGED <<request, recorded, aborted, dead, known, observation, current, newest, blurred>>
  <1>1. /\ work \in [Run -> Locals] /\ work[r] \in Locals /\ NoReader.phase = "CLOSED"
    BY NoReaderFits DEF Typed, TypeOK
  <1>2. \A c, seen : Concluded(r, c, seen).reader = NoReader
    BY <1>1 DEF Concluded, Locals
  <1>3. CASE \/ LackCapability(r) \/ DenySession(r) \/ CloseReader(r) \/ FetchResources(r)
             \/ RunJobs(r)
    <2>1. CASE \E c, seen : Conclude(r, c, seen)
      <3>1. PICK c, seen : Conclude(r, c, seen)
        BY <2>1
      <3> QED
        BY <1>1, <1>2, <3>1 DEF Conclude, Work, rows
    <2>2. CASE RunJobs(r) /\ Work(r, Onward(r))
      <3>1. work[r].reader.phase = "CLOSED"
        BY <2>2 DEF RunJobs, At, Between
      <3>2. Onward(r).reader = work[r].reader
        BY <1>1 DEF Onward, Locals
      <3> QED
        BY <1>1, <2>2, <3>1, <3>2 DEF Work, rows
    <2> QED
      BY <1>3, <2>1, <2>2 DEF LackCapability, DenySession, CloseReader, FetchResources, RunJobs
  <1>4. CASE StartRun(r)
    <2>1. work[r] = NoWork /\ NoWork.reader.phase = "CLOSED"
      BY <1>1, <1>4 DEF StartRun, MayStart, Typed, NoWork
    <2> QED
      BY <1>1, <1>4, <2>1 DEF StartRun, rows, Locals
  <1>5. CASE NextCourse(r) \/ EnterEvents(r) \/ EndPlanning(r)
    <2>1. PICK v : Work(r, v) /\ v.reader = work[r].reader /\ work[r].reader.phase = "CLOSED"
      <3>1. CASE NextCourse(r)
        BY <1>1, <3>1 DEF NextCourse, At, Between, Locals
      <3>2. CASE EnterEvents(r) \/ EndPlanning(r)
        BY <1>1, <3>2 DEF EnterEvents, EndPlanning, At, Between, Onward, Locals
      <3> QED
        BY <1>5, <3>1, <3>2
    <2> QED
      BY <1>1, <2>1 DEF Work, rows
  <1>6. CASE PlanObservation(r)
    BY <1>1, <1>6, PlanFacts DEF PlanObservation, Locals
  <1> QED
    BY <1>3, <1>4, <1>5, <1>6 DEF Closing

\* What an open reader knows: a course that was found is stored; assessments
\* that are read are those of the inventory, whose coverage bounds theirs
Reads(r) ==
  LET rd == work[r].reader IN
  rd.phase # "CLOSED" =>
    /\ rd.scope = "availability" /\ rd.seen # <<>> => rd.course \in known
    /\ rd.scope = "assessments" =>
         /\ rd.coverage = "COMPLETE" => InventoryCoverage(work[r]) = "COMPLETE"
         /\ work[r].content \cap Assessment \subseteq Awaited(rd) \cup Range(rd.seen)
ReadInv == \A r \in Run : Reads(r)

LEMMA ReadsStep ==
  ASSUME Typed, ReadInv, [Next]_vars PROVE ReadInv'
  <1>1. CASE UNCHANGED vars \/ Rest \/ Tick
    BY <1>1 DEF vars, Rest, Tick, ReadInv, Reads, Awaited, Subject
  <1>2. ASSUME NEW r \in Run, Step(r) \/ StorageFails(r) \/ Crash(r) PROVE ReadInv'
    <2> DEFINE rd == work[r].reader
    <2>1. /\ work \in [Run -> Locals] /\ work[r] \in Locals /\ Reads(r)
          /\ rd.scope = "assessments" => rd.scope \notin Listing
      BY DEF Typed, TypeOK, ReadInv, Listing
    <2>2. ASSUME known \subseteq known',
                 \A q \in Run \ {r} : work'[q] = work[q],
                 NEW w, work'[r] = w,
                 w.reader.phase # "CLOSED" =>
                   /\ w.reader.scope = "availability" /\ w.reader.seen # <<>> => w.reader.course \in known'
                   /\ w.reader.scope = "assessments" =>
                        /\ w.reader.coverage = "COMPLETE" => InventoryCoverage(w) = "COMPLETE"
                        /\ w.content \cap Assessment \subseteq Awaited(w.reader) \cup Range(w.reader.seen)
          PROVE  ReadInv'
      <3> SUFFICES ASSUME NEW q \in Run PROVE Reads(q)'
        BY DEF ReadInv
      <3>1. CASE q = r
        BY <2>2, <3>1 DEF Reads
      <3>2. CASE q # r
        <4>1. work'[q] = work[q] /\ Reads(q)
          BY <2>2, <3>2 DEF ReadInv
        <4> QED
          BY <2>2, <4>1 DEF Reads
      <3> QED
        BY <3>1, <3>2
    <2>3. ASSUME NEW g PROVE
            LET w == [work[r] EXCEPT !.reader = g] IN
            /\ w.reader = g /\ w.content = work[r].content
            /\ InventoryCoverage(w) = InventoryCoverage(work[r])
      BY <2>1 DEF InventoryCoverage, Locals
    <2>4. CASE \E g : Turns(r, g)
      <3>1. PICK g : Turns(r, g)
        BY <2>4
      <3> DEFINE w == [work[r] EXCEPT !.reader = g]
      <3>2. /\ w.reader = g /\ w.content = work[r].content
            /\ InventoryCoverage(w) = InventoryCoverage(work[r])
        BY <2>3
      <3>3. known' = known /\ work' = [work EXCEPT ![r] = w]
        BY <3>1 DEF Turns, Work
      <3> HIDE DEF w
      <3>4. work'[r] = w /\ \A q \in Run \ {r} : work'[q] = work[q]
        BY <2>1, <3>3
      <3> QED
        BY <2>1, <2>2, <3>1, <3>2, <3>3, <3>4 DEF Turns, Goes, Reads
    <2>5. CASE StoreItem(r) /\ \E g : Stores(r, g)
      <3>1. PICK g : Stores(r, g)
        BY <2>5
      <3> DEFINE w == [work[r] EXCEPT !.reader = g]
      <3>2. w.reader = g
        BY <2>3
      <3>3. known \subseteq known' /\ work' = [work EXCEPT ![r] = w]
        BY <3>1 DEF Stores
      <3> HIDE DEF w
      <3>4. work'[r] = w /\ \A q \in Run \ {r} : work'[q] = work[q]
        BY <2>1, <3>3
      <3> QED
        BY <2>1, <2>2, <3>1, <3>2, <3>3, <3>4 DEF Stores, Goes, Reads
    <2>6. CASE Observe(r) /\ \E thing \in Thing, text \in Text, at \in Nat \ {0} :
                               \E g : Observes(r, thing, text, at, g)
      <3>1. PICK thing \in Thing, text \in Text, at \in Nat \ {0} : \E g : Observes(r, thing, text, at, g)
        BY <2>6
      <3>2. PICK g : Observes(r, thing, text, at, g)
        BY <3>1
      <3> DEFINE keys == Append(work[r].keys, <<thing, r, text>>)
                 w == [work[r] EXCEPT !.reader = g, !.keys = keys]
      <3>3. work' = [work EXCEPT ![r] = w] /\ known' = known
        BY <2>6, <3>2 DEF Observes, Observe
      <3> HIDE DEF keys
      <3>4. /\ w.reader = g /\ w.content = work[r].content
            /\ InventoryCoverage(w) = InventoryCoverage(work[r])
        BY <2>1 DEF InventoryCoverage, Locals
      <3> HIDE DEF w
      <3>5. work'[r] = w /\ \A q \in Run \ {r} : work'[q] = work[q]
        BY <2>1, <3>3
      <3>6. g.scope = rd.scope /\ g.scope # "availability" /\ rd.phase # "CLOSED"
        BY <3>2 DEF Observes, Goes, EventScope
      <3> QED
        BY <2>1, <2>2, <3>2, <3>3, <3>4, <3>5, <3>6 DEF Observes, Reads
    <2>7. CASE \E g : Opens(r, g)
      <3>1. PICK g : Opens(r, g)
        BY <2>7
      <3> DEFINE w == [work[r] EXCEPT !.reader = g]
      <3>2. /\ w.reader = g /\ w.content = work[r].content
            /\ InventoryCoverage(w) = InventoryCoverage(work[r])
        BY <2>3
      <3>3. known' = known /\ work' = [work EXCEPT ![r] = w]
        BY <3>1 DEF Opens, Work
      <3> HIDE DEF w
      <3>4. work'[r] = w /\ \A q \in Run \ {r} : work'[q] = work[q]
        BY <2>1, <3>3
      <3> QED
        BY <2>2, <3>1, <3>2, <3>3, <3>4 DEF Opens
    <2>8. CASE Closing(r)
      <3>1. /\ \A q \in Run \ {r} : work'[q] = work[q]
            /\ work'[r].reader.phase = "CLOSED" /\ known' = known
        BY <2>8, ClosingFacts
      <3> QED
        BY <2>2, <3>1
    <2>9. CASE Quiet(r)
      <3>1. work' = work /\ known' = known
        BY <2>9 DEF Quiet, Abort, RecordScope, RecordAttempt, Finish, Crash
      <3> QED
        BY <3>1 DEF ReadInv, Reads, Awaited, Subject
    <2> QED
      BY <1>2, <2>4, <2>5, <2>6, <2>7, <2>8, <2>9, StepKinds
  <1> QED
    BY <1>1, <1>2 DEF Next

LEMMA AlwaysReads == Spec => []ReadInv
  <1>1. Init => ReadInv
    BY NoReaderFits DEF Init, ReadInv, Reads, NoWork
  <1>2. Typed /\ ReadInv /\ [Next]_vars => ReadInv'
    BY ReadsStep
  <1> QED
    BY <1>1, <1>2, AlwaysTyped, PTL DEF Spec

\* A scope that a run reports COMPLETE was read to the end: every page and
\* folder announced, every item listed stored, for assessments those of a
\* complete inventory.  Holds for every order in which pages repeat items, lead
\* back to cursors, run into limits or fail (_merge_page_coverage, _partial and
\* _source_failure of sync/discovery.py and sync/event_sources.py).
THEOREM RunCompleteReadEverything == Spec => []CompleteReadEverything
  <1>1. Typed /\ ReadInv => CompleteReadEverything
    <2> SUFFICES ASSUME Typed, ReadInv, NEW r \in Run, work[r].reader.phase = "READ"
                 PROVE  LET rd == work[r].reader IN
                        /\ rd.traversed => rd.unread = {}
                        /\ Reported(rd) = "COMPLETE" =>
                             /\ rd.unread = {} /\ rd.owed = {} /\ rd.pending = <<>> /\ ~rd.short
                             /\ rd.scope = "availability" => rd.course \in known
                             /\ rd.scope = "assessments" =>
                                  /\ InventoryCoverage(work[r]) = "COMPLETE"
                                  /\ work[r].content \cap Assessment \subseteq Range(rd.seen)
      BY DEF CompleteReadEverything
    <2> DEFINE rd == work[r].reader
    <2>1. Honest(rd) /\ Reads(r) /\ rd.phase = "READ"
      BY DEF Typed, Well, ReadInv
    <2>2. rd.traversed => rd.unread = {}
      BY <2>1 DEF Honest
    <2>3. ASSUME Reported(rd) = "COMPLETE"
          PROVE  /\ rd.unread = {} /\ rd.owed = {} /\ rd.pending = <<>> /\ ~rd.short
                 /\ rd.scope = "availability" => rd.course \in known
                 /\ rd.scope = "assessments" =>
                      /\ InventoryCoverage(work[r]) = "COMPLETE"
                      /\ work[r].content \cap Assessment \subseteq Range(rd.seen)
      <3>1. rd.coverage = "COMPLETE" /\ (rd.scope = "availability" => rd.seen # <<>>)
        BY <2>3 DEF Reported
      <3>2. /\ rd.traversed /\ rd.pending = <<>> /\ ~rd.short /\ rd.owed \subseteq Awaited(rd)
            /\ rd.scope = "assessments" => rd.parents = <<>>
        BY <2>1, <3>1 DEF Honest
      <3>3. Awaited(rd) = {}
        BY <3>2 DEF Awaited, Range
      <3> QED
        BY <2>1, <2>2, <3>1, <3>2, <3>3 DEF Reads
    <2> QED
      BY <2>2, <2>3
  <1> QED
    BY <1>1, AlwaysTyped, AlwaysReads, PTL
-----------------------------------------------------------------------------
(***************************************************************************)
(* What is shown is what was seen last.                                    *)
(***************************************************************************)
\* Rows are no newer than the latest sighting of their thing, a thing that was
\* seen shows one of its rows, and, if it is not blurred, one of the latest.
CurrentInv ==
  /\ \A k \in DOMAIN observation : observation[k] <= newest[k[1]].at
  /\ \A i \in Thing : current[i] # Nothing => current[i] \in DOMAIN observation /\ current[i][1] = i
  /\ \A i \in Thing : current[i] = Nothing => newest[i] = Unseen
  /\ CurrentIsNewest

\* The thing that is observed, before and after
LEMMA SeenLast ==
  ASSUME Typed, CurrentInv, NEW r \in Run, Observe(r),
         NEW thing \in Thing, NEW text \in Text, NEW at \in Nat \ {0}, NEW g,
         Observes(r, thing, text, at, g)
  PROVE  LET key == <<thing, r, text>> IN
         /\ DOMAIN observation' = DOMAIN observation \cup {key}
         /\ \A k \in DOMAIN observation : observation'[k] = observation[k]
         /\ \A i \in Thing \ {thing} : current'[i] = current[i] /\ newest'[i] = newest[i]
         /\ blurred \subseteq blurred' /\ blurred' \subseteq blurred \cup {thing}
         /\ newest'[thing].at >= newest[thing].at
         /\ observation'[key] <= newest'[thing].at
         /\ current'[thing] # Nothing
         /\ current'[thing] \in DOMAIN observation' /\ current'[thing][1] = thing
         /\ thing \notin blurred' =>
              /\ current'[thing][3] \in newest'[thing].texts
              /\ observation'[current'[thing]] = newest'[thing].at
  <1> DEFINE key == <<thing, r, text>>
             o == observation
             p == Inserted(key, at)
             n == newest[thing]
             was == current[thing]
             m == IF at > n.at THEN [at |-> at, texts |-> {text}]
                  ELSE IF at = n.at THEN [at |-> at, texts |-> n.texts \cup {text}] ELSE n
             is == IF was # Nothing /\ at < p[was] THEN was ELSE key
  <1>1. /\ key \in Key /\ key[1] = thing /\ key[3] = text /\ key # Nothing
    BY NamesApart DEF Observes
  <1> HIDE DEF key
  <1>2. /\ \A k \in DOMAIN o : o[k] \in Nat
        /\ n \in [at : Nat, texts : SUBSET Text]
        /\ current \in [Thing -> Key \cup {Nothing}]
        /\ newest \in [Thing -> [at : Nat, texts : SUBSET Text]]
        /\ Range(o) \subseteq Nat /\ at \in Nat
    BY DEF Typed, TypeOK, Range
  <1>3. /\ DOMAIN p = DOMAIN o \cup {key}
        /\ \A k \in DOMAIN o : p[k] = o[k]
        /\ key \notin DOMAIN o => p[key] = at
    BY <1>2, InsertedKeeps
  <1>4. observation' = p /\ current' = [current EXCEPT ![thing] = is]
    BY <1>1 DEF Observes, Current, key
  <1>5. newest' = [newest EXCEPT ![thing] = m]
    <2>1. newest' = [newest EXCEPT ![thing] =
            CASE at > n.at -> [at |-> at, texts |-> {text}]
              [] at = n.at -> [at |-> at, texts |-> n.texts \cup {text}]
              [] OTHER -> n]
      BY DEF Observes
    <2>2. (CASE at > n.at -> [at |-> at, texts |-> {text}]
             [] at = n.at -> [at |-> at, texts |-> n.texts \cup {text}]
             [] OTHER -> n) = m
      <3>1. n.at \in Nat
        BY <1>2
      <3> HIDE DEF n
      <3> QED
        BY <3>1
    <2> QED
      BY <2>1, <2>2
  <1>6. blurred' = IF key \in DOMAIN o /\ o[key] < at THEN blurred \cup {thing} ELSE blurred
    BY DEF Observes, key
  <1>7. /\ \A k \in DOMAIN o : k[1] = thing => o[k] <= n.at
        /\ was # Nothing => was \in DOMAIN o /\ was[1] = thing
        /\ was = Nothing => n.at = 0
        /\ thing \notin blurred /\ was # Nothing => was[3] \in n.texts /\ o[was] = n.at
    BY DEF CurrentInv, CurrentIsNewest, Unseen
  <1> HIDE DEF p, n, was, m, is
  <1>8. /\ m \in [at : Nat, texts : SUBSET Text]
        /\ m.at = IF at > n.at THEN at ELSE n.at
        /\ m.texts = IF at > n.at THEN {text} ELSE IF at = n.at THEN n.texts \cup {text} ELSE n.texts
    BY <1>2 DEF m
  <1>9. /\ \A i \in Thing \ {thing} : current'[i] = current[i] /\ newest'[i] = newest[i]
        /\ current'[thing] = is /\ newest'[thing] = m
    BY <1>2, <1>4, <1>5
  <1>10. is \in DOMAIN p /\ is[1] = thing /\ is # Nothing
    BY <1>1, <1>3, <1>7 DEF is
  <1>11. n.at \in Nat /\ at \in Nat /\ at > 0
    BY <1>2
  <1>12. p[key] <= m.at /\ m.at >= n.at
    <2>1. CASE key \in DOMAIN o
      <3>1. o[key] <= n.at /\ p[key] = o[key] /\ o[key] \in Nat
        BY <1>1, <1>2, <1>3, <1>7, <2>1
      <3> QED
        BY <1>8, <1>11, <3>1
    <2>2. CASE key \notin DOMAIN o
      BY <1>3, <1>8, <1>11, <2>2
    <2> QED
      BY <2>1, <2>2
  <1>13. ASSUME thing \notin blurred' PROVE is[3] \in m.texts /\ p[is] = m.at
    <2>1. thing \notin blurred /\ (key \in DOMAIN o => ~(o[key] < at))
      BY <1>6, <1>13
    <2>2. was # Nothing => p[was] = o[was] /\ o[was] = n.at /\ was[3] \in n.texts
      BY <1>3, <1>7, <2>1
    <2>3. CASE at < n.at
      <3>1. was # Nothing
        BY <1>7, <1>11, <2>3
      <3>2. is = was
        BY <2>2, <2>3, <3>1 DEF is
      <3> QED
        BY <1>8, <1>11, <2>2, <2>3, <3>1, <3>2
    <2>4. CASE ~(at < n.at)
      <3>1. is = key
        BY <2>2, <2>4 DEF is
      <3>2. m.at = at /\ text \in m.texts
        BY <1>8, <1>11, <2>4
      <3>3. p[key] = at
        <4>1. CASE key \in DOMAIN o
          <5>1. o[key] <= n.at /\ p[key] = o[key] /\ o[key] \in Nat /\ ~(o[key] < at)
            BY <1>1, <1>2, <1>3, <1>7, <2>1, <4>1
          <5> QED
            BY <1>11, <2>4, <5>1
        <4>2. CASE key \notin DOMAIN o
          BY <1>3, <4>2
        <4> QED
          BY <4>1, <4>2
      <3> QED
        BY <1>1, <3>1, <3>2, <3>3
    <2> QED
      BY <2>3, <2>4
  <1>14. blurred \subseteq blurred' /\ blurred' \subseteq blurred \cup {thing}
    BY <1>6
  <1> QED
    BY <1>3, <1>4, <1>9, <1>10, <1>12, <1>13, <1>14 DEF n, key

LEMMA CurrentStep ==
  ASSUME Typed, CurrentInv, [Next]_vars PROVE CurrentInv'
  <1>1. ASSUME UNCHANGED <<observation, current, newest, blurred>> PROVE CurrentInv'
    BY <1>1 DEF CurrentInv, CurrentIsNewest
  <1>2. CASE UNCHANGED vars \/ Rest \/ Tick
    BY <1>1, <1>2 DEF vars, rows, Rest, Tick
  <1>3. ASSUME NEW r \in Run, Step(r) \/ StorageFails(r) \/ Crash(r) PROVE CurrentInv'
    <2>1. CASE \/ \E g : Turns(r, g)
               \/ StoreItem(r) /\ \E g : Stores(r, g)
               \/ \E g : Opens(r, g)
               \/ Quiet(r)
      BY <1>1, <2>1 DEF Turns, Opens, Work, StoreItem, Quiet, Abort, RecordScope, RecordAttempt,
                        Finish, Crash, rows
    <2>2. CASE Closing(r)
      BY <1>1, <2>2, ClosingFacts
    <2>3. CASE Observe(r) /\ \E thing \in Thing, text \in Text, at \in Nat \ {0} :
                               \E g : Observes(r, thing, text, at, g)
      <3>1. PICK thing \in Thing, text \in Text, at \in Nat \ {0} : \E g : Observes(r, thing, text, at, g)
        BY <2>3
      <3>2. PICK g : Observes(r, thing, text, at, g)
        BY <3>1
      <3> DEFINE key == <<thing, r, text>>
      <3>3. key \in Key /\ key[1] = thing
        BY <3>2 DEF Observes
      <3>5. /\ DOMAIN observation' = DOMAIN observation \cup {key}
            /\ \A k \in DOMAIN observation : observation'[k] = observation[k]
            /\ \A i \in Thing \ {thing} : current'[i] = current[i] /\ newest'[i] = newest[i]
            /\ blurred \subseteq blurred' /\ blurred' \subseteq blurred \cup {thing}
            /\ newest'[thing].at >= newest[thing].at
            /\ observation'[key] <= newest'[thing].at
            /\ current'[thing] # Nothing
            /\ current'[thing] \in DOMAIN observation' /\ current'[thing][1] = thing
            /\ thing \notin blurred' =>
                 /\ current'[thing][3] \in newest'[thing].texts
                 /\ observation'[current'[thing]] = newest'[thing].at
        BY <2>3, <3>2, SeenLast
      <3> HIDE DEF key
      <3>6. \A k \in DOMAIN observation' : observation'[k] <= newest'[k[1]].at
        <4> SUFFICES ASSUME NEW k \in DOMAIN observation' PROVE observation'[k] <= newest'[k[1]].at
          OBVIOUS
        <4>1. CASE k = key
          BY <3>3, <3>5, <4>1
        <4>2. CASE k # key
          <5>1. /\ k \in DOMAIN observation /\ observation'[k] = observation[k]
                /\ observation[k] <= newest[k[1]].at
            BY <3>5, <4>2 DEF CurrentInv
          <5>2. k[1] \in Thing /\ observation[k] \in Nat /\ newest[k[1]].at \in Nat
            BY <5>1 DEF Typed, TypeOK, Key, Range
          <5>3. CASE k[1] # thing
            BY <3>5, <5>1, <5>2, <5>3
          <5>4. CASE k[1] = thing
            <6>1. newest'[thing].at \in Nat
              <7>1. Typed'
                BY <2>3, ObserveTyped
              <7> QED
                BY <7>1 DEF Typed, TypeOK
            <6> QED
              BY <3>5, <5>1, <5>2, <5>4, <6>1
          <5> QED
            BY <5>3, <5>4
        <4> QED
          BY <4>1, <4>2
      <3>7. ASSUME NEW i \in Thing
            PROVE  /\ current'[i] # Nothing => current'[i] \in DOMAIN observation' /\ current'[i][1] = i
                   /\ current'[i] = Nothing => newest'[i] = Unseen
                   /\ i \notin blurred' =>
                        IF current'[i] = Nothing THEN newest'[i] = Unseen
                        ELSE /\ current'[i][3] \in newest'[i].texts
                             /\ observation'[current'[i]] = newest'[i].at
        <4>1. CASE i = thing
          BY <3>5, <4>1
        <4>2. CASE i # thing
          <5>1. /\ current'[i] = current[i] /\ newest'[i] = newest[i]
                /\ i \notin blurred' => i \in Thing \ blurred
            BY <3>5, <4>2
          <5>2. /\ current[i] # Nothing => current[i] \in DOMAIN observation /\ current[i][1] = i
                /\ current[i] = Nothing => newest[i] = Unseen
                /\ i \notin blurred' =>
                     IF current[i] = Nothing THEN newest[i] = Unseen
                     ELSE /\ current[i][3] \in newest[i].texts
                          /\ observation[current[i]] = newest[i].at
            BY <5>1 DEF CurrentInv, CurrentIsNewest
          <5> QED
            BY <3>5, <5>1, <5>2
        <4> QED
          BY <4>1, <4>2
      <3> QED
        BY <3>6, <3>7 DEF CurrentInv, CurrentIsNewest
    <2> QED
      BY <1>3, <2>1, <2>2, <2>3, StepKinds
  <1> QED
    BY <1>2, <1>3 DEF Next

\* What a thing shows is what it said when it was last seen, by whichever run
\* and in whatever order the runs store what they saw (_upsert_current in
\* events/repository.py), but for things a run saw twice saying the same.
THEOREM RunCurrentIsNewest == Spec => []CurrentIsNewest
  <1>1. Init => CurrentInv
    BY DEF Init, CurrentInv, CurrentIsNewest
  <1>2. Typed /\ CurrentInv /\ [Next]_vars => CurrentInv'
    BY CurrentStep
  <1>3. CurrentInv => CurrentIsNewest
    BY DEF CurrentInv
  <1> QED
    BY <1>1, <1>2, <1>3, AlwaysTyped, PTL DEF Spec
-----------------------------------------------------------------------------
(***************************************************************************)
(* A run that ended says what became of what it was asked for.             *)
(***************************************************************************)
Told(w, scope, c) == \E s \in Range(w.scopes) : s.scope = scope /\ s.course = c
CourseScopes == {"content", "resources"} \cup EventScope

\* The steps of a course before step n that are asked for have left their results
Through(rq, w, c, n) ==
  \A k \in ContentStep..(n - 1) :
    Steps[k] \in CourseScopes /\ Wanted(rq, Steps[k]) => Told(w, Steps[k], c)

\* The course was not found
GaveUp(rq, w) ==
  /\ rq.kind = "one" /\ w.step = EndStep
  /\ \E s \in Range(w.scopes) : s.scope = "availability" /\ s.coverage # "COMPLETE"
  /\ \A s \in Range(w.scopes) : s.scope # "content"

Target(rq, w) == IF rq.kind = "one" THEN {rq.course} ELSE Range(w.listed) \cap rq.policy

Begun(rq, w) ==
  /\ Wanted(rq, Steps[w.step])
  /\ w.step < ContentStep =>
       w.scopes = <<>> /\ w.listed = <<>> /\ w.left = <<>> /\ w.course = rq.course
  /\ rq.kind = "one" => w.left = <<>> /\ w.listed = <<>> /\ w.course = rq.course

\* Every course is behind the run, ahead of it, or the one it is at
Covered(rq, w) ==
  /\ w.step >= ContentStep /\ rq.kind # "one" => Told(w, "courses", Nothing)
  /\ \/ GaveUp(rq, w)
     \/ /\ w.step >= ContentStep /\ Wanted(rq, "availability") => Told(w, "availability", w.course)
        /\ \A c \in Target(rq, w) :
             c \in Range(w.left) \/ Through(rq, w, c, IF c = w.course THEN w.step ELSE EndStep)

Mine(r) == {k \in DOMAIN observation : k[2] = r}

\* What a run observed is planned or to be planned, and shows in a result or
\* in the reader
Plans(r) ==
  LET w == work[r] IN
  /\ w.keys # <<>> => w.step \in 5..9
  /\ Mine(r) \subseteq planned \cup Range(w.keys)
  /\ Mine(r) # {} =>
       \/ \E s \in Range(w.scopes) : s.scope # "local_jobs" /\ s.coverage # "FAILED"
       \/ w.reader.phase # "CLOSED" /\ w.reader.seen # <<>>

Ends(r) ==
  LET w == work[r] IN
  /\ r \in aborted => status[r] = "FAILED"
  /\ status[r] \notin {"NEW", "RUNNING"} /\ r \notin aborted =>
       /\ w.step = EndStep /\ w.left = <<>> /\ w.reader.phase = "CLOSED"
       /\ recorded[r] = <<Len(w.scopes), Len(w.scopes)>>
       /\ status[r] = RunStatus(w.scopes)

OnCourse(r) == status[r] # "NEW" => Begun(request[r], work[r]) /\ Covered(request[r], work[r])

RunInv == \A r \in Run : OnCourse(r) /\ Plans(r) /\ Ends(r)

\* No step that is done is passed over
LEMMA FromAtMost ==
  ASSUME NEW rq, NEW n \in 1..EndStep, NEW m \in n..EndStep, Wanted(rq, Steps[m])
  PROVE  From(rq, n) <= m
  <1>1. /\ From(rq, n) \in n..EndStep
        /\ \A k \in n..(From(rq, n) - 1) : ~Wanted(rq, Steps[k])
    BY FromProps
  <1>2. ~(m \in n..(From(rq, n) - 1))
    BY <1>1
  <1> QED
    BY <1>1, <1>2 DEF EndStep

LEMMA SameWay ==
  ASSUME NEW rq, NEW v, NEW w, v.step = w.step, v.scopes = w.scopes, v.listed = w.listed,
         v.left = w.left, v.course = w.course, Begun(rq, w), Covered(rq, w)
  PROVE  Begun(rq, v) /\ Covered(rq, v)
  BY DEF Begun, Covered, GaveUp, Target, Through, Told

\* A run starts
LEMMA StartOnCourse ==
  ASSUME NEW rq, rq.kind # "one" => rq.course = Nothing, NEW v,
         v.step = From(rq, 1), v.course = rq.course,
         v.scopes = <<>>, v.left = <<>>, v.listed = <<>>
  PROVE  Begun(rq, v) /\ Covered(rq, v)
  <1>1. /\ v.step \in 1..EndStep /\ Wanted(rq, Steps[v.step])
        /\ \A k \in 1..(v.step - 1) : ~Wanted(rq, Steps[k])
    <2>1. 1 \in 1..EndStep
      BY DEF EndStep
    <2> QED
      BY <2>1, FromProps
  <1>2. Begun(rq, v)
    BY <1>1 DEF Begun
  <1>3. rq.kind # "one" => v.step < ContentStep
    <2>1. rq.kind # "one" => Wanted(rq, Steps[1])
      BY StepNames DEF Wanted, EventScope
    <2>2. 1 \in 1..EndStep
      BY DEF EndStep
    <2>3. rq.kind # "one" => From(rq, 1) <= 1
      BY <2>1, <2>2, FromAtMost
    <2> QED
      BY <1>1, <2>3, StepNames
  <1>4. v.step >= ContentStep => ~Wanted(rq, "availability")
    <2>1. v.step >= ContentStep => 2 \in 1..(v.step - 1)
      BY <1>1, StepNames
    <2> QED
      BY <1>1, <2>1, StepNames
  <1>5. ASSUME NEW c \in Target(rq, v) PROVE Through(rq, v, c, IF c = v.course THEN v.step ELSE EndStep)
    <2>1. CASE rq.kind = "one"
      <3>1. c = v.course
        BY <2>1 DEF Target
      <3>2. ContentStep..(v.step - 1) \subseteq 1..(v.step - 1)
        BY <1>1, StepNames
      <3> QED
        BY <1>1, <3>1, <3>2 DEF Through
    <2>2. CASE rq.kind # "one"
      BY <2>2 DEF Target, Range
    <2> QED
      BY <2>1, <2>2
  <1> QED
    BY <1>1, <1>2, <1>3, <1>4, <1>5, StepNames DEF Covered

\* A run goes to the next course
LEMMA NextOnCourse ==
  ASSUME NEW rq, NEW w \in Locals, NEW v, Begun(rq, w), Covered(rq, w),
         w.step = EndStep, w.left # <<>>,
         v.left = Tail(w.left), v.course = Head(w.left),
         v.step = IF v.course \in rq.policy THEN From(rq, ContentStep) ELSE w.step,
         v.scopes = w.scopes, v.listed = w.listed
  PROVE  Begun(rq, v) /\ Covered(rq, v)
  <1>1. rq.kind # "one" /\ ~GaveUp(rq, w)
    BY DEF Begun, GaveUp
  <1>2. /\ From(rq, ContentStep) \in ContentStep..EndStep
        /\ Wanted(rq, Steps[From(rq, ContentStep)])
        /\ \A k \in ContentStep..(From(rq, ContentStep) - 1) : ~Wanted(rq, Steps[k])
    <2>1. ContentStep \in 1..EndStep
      BY StepNames
    <2> QED
      BY <2>1, FromProps
  <1>3. v.step >= ContentStep /\ v.step \in 1..EndStep /\ Wanted(rq, Steps[v.step])
    BY <1>2, StepNames DEF Begun
  <1>4. Begun(rq, v)
    BY <1>1, <1>3, StepNames DEF Begun
  <1>5. ~Wanted(rq, "availability")
    BY <1>1 DEF Wanted, EventScope
  <1>6. Range(w.left) = {Head(w.left)} \cup Range(v.left)
    BY FirstAndRest DEF Locals
  <1>7. ASSUME NEW c \in Target(rq, v)
        PROVE  c \in Range(v.left) \/ Through(rq, v, c, IF c = v.course THEN v.step ELSE EndStep)
    <2>1. c \in Target(rq, w) /\ c \in rq.policy
      BY <1>1 DEF Target
    <2>2. CASE c = v.course
      <3>1. v.step = From(rq, ContentStep)
        BY <2>1, <2>2
      <3> QED
        BY <1>2, <2>2, <3>1 DEF Through
    <2>3. CASE c # v.course
      <3>1. c \in Range(w.left) \/ Through(rq, w, c, EndStep)
        BY <1>1, <2>1 DEF Covered
      <3>2. Through(rq, w, c, EndStep) => Through(rq, v, c, EndStep)
        BY DEF Through, Told
      <3> QED
        BY <1>6, <2>3, <3>1, <3>2
    <2> QED
      BY <2>2, <2>3
  <1>8. Told(v, "courses", Nothing)
    BY <1>1, StepNames DEF Covered, Told
  <1> QED
    BY <1>4, <1>5, <1>7, <1>8 DEF Covered

\* A step of a course is done
LEMMA AdvanceOnCourse ==
  ASSUME NEW rq, NEW w \in Locals, NEW v, Begun(rq, w), Covered(rq, w),
         w.step \in ContentStep..(EndStep - 1), v.step = From(rq, w.step + 1),
         v.left = w.left, v.listed = w.listed, v.course = w.course,
         Range(w.scopes) \subseteq Range(v.scopes),
         Steps[w.step] \in CourseScopes => Told(v, Steps[w.step], v.course)
  PROVE  Begun(rq, v) /\ Covered(rq, v)
  <1>1. ~GaveUp(rq, w) /\ w.step \in 3..11
    BY StepNames DEF GaveUp
  <1>2. /\ v.step \in (w.step + 1)..EndStep /\ Wanted(rq, Steps[v.step])
        /\ \A k \in (w.step + 1)..(v.step - 1) : ~Wanted(rq, Steps[k])
    <2>1. w.step + 1 \in 1..EndStep
      BY <1>1, StepNames
    <2> QED
      BY <2>1, FromProps
  <1>3. v.step \in 4..12 /\ v.step >= ContentStep /\ ~(v.step < ContentStep)
    BY <1>1, <1>2, StepNames
  <1>4. Begun(rq, v)
    BY <1>2, <1>3 DEF Begun
  <1>5. \A scope, c : Told(w, scope, c) => Told(v, scope, c)
    BY DEF Told
  <1>6. ASSUME NEW c \in Target(rq, v)
        PROVE  c \in Range(v.left) \/ Through(rq, v, c, IF c = v.course THEN v.step ELSE EndStep)
    <2>1. c \in Target(rq, w)
      BY DEF Target
    <2>2. c \in Range(w.left) \/ Through(rq, w, c, IF c = w.course THEN w.step ELSE EndStep)
      BY <1>1, <2>1 DEF Covered
    <2>3. CASE c # w.course
      BY <1>5, <2>2, <2>3 DEF Through
    <2>4. CASE c = w.course
      <3>1. ASSUME Through(rq, w, c, w.step) PROVE Through(rq, v, c, v.step)
        <4> SUFFICES ASSUME NEW k \in ContentStep..(v.step - 1),
                            Steps[k] \in CourseScopes, Wanted(rq, Steps[k])
                     PROVE  Told(v, Steps[k], c)
          BY DEF Through
        <4>1. \/ k \in ContentStep..(w.step - 1) \/ k = w.step \/ k \in (w.step + 1)..(v.step - 1)
          BY <1>1, <1>2, <1>3, StepNames
        <4> QED
          BY <1>2, <1>5, <2>4, <3>1, <4>1 DEF Through
      <3> QED
        BY <2>2, <2>4, <3>1
    <2> QED
      BY <2>3, <2>4
  <1>7. /\ rq.kind # "one" => Told(v, "courses", Nothing)
        /\ Wanted(rq, "availability") => Told(v, "availability", v.course)
    BY <1>1, <1>5, StepNames DEF Covered
  <1> QED
    BY <1>4, <1>6, <1>7 DEF Covered

\* What a scope result leaves in the locals
Leaves(r, c, seen, v) ==
  LET w == work[r]
      courses == IF Doing(r) = "courses" /\ request[r].kind = "all" THEN seen ELSE <<>>
  IN
  /\ v.course = w.course /\ v.keys = w.keys /\ v.reader = NoReader
  /\ v.step = IF Doing(r) = "courses" \/ (Doing(r) = "availability" /\ seen = <<>>) THEN EndStep
              ELSE From(request[r], w.step + 1)
  /\ v.listed = w.listed \o courses /\ v.left = w.left \o courses
  /\ Range(v.scopes) = Range(w.scopes) \cup
       {[scope |-> Doing(r), course |-> Named(Doing(r), w.course, known), coverage |-> c]}

LEMMA ConcludedFields ==
  ASSUME Typed, NEW r \in Run, NEW c, NEW seen
  PROVE  Leaves(r, c, seen, Concluded(r, c, seen))
  <1> DEFINE w == work[r]
             courses == IF Doing(r) = "courses" /\ request[r].kind = "all" THEN seen ELSE <<>>
             result == [scope |-> Doing(r), course |-> Named(Doing(r), w.course, known), coverage |-> c]
             n == IF Doing(r) = "courses" \/ (Doing(r) = "availability" /\ seen = <<>>) THEN EndStep
                  ELSE From(request[r], w.step + 1)
             content == IF Doing(r) = "content" THEN Range(seen) ELSE w.content
             v == [w EXCEPT !.reader = NoReader, !.step = n, !.listed = w.listed \o courses,
                            !.left = w.left \o courses, !.content = content,
                            !.scopes = Append(w.scopes, result)]
  <1>1. w \in Locals
    BY DEF Typed, TypeOK
  <1>2. Concluded(r, c, seen) = v
    BY DEF Concluded
  <1> HIDE DEF courses, result, n, content
  <1>3. /\ v.course = w.course /\ v.keys = w.keys /\ v.reader = NoReader /\ v.step = n
        /\ v.listed = w.listed \o courses /\ v.left = w.left \o courses
        /\ v.scopes = Append(w.scopes, result)
    BY <1>1 DEF Locals
  <1> HIDE DEF v
  <1>4. Range(v.scopes) = Range(w.scopes) \cup {result}
    BY <1>1, <1>3, OneMore DEF Locals
  <1> QED
    BY <1>2, <1>3, <1>4 DEF Leaves, courses, result, n

\* A step of a run that ends in a scope result
Concludes(r, c, seen) ==
  LET rd == work[r].reader IN
  /\ Doing(r) \in Listing \cup EventScope \cup {"resources", "local_jobs"}
  /\ Doing(r) = "availability" => IF seen = <<>> THEN c # "COMPLETE" ELSE work[r].course \in known
  /\ rd.phase # "CLOSED" /\ rd.seen # <<>> => c # "FAILED" /\ Doing(r) # "local_jobs"
  /\ Conclude(r, c, seen)

LEMMA ResultFacts ==
  ASSUME Typed, ReadInv, NEW r \in Run,
         LackCapability(r) \/ DenySession(r) \/ CloseReader(r) \/ FetchResources(r) \/ RunJobs(r)
  PROVE  \/ \E c, seen : Concludes(r, c, seen)
         \/ At(r, {"local_jobs"}) /\ Work(r, Onward(r))
  <1> DEFINE rd == work[r].reader
  <1>1. CASE LackCapability(r) \/ DenySession(r)
    <2>1. PICK c \in {"UNKNOWN", "FAILED"} : Conclude(r, c, <<>>)
      BY <1>1 DEF LackCapability, DenySession
    <2>2. Doing(r) \in Listing \cup EventScope /\ rd.phase = "CLOSED"
      BY <1>1 DEF LackCapability, DenySession, At, Between
    <2> QED
      BY <2>1, <2>2 DEF Concludes
  <1>2. CASE CloseReader(r)
    <2>1. /\ rd \in Reader /\ rd.phase = "READ" /\ rd.scope = Doing(r) /\ rd.course = work[r].course
          /\ Honest(rd) /\ Reads(r)
      BY <1>2 DEF CloseReader, Typed, Well, Fits, Doing, ReadInv
    <2>2. Doing(r) \in Listing \cup EventScope
      BY <2>1 DEF Reader
    <2>3. /\ rd.scope = "availability" /\ rd.seen = <<>> => Reported(rd) # "COMPLETE"
          /\ rd.seen # <<>> => Reported(rd) # "FAILED"
      BY <2>1 DEF Honest, Reported
    <2>4. rd.scope = "availability" /\ rd.seen # <<>> => work[r].course \in known
      BY <2>1 DEF Reads
    <2>5. Doing(r) # "local_jobs"
      BY <2>2 DEF Listing, EventScope
    <2>6. Conclude(r, Reported(rd), rd.seen)
      BY <1>2 DEF CloseReader
    <2> HIDE DEF rd
    <2> QED
      BY <2>1, <2>2, <2>3, <2>4, <2>5, <2>6 DEF Concludes, rd
  <1>3. CASE FetchResources(r)
    <2>1. PICK c : Conclude(r, c, <<>>)
      BY <1>3 DEF FetchResources
    <2>2. Doing(r) = "resources" /\ rd.phase = "CLOSED"
      BY <1>3 DEF FetchResources, At, Between
    <2> QED
      BY <2>1, <2>2 DEF Concludes
  <1>4. CASE RunJobs(r)
    <2>1. Doing(r) = "local_jobs" /\ rd.phase = "CLOSED" /\ At(r, {"local_jobs"})
      BY <1>4 DEF RunJobs, At, Between
    <2>2. Work(r, Onward(r)) \/ Conclude(r, "PARTIAL", <<>>)
      BY <1>4 DEF RunJobs
    <2> QED
      BY <2>1, <2>2 DEF Concludes
  <1> QED
    BY <1>1, <1>2, <1>3, <1>4

\* The steps of the locals of one run, and where they are in the course
LEMMA WhereItIs ==
  ASSUME Typed, NEW r \in Run
  PROVE  /\ work[r] \in Locals /\ work[r].step \in 1..EndStep /\ Doing(r) = Steps[work[r].step]
         /\ request[r] \in Request /\ (request[r].kind # "one" => request[r].course = Nothing)
  <1>1. work[r] \in Locals /\ request \in Requests
    BY DEF Typed, TypeOK
  <1> QED
    BY <1>1, RequestsTyped DEF Locals, Doing

\* A step that ends in a result keeps the account of the course
LEMMA ConcludeOnCourse ==
  ASSUME Typed, NEW r \in Run, NEW c, NEW seen, Concludes(r, c, seen),
         Begun(request[r], work[r]), Covered(request[r], work[r])
  PROVE  LET v == Concluded(r, c, seen) IN Begun(request[r], v) /\ Covered(request[r], v)
  <1> DEFINE rq == request[r]
             w == work[r]
             v == Concluded(r, c, seen)
             courses == IF Doing(r) = "courses" /\ rq.kind = "all" THEN seen ELSE <<>>
             result == [scope |-> Doing(r), course |-> Named(Doing(r), w.course, known), coverage |-> c]
  <1>1. /\ v.course = w.course
        /\ v.step = IF Doing(r) = "courses" \/ (Doing(r) = "availability" /\ seen = <<>>) THEN EndStep
                    ELSE From(rq, w.step + 1)
        /\ v.listed = w.listed \o courses /\ v.left = w.left \o courses
        /\ Range(v.scopes) = Range(w.scopes) \cup {result}
    <2>1. Leaves(r, c, seen, v)
      BY ConcludedFields
    <2> HIDE DEF v
    <2> QED
      BY <2>1 DEF Leaves
  <1>2. w \in Locals /\ (rq.kind # "one" => rq.course = Nothing)
    BY WhereItIs
  <1>9. w.step \in 1..EndStep
    BY WhereItIs
  <1>10. Doing(r) = Steps[w.step]
    BY WhereItIs
  <1>3. /\ Doing(r) \in Listing \cup EventScope \cup {"resources", "local_jobs"}
        /\ Doing(r) = "availability" => IF seen = <<>> THEN c # "COMPLETE" ELSE w.course \in known
    BY DEF Concludes
  <1>4. result.scope = Doing(r) /\ result.coverage = c /\ result \in Range(v.scopes)
    BY <1>1
  <1>5. Begun(rq, w) /\ Covered(rq, w)
    OBVIOUS
  <1> HIDE DEF v, w, rq
  <1>6. ASSUME Doing(r) = "courses" PROVE Begun(rq, v) /\ Covered(rq, v)
    <2>1. w.step = 1 /\ rq.kind # "one"
      <3>1. w.step = 1
        BY <1>9, <1>6, StepNames DEF Doing, w
      <3> QED
        BY <1>5, <3>1, StepNames DEF Begun, Wanted, EventScope
    <2>2. w.scopes = <<>> /\ w.listed = <<>> /\ w.left = <<>> /\ w.course = Nothing
      BY <1>2, <1>5, <2>1, StepNames DEF Begun
    <2>3. result.course = Nothing
      BY <1>6, <2>2 DEF Named
    <2>4. Told(v, "courses", Nothing)
      BY <1>4, <1>6, <2>3 DEF Told
    <2>5. v.left = v.listed /\ v.step = EndStep
      BY <1>1, <1>6, <2>2
    <2>6. Wanted(rq, Steps[EndStep]) /\ ~(EndStep < ContentStep)
      BY StepNames DEF Wanted, EventScope
    <2>7. Begun(rq, v)
      BY <2>1, <2>5, <2>6 DEF Begun
    <2>8. ~Wanted(rq, "availability")
      BY <2>1 DEF Wanted, EventScope
    <2>9. \A x \in Target(rq, v) : x \in Range(v.left)
      BY <2>1, <2>5 DEF Target
    <2> QED
      BY <2>4, <2>7, <2>8, <2>9 DEF Covered
  <1>7. ASSUME Doing(r) = "availability" PROVE Begun(rq, v) /\ Covered(rq, v)
    <2>1. w.step = 2 /\ rq.kind = "one"
      <3>1. w.step = 2
        BY <1>9, <1>7, StepNames DEF Doing, w
      <3> QED
        BY <1>5, <3>1, StepNames DEF Begun, Wanted, EventScope
    <2>2. /\ w.scopes = <<>> /\ w.listed = <<>> /\ w.left = <<>> /\ w.course = rq.course
          /\ courses = <<>>
      BY <1>5, <1>7, <2>1, StepNames DEF Begun
    <2>3. v.left = <<>> /\ v.listed = <<>> /\ v.course = rq.course
      BY <1>1, <2>2
    <2>4. Range(v.scopes) = {result}
      BY <1>1, <2>2 DEF Range
    <2>5. CASE seen = <<>>
      <3>1. v.step = EndStep
        BY <1>1, <1>7, <2>5
      <3>2. GaveUp(rq, v)
        BY <1>3, <1>4, <1>7, <2>1, <2>4, <2>5, <3>1 DEF GaveUp
      <3>3. Wanted(rq, Steps[EndStep]) /\ ~(EndStep < ContentStep)
        BY StepNames DEF Wanted, EventScope
      <3>4. Begun(rq, v)
        BY <2>3, <3>1, <3>3 DEF Begun
      <3> QED
        BY <2>1, <3>2, <3>4 DEF Covered
    <2>6. CASE seen # <<>>
      <3>1. v.step = From(rq, 3)
        BY <1>1, <1>7, <2>1, <2>6
      <3>2. /\ v.step \in 3..EndStep /\ Wanted(rq, Steps[v.step])
            /\ \A k \in 3..(v.step - 1) : ~Wanted(rq, Steps[k])
        <4>1. 3 \in 1..EndStep
          BY DEF EndStep
        <4> QED
          BY <3>1, <4>1, FromProps
      <3>3. Begun(rq, v)
        BY <2>3, <3>2, StepNames DEF Begun
      <3>4. result.course = v.course
        BY <1>1, <1>3, <1>7, <2>6 DEF Named
      <3>5. Told(v, "availability", v.course)
        BY <1>4, <1>7, <3>4 DEF Told
      <3>6. Target(rq, v) = {v.course}
        BY <2>1, <2>3 DEF Target
      <3>7. Through(rq, v, v.course, v.step)
        BY <3>2, StepNames DEF Through
      <3> QED
        BY <2>1, <3>3, <3>5, <3>6, <3>7 DEF Covered
    <2> QED
      BY <2>5, <2>6
  <1>8. ASSUME Doing(r) \notin {"courses", "availability"} PROVE Begun(rq, v) /\ Covered(rq, v)
    <2>1. w.step \in ContentStep..(EndStep - 1)
      BY <1>9, <1>10, <1>3, <1>8, StepNames DEF Listing, EventScope
    <2>2. v.step = From(rq, w.step + 1) /\ courses = <<>>
      BY <1>1, <1>8
    <2>3. v.left = w.left /\ v.listed = w.listed
      BY <1>1, <1>2, <2>2 DEF Locals
    <2>4. result.course = v.course
      BY <1>1, <1>8 DEF Named
    <2>5. Told(v, Steps[w.step], v.course)
      BY <1>10, <1>4, <2>4 DEF Told
    <2> HIDE DEF result, courses
    <2> QED
      BY <1>1, <1>2, <1>5, <2>1, <2>2, <2>3, <2>5, AdvanceOnCourse
  <1> QED
    BY <1>6, <1>7, <1>8 DEF v, w, rq

\* A run takes a step while it runs, or as it starts
LEMMA StepRuns ==
  ASSUME NEW r \in Run, Step(r) \/ StorageFails(r) \/ Crash(r)
  PROVE  StartRun(r) \/ status[r] = "RUNNING"
  BY DEF Step, NextCourse, LackCapability, DenySession, OpenListing, OpenAssessments, ReadPage,
         StopAtLimit, LeaveCycle, ReadError, StoreItem, ReadAssessment, RejectItem, Stamp, Observe,
         CloseReader, EnterEvents, RefuseInventory, PlanObservation, EndPlanning, FetchResources,
         RunJobs, RecordScope, RecordAttempt, Finish, Finishing, StorageFails, Crash, At, AtPage,
         AtItem, AtRecord, Reading, Between, Running

\* What the steps of a run leave alone
LEMMA StepFrame ==
  ASSUME Typed, NEW r \in Run, Step(r) \/ StorageFails(r) \/ Crash(r), NEW q \in Run, q # r
  PROVE  /\ request' = request /\ status'[q] = status[q] /\ work'[q] = work[q]
         /\ recorded'[q] = recorded[q] /\ (q \in aborted' <=> q \in aborted)
         /\ planned \subseteq planned'
         /\ \A k \in DOMAIN observation' : k[2] = q => k \in DOMAIN observation
  <1>1. /\ work \in [Run -> Locals] /\ recorded \in [Run -> Nat \X Nat]
        /\ DOMAIN status = Run /\ Range(observation) \subseteq Nat
    BY DEF Typed, TypeOK
  <1>2. ASSUME NEW w, Work(r, w)
        PROVE  /\ UNCHANGED <<request, status, recorded, aborted, planned, observation>>
               /\ work'[q] = work[q]
    BY <1>1, <1>2 DEF Work, rows
  <1>3. CASE \/ \E g : Turns(r, g)
             \/ \E g : Opens(r, g)
    BY <1>2, <1>3 DEF Turns, Opens
  <1>4. CASE StoreItem(r) /\ \E g : Stores(r, g)
    BY <1>1, <1>4 DEF StoreItem, Stores, rows
  <1>5. CASE Observe(r) /\ \E thing \in Thing, text \in Text, at \in Nat \ {0} :
                             \E g : Observes(r, thing, text, at, g)
    <2>1. PICK thing \in Thing, text \in Text, at \in Nat \ {0} : \E g : Observes(r, thing, text, at, g)
      BY <1>5
    <2>2. PICK g : Observes(r, thing, text, at, g)
      BY <2>1
    <2> DEFINE key == <<thing, r, text>>
    <2>3. key[2] = r
      OBVIOUS
    <2>4. DOMAIN Inserted(key, at) = DOMAIN observation \cup {key} /\ observation' = Inserted(key, at)
      BY <1>1, <2>2, InsertedKeeps DEF Observes
    <2>5. work'[q] = work[q]
      BY <1>1, <2>2 DEF Observes
    <2> HIDE DEF key
    <2> QED
      BY <1>5, <2>3, <2>4, <2>5 DEF Observe
  <1>6. CASE Closing(r)
    <2>1. /\ work'[q] = work[q] /\ UNCHANGED <<request, recorded, aborted, observation>>
      BY <1>6, ClosingFacts
    <2>2. CASE StartRun(r)
      BY <1>1, <2>1, <2>2 DEF StartRun, rows
    <2>3. CASE PlanObservation(r)
      BY <2>1, <2>3 DEF PlanObservation
    <2>4. CASE ~StartRun(r) /\ ~PlanObservation(r)
      <3>1. \E w : Work(r, w)
        BY <1>6, <2>4 DEF Closing, NextCourse, LackCapability, DenySession, CloseReader, FetchResources,
                          RunJobs, EnterEvents, EndPlanning, Conclude
      <3> QED
        BY <1>2, <2>1, <3>1
    <2> QED
      BY <2>2, <2>3, <2>4
  <1>7. CASE Quiet(r)
    BY <1>1, <1>7 DEF Quiet, Abort, RecordScope, RecordAttempt, Finish, Crash, rows
  <1> QED
    BY <1>3, <1>4, <1>5, <1>6, <1>7, StepKinds

LEMMA OthersStay ==
  ASSUME Typed, RunInv, NEW r \in Run, Step(r) \/ StorageFails(r) \/ Crash(r), NEW q \in Run, q # r
  PROVE  OnCourse(q)' /\ Plans(q)' /\ Ends(q)'
  <1>1. /\ request' = request /\ status'[q] = status[q] /\ work'[q] = work[q]
        /\ recorded'[q] = recorded[q] /\ (q \in aborted' <=> q \in aborted)
        /\ planned \subseteq planned'
        /\ \A k \in DOMAIN observation' : k[2] = q => k \in DOMAIN observation
    BY StepFrame
  <1>2. OnCourse(q) /\ Plans(q) /\ Ends(q)
    BY DEF RunInv
  <1>3. Plans(q)'
    <2>1. Mine(q)' \subseteq Mine(q)
      BY <1>1 DEF Mine
    <2> QED
      BY <1>1, <1>2, <2>1 DEF Plans
  <1>4. OnCourse(q)'
    BY <1>1, <1>2 DEF OnCourse
  <1>5. Ends(q)'
    BY <1>1, <1>2 DEF Ends
  <1> QED
    BY <1>3, <1>4, <1>5

\* A run that goes on has not ended
LEMMA EndsLater ==
  ASSUME NEW r \in Run, Ends(r), status[r] \in {"NEW", "RUNNING"},
         status'[r] \in {"NEW", "RUNNING"}, aborted' = aborted
  PROVE  Ends(r)'
  BY DEF Ends

\* What the locals must keep for what was observed
LEMMA PlansOn ==
  ASSUME NEW r \in Run, Plans(r), NEW w, work'[r] = w,
         observation' = observation, planned' = planned, w.keys = work[r].keys,
         w.keys # <<>> => w.step \in 5..9,
         Range(work[r].scopes) \subseteq Range(w.scopes),
         work[r].reader.phase # "CLOSED" /\ work[r].reader.seen # <<>> =>
           \/ w.reader.phase # "CLOSED" /\ w.reader.seen # <<>>
           \/ \E s \in Range(w.scopes) : s.scope # "local_jobs" /\ s.coverage # "FAILED"
  PROVE  Plans(r)'
  <1>1. Mine(r)' = Mine(r)
    BY DEF Mine
  <1> QED
    BY <1>1 DEF Plans

\* A step of a run after which it still runs and has observed nothing more
LEMMA MovesOn ==
  ASSUME RunInv, NEW r \in Run, status[r] \in {"NEW", "RUNNING"}, status'[r] = "RUNNING",
         NEW w, work'[r] = w, UNCHANGED <<request, aborted, observation, planned>>,
         Begun(request[r], w), Covered(request[r], w),
         w.keys = work[r].keys, w.keys # <<>> => w.step \in 5..9,
         Range(work[r].scopes) \subseteq Range(w.scopes),
         work[r].reader.phase # "CLOSED" /\ work[r].reader.seen # <<>> =>
           \/ w.reader.phase # "CLOSED" /\ w.reader.seen # <<>>
           \/ \E s \in Range(w.scopes) : s.scope # "local_jobs" /\ s.coverage # "FAILED"
  PROVE  OnCourse(r)' /\ Plans(r)' /\ Ends(r)'
  <1>1. Plans(r) /\ Ends(r)
    BY DEF RunInv
  <1>2. Plans(r)'
    BY <1>1, PlansOn
  <1>3. Ends(r)'
    BY <1>1, EndsLater
  <1>4. OnCourse(r)'
    BY DEF OnCourse
  <1> QED
    BY <1>2, <1>3, <1>4

LEMMA ReaderOn ==
  ASSUME RunInv, NEW r \in Run, status[r] = "RUNNING", NEW w, work'[r] = w,
         UNCHANGED <<request, status, aborted, observation, planned>>,
         w.step = work[r].step, w.scopes = work[r].scopes, w.listed = work[r].listed,
         w.left = work[r].left, w.course = work[r].course, w.keys = work[r].keys,
         work[r].reader.phase # "CLOSED" /\ work[r].reader.seen # <<>> =>
           w.reader.phase # "CLOSED" /\ w.reader.seen # <<>>
  PROVE  OnCourse(r)' /\ Plans(r)' /\ Ends(r)'
  <1>1. /\ Begun(request[r], work[r]) /\ Covered(request[r], work[r])
        /\ work[r].keys # <<>> => work[r].step \in 5..9
    BY DEF RunInv, OnCourse, Plans
  <1>2. Begun(request[r], w) /\ Covered(request[r], w)
    BY <1>1, SameWay
  <1> QED
    BY <1>1, <1>2, MovesOn

\* Pages and items that are read or stored
LEMMA TurnsOn ==
  ASSUME Typed, RunInv, NEW r \in Run, status[r] = "RUNNING",
         \/ \E g : Turns(r, g) \/ Opens(r, g)
         \/ StoreItem(r) /\ \E g : Stores(r, g)
  PROVE  OnCourse(r)' /\ Plans(r)' /\ Ends(r)'
  <1>1. PICK g :
          /\ work' = [work EXCEPT ![r] = [work[r] EXCEPT !.reader = g]]
          /\ UNCHANGED <<request, status, aborted, observation, planned>>
          /\ work[r].reader.phase # "CLOSED" /\ work[r].reader.seen # <<>> =>
               g.phase # "CLOSED" /\ g.seen # <<>>
    BY DEF Turns, Opens, Stores, StoreItem, Work, Goes, rows
  <1>2. work \in [Run -> Locals] /\ work[r] \in Locals
    BY DEF Typed, TypeOK
  <1> DEFINE w == [work[r] EXCEPT !.reader = g]
  <1>3. /\ w.step = work[r].step /\ w.scopes = work[r].scopes /\ w.listed = work[r].listed
        /\ w.left = work[r].left /\ w.course = work[r].course /\ w.keys = work[r].keys
        /\ w.reader = g
    BY <1>2 DEF Locals
  <1>4. work'[r] = w
    BY <1>1, <1>2
  <1> HIDE DEF w
  <1> QED
    BY <1>1, <1>3, <1>4, ReaderOn

\* A record that is stored
LEMMA ObservesOn ==
  ASSUME Typed, RunInv, NEW r \in Run, status[r] = "RUNNING", Observe(r),
         \E thing \in Thing, text \in Text, at \in Nat \ {0} : \E g : Observes(r, thing, text, at, g)
  PROVE  OnCourse(r)' /\ Plans(r)' /\ Ends(r)'
  <1>1. PICK thing \in Thing, text \in Text, at \in Nat \ {0} : \E g : Observes(r, thing, text, at, g)
    OBVIOUS
  <1>2. PICK g : Observes(r, thing, text, at, g)
    BY <1>1
  <1> DEFINE key == <<thing, r, text>>
             keys == Append(work[r].keys, key)
             w == [work[r] EXCEPT !.reader = g, !.keys = keys]
  <1>3. /\ work \in [Run -> Locals] /\ work[r] \in Locals /\ Range(observation) \subseteq Nat
        /\ Well(work[r], DOMAIN observation) /\ work[r].step \in 1..EndStep
    BY DEF Typed, TypeOK, Locals
  <1>4. /\ key \in Key /\ work' = [work EXCEPT ![r] = w]
        /\ observation' = Inserted(key, at)
        /\ g.phase # "CLOSED" /\ g.seen # <<>>
        /\ work[r].reader.scope \in EventScope /\ work[r].reader.phase = "READING"
    <2>1. key \in Key /\ work' = [work EXCEPT ![r] = w] /\ observation' = Inserted(key, at)
      BY <1>2 DEF Observes
    <2>2. Goes(work[r].reader, g) /\ g.seen # <<>>
      BY <1>2 DEF Observes
    <2>3. work[r].reader.scope \in EventScope /\ work[r].reader.phase = "READING"
      BY <1>2 DEF Observes
    <2> HIDE DEF key, w
    <2> QED
      BY <2>1, <2>2, <2>3 DEF Goes
  <1>5. Range(keys) = Range(work[r].keys) \cup {key} /\ keys # <<>>
    BY <1>3, OneMore DEF Locals
  <1>6. DOMAIN observation' = DOMAIN observation \cup {key}
    BY <1>3, <1>4, InsertedKeeps
  <1>7. work[r].step \in 5..8
    <2>1. Steps[work[r].step] \in EventScope
      BY <1>3, <1>4 DEF Well
    <2> QED
      BY <1>3, <2>1, StepNames DEF EventScope
  <1> HIDE DEF key, keys
  <1>8. /\ w.step = work[r].step /\ w.scopes = work[r].scopes /\ w.listed = work[r].listed
        /\ w.left = work[r].left /\ w.course = work[r].course /\ w.keys = keys
        /\ w.reader = g
    BY <1>3 DEF Locals
  <1>9. work'[r] = w
    BY <1>3, <1>4
  <1>10. UNCHANGED <<request, status, aborted, planned>>
    BY DEF Observe
  <1> HIDE DEF w
  <1>11. Begun(request[r], work[r]) /\ Covered(request[r], work[r]) /\ Plans(r) /\ Ends(r)
    BY DEF RunInv, OnCourse
  <1>12. OnCourse(r)'
    <2>1. Begun(request[r], w) /\ Covered(request[r], w)
      BY <1>8, <1>11, SameWay
    <2> QED
      BY <1>9, <1>10, <2>1 DEF OnCourse
  <1>13. Ends(r)'
    BY <1>10, <1>11, EndsLater
  <1>14. Plans(r)'
    <2>1. Mine(r)' \subseteq Mine(r) \cup {key}
      BY <1>6 DEF Mine
    <2>2. Mine(r) \subseteq planned \cup Range(work[r].keys)
      BY <1>11 DEF Plans
    <2>3. Mine(r)' \subseteq planned' \cup Range(w.keys)
      BY <1>5, <1>8, <1>10, <2>1, <2>2
    <2>4. w.step \in 5..9
      BY <1>7, <1>8
    <2> QED
      BY <1>4, <1>8, <1>9, <2>3, <2>4 DEF Plans
  <1> QED
    BY <1>12, <1>13, <1>14

\* A run starts, or goes to its next course
LEMMA BeginsOn ==
  ASSUME Typed, RunInv, NEW r \in Run, StartRun(r) \/ (NextCourse(r) /\ status[r] = "RUNNING")
  PROVE  OnCourse(r)' /\ Plans(r)' /\ Ends(r)'
  <1>1. /\ work \in [Run -> Locals] /\ work[r] \in Locals /\ DOMAIN status = Run
        /\ request[r].kind # "one" => request[r].course = Nothing
    BY WhereItIs DEF Typed, TypeOK
  <1>2. CASE StartRun(r)
    <2> DEFINE n == From(request[r], 1)
               c == request[r].course
               content == IF request[r].events = {"assessments"} THEN KnownAssessments(c) ELSE {}
               w == [work[r] EXCEPT !.step = n, !.course = c, !.content = content]
    <2>1. work[r] = NoWork /\ status[r] = "NEW"
      BY <1>2 DEF StartRun, MayStart, Typed
    <2>2. work' = [work EXCEPT ![r] = w]
      BY <1>1, <1>2 DEF StartRun
    <2>3. /\ status'[r] = "RUNNING" /\ UNCHANGED <<request, aborted, observation, planned>>
      BY <1>1, <1>2 DEF StartRun, rows
    <2> HIDE DEF n, c, content
    <2>4. /\ w.step = n /\ w.course = c /\ w.scopes = work[r].scopes /\ w.left = work[r].left
          /\ w.listed = work[r].listed /\ w.keys = work[r].keys /\ w.reader = work[r].reader
      BY <1>1 DEF Locals
    <2>5. work'[r] = w
      BY <1>1, <2>2
    <2> HIDE DEF w
    <2>6. /\ work[r].scopes = <<>> /\ work[r].left = <<>> /\ work[r].listed = <<>>
          /\ work[r].keys = <<>> /\ work[r].reader.phase = "CLOSED"
      BY <2>1, NoReaderFits DEF NoWork
    <2>7. Begun(request[r], w) /\ Covered(request[r], w)
      BY <1>1, <2>4, <2>6, StartOnCourse DEF n, c
    <2> QED
      BY <2>1, <2>3, <2>4, <2>5, <2>6, <2>7, MovesOn
  <1>3. CASE NextCourse(r) /\ status[r] = "RUNNING"
    <2> DEFINE rest == Tail(work[r].left)
               c == Head(work[r].left)
               n == IF Selected(r, c) THEN From(request[r], ContentStep) ELSE work[r].step
               w == [work[r] EXCEPT !.left = rest, !.course = c, !.step = n]
    <2>1. /\ work[r].left # <<>> /\ work[r].reader.phase = "CLOSED" /\ Doing(r) = "end"
          /\ Work(r, w)
      BY <1>3 DEF NextCourse, At, Between
    <2>2. work[r].step = EndStep
      <3>1. work[r].step \in 1..EndStep
        BY WhereItIs
      <3> QED
        BY <2>1, <3>1, StepNames DEF Doing
    <2>3. work[r].keys = <<>>
      BY SMTT(30), <2>2, StepNames DEF RunInv, Plans
    <2> HIDE DEF n, c, rest
    <2>4. /\ w.step = n /\ w.course = c /\ w.left = rest /\ w.scopes = work[r].scopes
          /\ w.listed = work[r].listed /\ w.keys = work[r].keys /\ w.reader = work[r].reader
      BY <1>1 DEF Locals
    <2> HIDE DEF w
    <2>5. work'[r] = w /\ UNCHANGED <<request, status, aborted, observation, planned>>
      BY <1>1, <2>1 DEF Work, rows
    <2>6. Begun(request[r], work[r]) /\ Covered(request[r], work[r])
      BY <1>3 DEF RunInv, OnCourse
    <2>7. Begun(request[r], w) /\ Covered(request[r], w)
      <3>1. w.step = IF w.course \in request[r].policy THEN From(request[r], ContentStep)
                     ELSE work[r].step
        BY <2>4 DEF n, Selected
      <3> QED
        BY <1>1, <2>1, <2>2, <2>4, <2>6, <3>1, NextOnCourse DEF rest, c
    <2> QED
      BY <1>3, <2>1, <2>3, <2>4, <2>5, <2>7, MovesOn
  <1> QED
    BY <1>2, <1>3

\* A step of a run that leaves no result
LEMMA OnwardOn ==
  ASSUME Typed, RunInv, NEW r \in Run, status[r] = "RUNNING",
         \/ EnterEvents(r) \/ EndPlanning(r)
         \/ At(r, {"local_jobs"}) /\ Work(r, Onward(r))
  PROVE  OnCourse(r)' /\ Plans(r)' /\ Ends(r)'
  <1> DEFINE n == From(request[r], work[r].step + 1)
             w == [work[r] EXCEPT !.step = n]
  <1>1. /\ Doing(r) \in {"events", "plan", "local_jobs"} /\ work[r].reader.phase = "CLOSED"
        /\ Doing(r) = "plan" => work[r].keys = <<>>
    BY DEF EnterEvents, EndPlanning, At, Between
  <1>2. Work(r, w)
    BY DEF EnterEvents, EndPlanning, Onward
  <1>3. work \in [Run -> Locals] /\ work[r] \in Locals /\ work[r].step \in 1..EndStep
    BY DEF Typed, TypeOK, Locals
  <1>4. work[r].step \in {4, 9, 11} /\ (Doing(r) = "plan" <=> work[r].step = 9)
    BY <1>1, <1>3, StepNames DEF Doing
  <1>5. work[r].keys = <<>>
    BY <1>1, <1>4 DEF RunInv, Plans
  <1>6. Begun(request[r], work[r]) /\ Covered(request[r], work[r])
    BY DEF RunInv, OnCourse
  <1> HIDE DEF n
  <1>7. /\ w.step = n /\ w.scopes = work[r].scopes /\ w.listed = work[r].listed
        /\ w.left = work[r].left /\ w.course = work[r].course /\ w.keys = work[r].keys
        /\ w.reader = work[r].reader
    BY <1>3 DEF Locals
  <1> HIDE DEF w
  <1>8. work'[r] = w /\ UNCHANGED <<request, status, aborted, observation, planned>>
    BY <1>2, <1>3 DEF Work, rows
  <1>9. Begun(request[r], w) /\ Covered(request[r], w)
    <2>1. Steps[work[r].step] \notin CourseScopes
      BY <1>4, StepNames DEF CourseScopes, EventScope
    <2>2. work[r].step \in ContentStep..(EndStep - 1)
      BY <1>4, StepNames
    <2> QED
      BY <1>3, <1>6, <1>7, <2>1, <2>2, AdvanceOnCourse DEF n
  <1> QED
    BY <1>1, <1>5, <1>7, <1>8, <1>9, MovesOn

\* A step that ends in a result
LEMMA ConcludesOn ==
  ASSUME Typed, RunInv, NEW r \in Run, status[r] = "RUNNING",
         NEW c, NEW seen, Concludes(r, c, seen)
  PROVE  OnCourse(r)' /\ Plans(r)' /\ Ends(r)'
  <1> DEFINE w == Concluded(r, c, seen)
             result == [scope |-> Doing(r), course |-> Named(Doing(r), work[r].course, known), coverage |-> c]
  <1>1. Begun(request[r], work[r]) /\ Covered(request[r], work[r]) /\ Plans(r)
    BY DEF RunInv, OnCourse
  <1>2. Begun(request[r], w) /\ Covered(request[r], w)
    BY <1>1, ConcludeOnCourse
  <1>3. Leaves(r, c, seen, w)
    BY ConcludedFields
  <1>4. work \in [Run -> Locals] /\ work[r].step \in 1..EndStep
    BY DEF Typed, TypeOK, Locals
  <1>5. /\ Work(r, w)
        /\ Doing(r) \in Listing \cup EventScope \cup {"resources", "local_jobs"}
        /\ work[r].reader.phase # "CLOSED" /\ work[r].reader.seen # <<>> =>
             c # "FAILED" /\ Doing(r) # "local_jobs"
    BY DEF Concludes, Conclude
  <1> HIDE DEF w
  <1>6. work'[r] = w /\ UNCHANGED <<request, status, aborted, observation, planned>>
    BY <1>4, <1>5 DEF Work, rows
  <1>7. w.keys = work[r].keys /\ Range(w.scopes) = Range(work[r].scopes) \cup {result}
    BY <1>3 DEF Leaves
  <1>8. work[r].keys # <<>> => w.step \in 5..9
    <2> SUFFICES ASSUME work[r].keys # <<>> PROVE w.step \in 5..9
      OBVIOUS
    <2>1. work[r].step \in 5..8
      <3>1. work[r].step \in 5..9
        BY <1>1 DEF Plans
      <3>2. work[r].step # 9
        BY <1>5, StepNames DEF Doing, Listing, EventScope
      <3> QED
        BY <3>1, <3>2
    <2>2. Doing(r) \in EventScope
      BY <2>1, StepNames DEF Doing, EventScope
    <2>3. w.step = From(request[r], work[r].step + 1)
      BY <1>3, <2>2 DEF Leaves, EventScope
    <2>4. Wanted(request[r], Steps[9])
      BY StepNames DEF Wanted, EventScope
    <2>5. /\ work[r].step + 1 \in 1..EndStep
          /\ 9 \in (work[r].step + 1)..EndStep
      BY <2>1, StepNames
    <2>6. From(request[r], work[r].step + 1) <= 9
      BY <2>4, <2>5, FromAtMost
    <2>7. From(request[r], work[r].step + 1) \in (work[r].step + 1)..EndStep
      BY <2>5, FromProps
    <2> QED
      BY <2>1, <2>3, <2>6, <2>7, StepNames
  <1>9. result.scope = Doing(r) /\ result.coverage = c
    OBVIOUS
  <1> HIDE DEF result
  <1> QED
    BY <1>2, <1>5, <1>6, <1>7, <1>8, <1>9, MovesOn

\* An observation is planned
LEMMA PlansNext ==
  ASSUME Typed, RunInv, NEW r \in Run, status[r] = "RUNNING", PlanObservation(r)
  PROVE  OnCourse(r)' /\ Plans(r)' /\ Ends(r)'
  <1> DEFINE rest == Tail(work[r].keys)
             w == [work[r] EXCEPT !.keys = rest]
  <1>1. work \in [Run -> Locals] /\ work[r] \in Locals /\ work[r].step \in 1..EndStep
    BY DEF Typed, TypeOK, Locals
  <1>2. /\ Doing(r) = "plan" /\ work[r].keys # <<>> /\ work[r].reader.phase = "CLOSED"
        /\ planned' = planned \cup {Head(work[r].keys)}
        /\ UNCHANGED <<request, status, aborted, observation>>
    BY DEF PlanObservation, At, Between
  <1>3. work' = [work EXCEPT ![r] = w]
    BY <1>1 DEF PlanObservation
  <1>4. Range(work[r].keys) = {Head(work[r].keys)} \cup Range(rest)
    BY <1>1, <1>2, FirstAndRest DEF Locals
  <1>5. work[r].step = 9
    BY <1>1, <1>2, StepNames DEF Doing
  <1> HIDE DEF rest
  <1>6. /\ w.step = work[r].step /\ w.scopes = work[r].scopes /\ w.listed = work[r].listed
        /\ w.left = work[r].left /\ w.course = work[r].course /\ w.keys = rest
        /\ w.reader = work[r].reader
    BY <1>1 DEF Locals
  <1>7. work'[r] = w
    BY <1>1, <1>3
  <1> HIDE DEF w
  <1>8. Begun(request[r], work[r]) /\ Covered(request[r], work[r]) /\ Plans(r) /\ Ends(r)
    BY DEF RunInv, OnCourse
  <1>9. OnCourse(r)'
    <2>1. Begun(request[r], w) /\ Covered(request[r], w)
      BY <1>6, <1>8, SameWay
    <2> QED
      BY <1>2, <1>7, <2>1 DEF OnCourse
  <1>10. Ends(r)'
    BY <1>2, <1>8, EndsLater
  <1>11. Plans(r)'
    <2>1. Mine(r)' = Mine(r)
      BY <1>2 DEF Mine
    <2>2. Mine(r) \subseteq planned' \cup Range(w.keys)
      BY <1>2, <1>4, <1>6, <1>8 DEF Plans
    <2>3. w.step \in 5..9
      BY <1>5, <1>6
    <2>4. work'[r].scopes = work[r].scopes /\ work'[r].reader = work[r].reader
      BY <1>6, <1>7
    <2>5. Mine(r) # {} =>
            \/ \E s \in Range(work[r].scopes) : s.scope # "local_jobs" /\ s.coverage # "FAILED"
            \/ work[r].reader.phase # "CLOSED" /\ work[r].reader.seen # <<>>
      BY <1>8 DEF Plans
    <2> QED
      BY <1>7, <2>1, <2>2, <2>3, <2>4, <2>5 DEF Plans
  <1> QED
    BY <1>9, <1>10, <1>11

\* A run records, ends, fails or dies
LEMMA QuietOn ==
  ASSUME Typed, RunInv, NEW r \in Run, status[r] = "RUNNING", Quiet(r)
  PROVE  OnCourse(r)' /\ Plans(r)' /\ Ends(r)'
  <1>1. /\ DOMAIN status = Run /\ work[r] \in Locals
        /\ recorded \in [Run -> Nat \X Nat]
        /\ recorded[r][2] <= recorded[r][1] /\ recorded[r][1] <= Len(work[r].scopes)
        /\ work[r].step \in 1..EndStep /\ Len(work[r].scopes) \in Nat
    BY Members DEF Typed, TypeOK, Locals
  <1>2. OnCourse(r) /\ Plans(r) /\ Ends(r) /\ r \notin aborted
    BY DEF RunInv, Ends
  <1>3. UNCHANGED <<request, work, observation, planned>>
    BY DEF Quiet, Abort, RecordScope, RecordAttempt, Finish, Crash, rows
  <1>4. OnCourse(r)'
    BY <1>2, <1>3 DEF OnCourse
  <1>5. Plans(r)'
    BY <1>2, <1>3 DEF Plans, Mine
  <1>6. Ends(r)'
    <2>1. CASE RecordScope(r) \/ RecordAttempt(r) \/ Crash(r)
      <3>1. status' = status /\ aborted' = aborted
        BY <2>1 DEF RecordScope, RecordAttempt, Crash
      <3> QED
        BY <1>2, <3>1, EndsLater
    <2>2. CASE Abort(r)
      <3>1. r \in aborted' /\ status'[r] = "FAILED"
        BY <1>1, <2>2 DEF Abort
      <3> QED
        BY <3>1 DEF Ends
    <2>3. CASE Finish(r)
      <3>1. /\ Doing(r) = "end" /\ work[r].reader.phase = "CLOSED" /\ work[r].left = <<>>
            /\ recorded[r][2] = Len(work[r].scopes)
            /\ status'[r] = RunStatus(work[r].scopes)
            /\ UNCHANGED <<work, recorded, aborted>>
        BY <1>1, <2>3 DEF Finish, Finishing, At, Between
      <3>2. work[r].step = EndStep
        <4>1. work[r].step \in 1..EndStep
          BY <1>1
        <4>2. Doing(r) = "end"
          BY <3>1
        <4> QED
          BY <4>1, <4>2, StepNames DEF Doing
      <3>3. recorded[r][1] = Len(work[r].scopes) /\ recorded[r] \in Nat \X Nat
        BY <1>1, <3>1
      <3>4. recorded[r] = <<Len(work[r].scopes), Len(work[r].scopes)>>
        BY <3>1, <3>3
      <3> QED
        BY <1>2, <3>1, <3>2, <3>4 DEF Ends
    <2> QED
      BY <2>1, <2>2, <2>3 DEF Quiet
  <1> QED
    BY <1>4, <1>5, <1>6

LEMMA RunStep ==
  ASSUME Typed, ReadInv, RunInv, [Next]_vars PROVE RunInv'
  <1>1. CASE UNCHANGED vars \/ Rest \/ Tick
    <2>1. UNCHANGED <<request, status, work, recorded, aborted, observation, planned>>
      BY <1>1 DEF vars, rows, Rest, Tick
    <2> QED
      BY <2>1 DEF RunInv, OnCourse, Plans, Mine, Ends
  <1>2. ASSUME NEW r \in Run, Step(r) \/ StorageFails(r) \/ Crash(r) PROVE RunInv'
    <2>1. OnCourse(r)' /\ Plans(r)' /\ Ends(r)'
      <3>1. StartRun(r) \/ status[r] = "RUNNING"
        BY <1>2, StepRuns
      <3>2. CASE StartRun(r)
        BY <3>2, BeginsOn
      <3>3. ASSUME status[r] = "RUNNING", Closing(r), ~StartRun(r)
            PROVE  OnCourse(r)' /\ Plans(r)' /\ Ends(r)'
        <4>1. CASE NextCourse(r)
          BY <3>3, <4>1, BeginsOn
        <4>2. CASE PlanObservation(r)
          BY <3>3, <4>2, PlansNext
        <4>3. CASE EnterEvents(r) \/ EndPlanning(r)
          BY <3>3, <4>3, OnwardOn
        <4>4. CASE LackCapability(r) \/ DenySession(r) \/ CloseReader(r) \/ FetchResources(r) \/ RunJobs(r)
          <5>1. CASE At(r, {"local_jobs"}) /\ Work(r, Onward(r))
            BY <3>3, <5>1, OnwardOn
          <5>2. CASE \E c, seen : Concludes(r, c, seen)
            BY <3>3, <5>2, ConcludesOn
          <5> QED
            BY <4>4, <5>1, <5>2, ResultFacts
        <4> QED
          BY <3>3, <4>1, <4>2, <4>3, <4>4 DEF Closing
      <3>4. CASE status[r] = "RUNNING" /\ ~StartRun(r)
        <4>1. CASE Closing(r)
          BY <3>3, <3>4, <4>1
        <4>2. CASE Quiet(r)
          BY <3>4, <4>2, QuietOn
        <4>3. CASE Observe(r) /\ \E thing \in Thing, text \in Text, at \in Nat \ {0} :
                                   \E g : Observes(r, thing, text, at, g)
          BY <3>4, <4>3, ObservesOn
        <4>4. CASE \/ \E g : Turns(r, g) \/ Opens(r, g)
                   \/ StoreItem(r) /\ \E g : Stores(r, g)
          BY <3>4, <4>4, TurnsOn
        <4> QED
          BY <1>2, <4>1, <4>2, <4>3, <4>4, StepKinds
      <3> QED
        BY <3>1, <3>2, <3>4
    <2>2. ASSUME NEW q \in Run, q # r PROVE OnCourse(q)' /\ Plans(q)' /\ Ends(q)'
      BY <1>2, <2>2, OthersStay
    <2>3. ASSUME NEW q \in Run PROVE (OnCourse(q) /\ Plans(q) /\ Ends(q))'
      BY <2>1, <2>2
    <2> QED
      BY <2>3 DEF RunInv
  <1> QED
    BY <1>1, <1>2 DEF Next

LEMMA AlwaysAccounts == Spec => []RunInv
  <1>1. Init => RunInv
    <2> SUFFICES ASSUME Init, NEW r \in Run PROVE OnCourse(r) /\ Plans(r) /\ Ends(r)
      BY DEF RunInv
    <2>1. status[r] = "NEW" /\ work[r] = NoWork /\ DOMAIN observation = {} /\ aborted = {}
      BY DEF Init
    <2>2. NoWork.keys = <<>>
      BY DEF NoWork
    <2> QED
      BY <2>1, <2>2 DEF OnCourse, Plans, Mine, Ends
  <1>2. Typed /\ ReadInv /\ RunInv /\ [Next]_vars => RunInv'
    BY RunStep
  <1> QED
    BY <1>1, <1>2, AlwaysTyped, AlwaysReads, PTL DEF Spec

\* At the end of a run nothing that was asked for lacks its result, but for a
\* course that was not found
LEMMA AskedIsTold ==
  ASSUME Typed, NEW r \in Run, Begun(request[r], work[r]), Covered(request[r], work[r]),
         work[r].step = EndStep, work[r].left = <<>>, ~GaveUp(request[r], work[r]),
         NEW f \in Asked(r)
  PROVE  \E s \in Range(work[r].scopes) : f = For(s.scope, s.course)
  <1> DEFINE rq == request[r]
             w == work[r]
             scopes == {s \in {"content"} : rq.content} \cup rq.events \cup {s \in {"resources"} : rq.fetch}
  <1>1. rq \in Request
    BY WhereItIs
  <1>2. \A scope, c : Told(w, scope, c) => \E s \in Range(w.scopes) : For(scope, c) = For(s.scope, s.course)
    BY DEF Told, For
  <1>3. ASSUME NEW scope \in scopes PROVE
          \E k \in ContentStep..(EndStep - 1) :
            Steps[k] = scope /\ scope \in CourseScopes /\ Wanted(rq, scope)
    <2>1. \/ scope = "content" /\ rq.content
          \/ scope \in rq.events /\ scope \in EventScope
          \/ scope = "resources" /\ rq.fetch
      BY <1>1 DEF Request
    <2>2. scope \in CourseScopes /\ Wanted(rq, scope)
      BY <2>1 DEF CourseScopes, Wanted, EventScope
    <2>3. \E k \in {3, 5, 6, 7, 8, 10} : Steps[k] = scope
      BY <2>1, StepNames DEF EventScope
    <2>4. {3, 5, 6, 7, 8, 10} \subseteq ContentStep..(EndStep - 1)
      BY StepNames
    <2> QED
      BY <2>2, <2>3, <2>4
  <1>4. ASSUME NEW c \in Target(rq, w), NEW scope \in scopes PROVE Told(w, scope, c)
    <2>1. Through(rq, w, c, EndStep)
      <3>1. c \in Range(w.left) \/ Through(rq, w, c, IF c = w.course THEN w.step ELSE EndStep)
        BY <1>4 DEF Covered
      <3>2. Range(w.left) = {}
        BY DEF Range
      <3> QED
        BY <3>1, <3>2
    <2>2. PICK k \in ContentStep..(EndStep - 1) :
            Steps[k] = scope /\ scope \in CourseScopes /\ Wanted(rq, scope)
      BY <1>3
    <2> QED
      BY <2>1, <2>2 DEF Through
  <1>5. CASE rq.kind = "one"
    <2>1. w.course = rq.course /\ Target(rq, w) = {rq.course}
      BY <1>5 DEF Begun, Target
    <2>2. rq.availability => Told(w, "availability", rq.course)
      <3>1. rq.availability => Wanted(rq, "availability")
        BY <1>5 DEF Wanted, EventScope
      <3>2. w.step >= ContentStep
        BY StepNames
      <3>3. Wanted(rq, "availability") => Told(w, "availability", w.course)
        BY <3>2 DEF Covered
      <3> QED
        BY <2>1, <3>1, <3>3
    <2>3. \/ rq.availability /\ f = For("availability", rq.course)
          \/ \E scope \in scopes : f = For(scope, rq.course)
      BY <1>5 DEF Asked
    <2> HIDE DEF scopes, w, rq
    <2> QED
      BY <1>2, <1>4, <2>1, <2>2, <2>3 DEF w
  <1>6. CASE rq.kind # "one"
    <2>1. Target(rq, w) = Range(w.listed) \cap rq.policy
      BY <1>6 DEF Target
    <2>2. Told(w, "courses", Nothing)
      BY <1>6, StepNames DEF Covered
    <2>3. \/ f = For("courses", Nothing)
          \/ \E scope \in scopes, c \in Range(w.listed) \cap rq.policy : f = For(scope, c)
      BY <1>6 DEF Asked
    <2> HIDE DEF scopes, w, rq
    <2> QED
      BY <1>2, <1>4, <2>1, <2>2, <2>3 DEF w
  <1> QED
    BY <1>5, <1>6

\* The status of a run that ended by itself says what became of what it was
\* asked for: nothing is passed over in silence, whatever pages repeat, fail or
\* are cut off, and what was observed is planned for (_finish and
\* _sync_discovered_course in sync/engine.py).
THEOREM RunTruth == Spec => []RunTellsTheTruth
  <1>1. Typed /\ RunInv => RunTellsTheTruth
    <2> SUFFICES ASSUME Typed, RunInv, NEW r \in Run
                 PROVE
                   LET results == Range(work[r].scopes)
                       reported == {For(s.scope, s.course) : s \in results}
                       mine == {k \in DOMAIN observation : k[2] = r}
                   IN
                   /\ status[r] = "SUCCEEDED" =>
                        /\ \A s \in results : s.coverage = "COMPLETE"
                        /\ Asked(r) \subseteq reported
                   /\ status[r] \in {"SUCCEEDED", "SUCCEEDED_WITH_WARNINGS"} =>
                        /\ recorded[r] = <<Len(work[r].scopes), Len(work[r].scopes)>>
                        /\ mine \subseteq planned
                        /\ (\E s \in results : s.scope = "content") => Asked(r) \subseteq reported
                   /\ status[r] = "FAILED" /\ r \notin aborted => mine = {}
      BY DEF RunTellsTheTruth
    <2> DEFINE results == Range(work[r].scopes)
               reported == {For(s.scope, s.course) : s \in results}
               mine == {k \in DOMAIN observation : k[2] = r}
    <2>1. OnCourse(r) /\ Plans(r) /\ Ends(r) /\ mine = Mine(r)
      BY DEF RunInv, Mine
    <2> HIDE DEF mine
    <2>2. ASSUME status[r] \notin {"NEW", "RUNNING"}, r \notin aborted
          PROVE  /\ Begun(request[r], work[r]) /\ Covered(request[r], work[r])
                 /\ work[r].step = EndStep /\ work[r].left = <<>> /\ work[r].reader.phase = "CLOSED"
                 /\ recorded[r] = <<Len(work[r].scopes), Len(work[r].scopes)>>
                 /\ status[r] = RunStatus(work[r].scopes)
      BY <2>1, <2>2 DEF OnCourse, Ends
    <2>3. ASSUME status[r] \in {"SUCCEEDED", "SUCCEEDED_WITH_WARNINGS"}
          PROVE  /\ recorded[r] = <<Len(work[r].scopes), Len(work[r].scopes)>>
                 /\ mine \subseteq planned
                 /\ ~GaveUp(request[r], work[r]) => Asked(r) \subseteq reported
      <3>1. r \notin aborted /\ status[r] \notin {"NEW", "RUNNING"}
        BY <2>1, <2>3 DEF Ends
      <3>2. mine \subseteq planned
        <4>1. work[r].keys = <<>>
          BY <2>1, <2>2, <3>1, StepNames DEF Plans
        <4> QED
          BY <2>1, <4>1 DEF Plans, Range
      <3>3. ASSUME ~GaveUp(request[r], work[r]), NEW f \in Asked(r) PROVE f \in reported
        BY <2>2, <3>1, <3>3, AskedIsTold
      <3> QED
        BY <2>2, <3>1, <3>2, <3>3
    <2>4. (\E s \in results : s.scope = "content") => ~GaveUp(request[r], work[r])
      BY DEF GaveUp
    <2>5. ASSUME status[r] = "SUCCEEDED" PROVE \A s \in results : s.coverage = "COMPLETE"
      <3>1. RunStatus(work[r].scopes) = "SUCCEEDED"
        BY <2>1, <2>2, <2>5 DEF Ends
      <3> QED
        BY <3>1 DEF RunStatus
    <2>6. status[r] = "SUCCEEDED" => ~GaveUp(request[r], work[r])
      BY <2>5 DEF GaveUp
    <2>7. ASSUME status[r] = "FAILED", r \notin aborted PROVE mine = {}
      <3>1. RunStatus(work[r].scopes) = "FAILED" /\ work[r].reader.phase = "CLOSED"
        BY <2>2, <2>7
      <3>2. \A s \in results : s.scope # "local_jobs" => s.coverage = "FAILED"
        BY <3>1 DEF RunStatus
      <3> QED
        BY <2>1, <3>1, <3>2 DEF Plans
    <2> HIDE DEF results, reported
    <2> QED
      BY <2>3, <2>4, <2>5, <2>6, <2>7 DEF results, reported, mine
  <1> QED
    BY <1>1, AlwaysTyped, AlwaysAccounts, PTL
=============================================================================
