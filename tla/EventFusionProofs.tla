-------------------------- MODULE EventFusionProofs --------------------------
(***************************************************************************)
(* Events and decisions for every value of the constants: any inputs and   *)
(* drafts, any number of records and decisions.                            *)
(***************************************************************************)
EXTENDS EventFusion, TLAPS, FiniteSetTheorems, WellFoundedInduction

\* A nonempty set of naturals has a least member.
LEMMA LeastNatural ==
  ASSUME NEW T \in SUBSET Nat, T # {}
  PROVE  \E m \in T : \A n \in T : m <= n
  <1>1. PICK m \in T : \A n \in T : ~(<<n, m>> \in OpToRel(<, Nat))
    <2> DEFINE R == OpToRel(<, Nat)
    <2>1. IsWellFoundedOn(R, Nat)
      BY NatLessThanWellFounded
    <2> HIDE DEF R
    <2>2. \E m \in T : \A n \in T : ~(<<n, m>> \in R)
      BY <2>1, WFMin
    <2> QED
      BY <2>2 DEF R
  <1>2. ASSUME NEW n \in T PROVE m <= n
    <2>1. <<n, m>> \in Nat \X Nat /\ <<n, m>>[1] = n /\ <<n, m>>[2] = m
      OBVIOUS
    <2>2. ~(n < m)
      BY <1>1, <2>1 DEF OpToRel
    <2> QED
      BY <2>2
  <1> QED
    BY <1>2

\* A row more is the last one, and leaves the others as they are.
LEMMA Appended ==
  ASSUME NEW T, NEW s \in Seq(T), NEW row
  PROVE  /\ DOMAIN s = 1..Len(s) /\ Len(s) \in Nat
         /\ Append(s, row) \in Seq(T \cup {row})
         /\ Len(Append(s, row)) = Len(s) + 1
         /\ DOMAIN Append(s, row) = DOMAIN s \cup {Len(s) + 1}
         /\ Append(s, row)[Len(s) + 1] = row
         /\ \A n \in DOMAIN s : Append(s, row)[n] = s[n]
  OBVIOUS

\* A function on the positions of a sequence is a sequence.
LEMMA Mapped ==
  ASSUME NEW T, NEW s \in Seq(T), NEW U, NEW f \in [DOMAIN s -> U]
  PROVE  f \in Seq(U) /\ Len(f) = Len(s) /\ DOMAIN f = DOMAIN s
  OBVIOUS

(***************************************************************************)
(* Typing.  What a book says of the sources and events is what is stored.  *)
(***************************************************************************)
SourceRow ==
  [event : Key \cup {0}, state : {"NONE", "UNRESOLVED", "RELATED_CHANGE", "MATCHED"},
   created : Nat]
ExtractionRow == [input : Input, draft : Draft \cup {NoDraft}]
DecisionRow ==
  [event : Key, claim : Claim, value : Nat \X Nat, decidedAt : Nat, seen : SUBSET Key,
   during : Nat, active : BOOLEAN]
IdentityRow == [source : Key, event : Key, active : BOOLEAN]

Drawn(k) == k \in DOMAIN extraction /\ DraftOf(k) # NoDraft
Claims(k) == Drawn(k) /\ DraftOf(k).value # NoValue

ExtractionsTyped == extraction \in Seq(ExtractionRow) /\ Len(extraction) <= MaxRecord

\* A source is matched when it has an event, and only records that drew a
\* candidate have one.  A stored source has an instant.
Bound(sources, events, matches) ==
  /\ sources \in [Key -> SourceRow]
  /\ events \in SUBSET Key
  /\ matches \in [Key -> SUBSET events]
  /\ \A k \in Key : /\ sources[k].event # 0 => sources[k].event \in events
                    /\ sources[k].state = "MATCHED" <=> sources[k].event # 0
                    /\ sources[k].state = "MATCHED" => matches[k] = {}
                    /\ sources[k] # NoSource => Drawn(k) /\ sources[k].created # 0

Named(book) == book \in [source : [Key -> SourceRow], event : SUBSET Key, possible : [Key -> SUBSET Key]]

\* The instant a source has, or is given by the open reconciliation.
CreatedAt(k) ==
  IF source[k] = NoSource /\ k \in Candidates THEN reconciling ELSE source[k].created

\* What is bound stays bound, and keeps its instant.
Extends(book) ==
  /\ event \subseteq book.event
  /\ \A k \in Key : /\ source[k].event # 0 => book.source[k].event = source[k].event
                    /\ book.source[k].created = CreatedAt(k)

Sound(book) == Named(book) /\ Bound(book.source, book.event, book.possible) /\ Extends(book)

\* A decision is on an event there is, and on one of its claims or its own.
Fits(d, row) ==
  /\ row.event \in event
  /\ row.claim \in Key => /\ Claims(row.claim) /\ DraftOf(row.claim).value = row.value
                          /\ source[row.claim].event = row.event
  /\ row.claim \notin Key => row.claim = LocalClaim(d)

OneEach == \A c, d \in DOMAIN decision :
  decision[c].active /\ decision[d].active /\ c # d => decision[c].event # decision[d].event

IdentityTyped(i) ==
  identity[i].event \in event /\ source[identity[i].source].event = identity[i].event

RequestTyped ==
  request # NoRequest =>
    /\ Len(decision) < MaxDecision
    /\ request.event \in event
    /\ request.value \in Nat \X Nat
    /\ request.decidedAt \in Nat /\ request.during \in Nat
    /\ request.seen \in SUBSET Key
    /\ request.claim # 0 => /\ request.claim \in Key /\ Claims(request.claim)
                            /\ DraftOf(request.claim).value = request.value
                            /\ source[request.claim].event = request.event

Typed ==
  /\ ExtractionsTyped
  /\ Bound(source, event, possible)
  /\ decision \in Seq(DecisionRow) /\ Len(decision) <= MaxDecision
  /\ \A d \in DOMAIN decision : Fits(d, decision[d])
  /\ OneEach
  /\ identity \in Seq(IdentityRow)
  /\ \A i \in DOMAIN identity : IdentityTyped(i)
  /\ RequestTyped
  /\ clock \in Nat /\ reconciling \in Nat

\* Records have keys, and a candidate is a record that drew one.
LEMMA Records ==
  ASSUME ExtractionsTyped
  PROVE  /\ DOMAIN extraction = 1..Len(extraction) /\ DOMAIN extraction \subseteq Key
         /\ Candidates \subseteq Key
         /\ \A k \in Candidates : Drawn(k) /\ Effective(k)
         /\ \A k : Drawn(k) => DraftOf(k) \in Draft
         /\ \A k : Claims(k) => DraftOf(k).value \in Nat \X Nat
  <1>1. /\ DOMAIN extraction = 1..Len(extraction) /\ DOMAIN extraction \subseteq Key
        /\ \A k \in DOMAIN extraction : extraction[k] \in ExtractionRow
    BY RowBounds DEF ExtractionsTyped, Key
  <1>2. \A k \in Candidates : Drawn(k) /\ Effective(k)
    BY DEF Candidates, Drawn, Effective
  <1>3. ASSUME NEW k, Drawn(k) PROVE DraftOf(k) \in Draft
    BY <1>1, <1>3 DEF Drawn, DraftOf, ExtractionRow
  <1> QED
    BY <1>1, <1>2, <1>3, DraftsTyped DEF Candidates, Claims

-----------------------------------------------------------------------------
(***************************************************************************)
(* Binding.  Each candidate leaves a sound book.                           *)
(***************************************************************************)
BoundTo(e, c) == [event |-> e, state |-> "MATCHED", created |-> c]

Binds(b, book, k, e) ==
  /\ b.source[k] = BoundTo(e, book.source[k].created)
  /\ \A j \in Key \ {k} : b.source[j] = book.source[j]
  /\ b.event = book.event
  /\ b.possible = [book.possible EXCEPT ![k] = {}]
  /\ Named(b)

LEMMA BindFacts ==
  ASSUME NEW book, Named(book), NEW k \in Key, NEW e \in Key
  PROVE  Binds(Bind(book, k, e), book, k, e)
  <1>1. /\ book.source \in [Key -> SourceRow] /\ book.event \in SUBSET Key
        /\ book.possible \in [Key -> SUBSET Key]
        /\ book = [source |-> book.source, event |-> book.event, possible |-> book.possible]
    BY DEF Named
  <1> DEFINE c == book.source[k].created
             s == [book.source EXCEPT ![k] = BoundTo(e, c)]
             m == [book.possible EXCEPT ![k] = {}]
  <1>2. [[book.source EXCEPT ![k].event = e] EXCEPT ![k].state = "MATCHED"] = s
    <2> DEFINE s1 == [book.source EXCEPT ![k].event = e]
               s2 == [s1 EXCEPT ![k].state = "MATCHED"]
    <2>1. s1 \in [Key -> SourceRow] /\ \A j \in Key \ {k} : s1[j] = book.source[j]
      BY <1>1, Zenon DEF SourceRow
    <2>2. s1[k].event = e /\ s1[k].created = c
      BY <1>1, Zenon DEF SourceRow
    <2> HIDE DEF s1
    <2>3. s2 \in [Key -> SourceRow] /\ \A j \in Key \ {k} : s2[j] = s1[j]
      BY <2>1, Zenon DEF SourceRow
    <2>4. s2[k].event = e /\ s2[k].state = "MATCHED" /\ s2[k].created = c
      BY <2>1, <2>2, Zenon DEF SourceRow
    <2> HIDE DEF s2
    <2>5. s2[k] = BoundTo(e, c)
      BY <2>3, <2>4 DEF SourceRow, BoundTo
    <2>6. s2 = s
      BY <1>1, <2>1, <2>3, <2>5
    <2> QED
      BY <2>6 DEF s2, s1
  <1> DEFINE B == [source : [Key -> SourceRow], event : SUBSET Key, possible : [Key -> SUBSET Key]]
             b1 == [book EXCEPT !.source[k].event = e]
             b2 == [b1 EXCEPT !.source[k].state = "MATCHED"]
             b3 == [b2 EXCEPT !.possible[k] = {}]
  <1>3. Bind(book, k, e) = [source |-> s, event |-> book.event, possible |-> m]
    <2>1. /\ b1 = [b1 EXCEPT !.source = b1.source]
          /\ b1.source = [book.source EXCEPT ![k].event = e]
          /\ b1.event = book.event /\ b1.possible = book.possible
      BY <1>1, Zenon
    <2>2. /\ b2.source = [b1.source EXCEPT ![k].state = "MATCHED"]
          /\ b2.event = b1.event /\ b2.possible = b1.possible
      BY <1>1, Zenon
    <2>3. /\ b3.source = b2.source
          /\ b3.event = b2.event /\ b3.possible = [b2.possible EXCEPT ![k] = {}]
      BY <1>1, Zenon
    <2>4. DOMAIN b3 = DOMAIN book
      BY Zenon
    <2>5. b3 = Bind(book, k, e)
      BY DEF Bind
    <2> QED
      BY <1>1, <1>2, <2>1, <2>2, <2>3, <2>4, <2>5
  <1>4. s \in [Key -> SourceRow] /\ m \in [Key -> SUBSET Key]
    BY <1>1 DEF SourceRow, BoundTo
  <1> HIDE DEF s, m
  <1>5. Named([source |-> s, event |-> book.event, possible |-> m])
    BY <1>1, <1>4 DEF Named
  <1>6. s[k] = BoundTo(e, c) /\ \A j \in Key \ {k} : s[j] = book.source[j]
    BY <1>1 DEF s
  <1> DEFINE b == [source |-> s, event |-> book.event, possible |-> m]
  <1>7. b.source = s /\ b.event = book.event /\ b.possible = m
    OBVIOUS
  <1> HIDE DEF b, s
  <1>8. Binds(b, book, k, e)
    BY <1>5, <1>6, <1>7 DEF Binds, m, b
  <1> QED
    BY <1>3, <1>8 DEF b

LEMMA BindSound ==
  ASSUME NEW book, Sound(book), NEW k \in Key, Drawn(k), NEW e \in book.event,
         book.source[k].event \in {0, e}, book.source[k].created # 0
  PROVE  Sound(Bind(book, k, e))
  <1> DEFINE b == Bind(book, k, e)
             row == BoundTo(e, book.source[k].created)
  <1>1. /\ Named(book) /\ Bound(book.source, book.event, book.possible) /\ Extends(book)
        /\ e \in Key /\ e # 0
    BY RowBounds DEF Sound, Bound, Key
  <1>2. /\ b.source[k] = row /\ \A j \in Key \ {k} : b.source[j] = book.source[j]
        /\ b.event = book.event
        /\ b.possible = [book.possible EXCEPT ![k] = {}]
        /\ Named(b)
    <2>1. Binds(b, book, k, e)
      BY <1>1, BindFacts
    <2> HIDE DEF b
    <2> QED
      BY <2>1 DEF Binds
  <1> HIDE DEF b
  <1>3. /\ row \in SourceRow /\ row.event = e /\ row.state = "MATCHED"
        /\ row.created = book.source[k].created
    BY <1>1 DEF SourceRow, BoundTo, Named
  <1> HIDE DEF row
  <1>4. /\ b.source[k] = row /\ b.possible[k] = {}
        /\ \A j \in Key \ {k} : b.source[j] = book.source[j] /\ b.possible[j] = book.possible[j]
    BY <1>1, <1>2 DEF Bound
  <1>5. b.source \in [Key -> SourceRow] /\ b.possible \in [Key -> SUBSET b.event]
    BY <1>1, <1>2, <1>3 DEF Bound, Named
  <1>6. Bound(b.source, b.event, b.possible)
    BY <1>1, <1>2, <1>3, <1>4, <1>5 DEF Bound
  <1>7. Extends(b)
    BY <1>1, <1>2, <1>3, <1>4 DEF Extends
  <1> QED
    BY <1>2, <1>6, <1>7 DEF Sound, b

\* What a change of one entry makes of a book.
LEMMA BookChanges ==
  ASSUME NEW s, NEW e, NEW p, NEW k, NEW v, NEW book,
         book = [source |-> s, event |-> e, possible |-> p]
  PROVE  /\ [book EXCEPT !.event = @ \cup {k}] = [source |-> s, event |-> e \cup {k}, possible |-> p]
         /\ [book EXCEPT !.source[k].state = v] =
              [source |-> [s EXCEPT ![k].state = v], event |-> e, possible |-> p]
         /\ [book EXCEPT !.possible[k] = v] =
              [source |-> s, event |-> e, possible |-> [p EXCEPT ![k] = v]]
  OBVIOUS

LEMMA AnchorSound ==
  ASSUME NEW book, Sound(book), NEW k \in Key, Drawn(k), book.source[k].event = 0,
         book.source[k].created # 0
  PROVE  Sound(Anchor(book, k))
  <1> DEFINE b == [book EXCEPT !.event = @ \cup {k}]
  <1>1. Named(book) /\ Bound(book.source, book.event, book.possible) /\ Extends(book)
    BY DEF Sound
  <1>2. /\ book.source \in [Key -> SourceRow] /\ book.event \in SUBSET Key
        /\ book.possible \in [Key -> SUBSET Key]
        /\ book = [source |-> book.source, event |-> book.event, possible |-> book.possible]
    BY <1>1 DEF Named
  <1>3. b = [source |-> book.source, event |-> book.event \cup {k}, possible |-> book.possible]
    <2>1. ASSUME NEW s, NEW e, NEW p
          PROVE  [[source |-> s, event |-> e, possible |-> p] EXCEPT !.event = @ \cup {k}]
                   = [source |-> s, event |-> e \cup {k}, possible |-> p]
      OBVIOUS
    <2>2. b = [[source |-> book.source, event |-> book.event, possible |-> book.possible]
                 EXCEPT !.event = @ \cup {k}]
      BY <1>2
    <2> QED
      BY <2>1, <2>2
  <1>4. b.source = book.source /\ b.event = book.event \cup {k} /\ b.possible = book.possible
    BY <1>3
  <1>5. Named(b)
    BY <1>2, <1>3 DEF Named
  <1> HIDE DEF b
  <1>6. b.possible \in [Key -> SUBSET b.event]
    BY <1>1, <1>4 DEF Bound
  <1>7. Bound(b.source, b.event, b.possible) /\ Extends(b)
    BY <1>1, <1>4, <1>6 DEF Bound, Extends
  <1>8. Sound(Bind(b, k, k))
    BY <1>4, <1>5, <1>7, BindSound DEF Sound
  <1> QED
    BY <1>8 DEF Anchor, b

LEMMA PlausibleEvents ==
  ASSUME NEW book, NEW k
  PROVE  Plausible(book, k) \subseteq book.event /\ Mergeable(book, k) \subseteq book.event
  <1>1. Plausible(book, k) \subseteq book.event
    BY DEF Plausible
  <1>2. Mergeable(book, k) \subseteq Plausible(book, k)
    BY DEF Mergeable
  <1> QED
    BY <1>1, <1>2

LEMMA LeaveSound ==
  ASSUME NEW book, Sound(book), NEW k \in Key, Drawn(k), book.source[k].event = 0,
         book.source[k].created # 0
  PROVE  Sound(Leave(book, k))
  <1> DEFINE st == IF DraftOf(k).change = "NONE" THEN "UNRESOLVED" ELSE "RELATED_CHANGE"
             b1 == [book EXCEPT !.source[k].state = st]
             b2 == [b1 EXCEPT !.possible[k] = Plausible(book, k)]
  <1>1. Named(book) /\ Bound(book.source, book.event, book.possible) /\ Extends(book)
    BY DEF Sound
  <1>2. /\ book.source \in [Key -> SourceRow] /\ book.event \in SUBSET Key
        /\ book.possible \in [Key -> SUBSET book.event]
        /\ book = [source |-> book.source, event |-> book.event, possible |-> book.possible]
    BY <1>1 DEF Named, Bound
  <1>3. st \in {"UNRESOLVED", "RELATED_CHANGE"}
    OBVIOUS
  <1> HIDE DEF st
  <1> DEFINE s1 == [book.source EXCEPT ![k].state = st]
             m1 == [book.possible EXCEPT ![k] = Plausible(book, k)]
  <1>4. b1 = [source |-> s1, event |-> book.event, possible |-> book.possible]
    BY <1>2, BookChanges
  <1>5. b2 = [source |-> s1, event |-> book.event, possible |-> m1]
    <2> HIDE DEF b1, s1
    <2> QED
      BY <1>4, BookChanges
  <1>7. b2 = Leave(book, k)
    BY DEF Leave, st
  <1>9. s1 \in [Key -> SourceRow] /\ \A j \in Key \ {k} : s1[j] = book.source[j]
    BY <1>2, <1>3, Zenon DEF SourceRow
  <1>10. s1[k].event = 0 /\ s1[k].state = st /\ s1[k].created = book.source[k].created
    BY <1>2, <1>3, Zenon DEF SourceRow
  <1>8. b2.source = s1 /\ b2.event = book.event /\ b2.possible = m1
    BY <1>5
  <1> HIDE DEF s1, b1, b2
  <1>11. b2.possible \in [Key -> SUBSET b2.event] /\ b2.event = book.event
    BY <1>2, <1>8, PlausibleEvents
  <1>12. \A j \in Key \ {k} : b2.possible[j] = book.possible[j]
    BY <1>2, <1>8
  <1>13. Named(b2)
    BY <1>2, <1>5, <1>8, <1>9, <1>11 DEF Named
  <1>14. Bound(b2.source, b2.event, b2.possible)
    BY <1>1, <1>3, <1>9, <1>10, <1>11, <1>12, <1>8 DEF Bound
  <1>15. Extends(b2)
    BY <1>1, <1>9, <1>10, <1>11, <1>8 DEF Extends
  <1> QED
    BY <1>7, <1>13, <1>14, <1>15 DEF Sound

LEMMA ReconciledSound ==
  ASSUME Typed, reconciling # Idle, NEW book, Sound(book), NEW k \in Candidates,
         NEW final \in BOOLEAN
  PROVE  Sound(Reconciled(book, k, final))
  <1>1. k \in Key /\ Drawn(k) /\ book.source[k].created # 0
    <2>1. k \in Key /\ Drawn(k)
      BY Records DEF Typed
    <2>2. source[k] # NoSource => source[k].created # 0
      BY <2>1 DEF Typed, Bound
    <2> QED
      BY <2>1, <2>2 DEF Sound, Extends, CreatedAt, Idle
  <1> DEFINE manual == {identity[i].event : i \in {i \in DOMAIN identity :
                          identity[i].active /\ identity[i].source = k}}
  <1>2. /\ Extends(book) /\ book.source[k].event \in Key \cup {0}
        /\ book.source[k].event # 0 => book.source[k].event \in book.event
    BY <1>1 DEF Sound, Bound, SourceRow
  <1>3. ASSUME NEW e \in manual PROVE e \in book.event /\ book.source[k].event = e
    <2>1. PICK i \in DOMAIN identity : identity[i].source = k /\ identity[i].event = e
      OBVIOUS
    <2>2. e \in event /\ source[k].event = e /\ e # 0
      BY <2>1, RowBounds DEF Typed, IdentityTyped, Bound, Key
    <2> QED
      BY <1>1, <1>2, <2>2 DEF Extends
  <1> DEFINE e == CHOOSE e \in manual : TRUE
  <1>4. CASE manual # {}
    <2>1. e \in manual
      BY <1>4
    <2>2. Reconciled(book, k, final) = Bind(book, k, e)
      BY <1>4 DEF Reconciled
    <2> QED
      BY <1>1, <1>3, <2>1, <2>2, BindSound
  <1>5. CASE manual = {} /\ book.source[k].event # 0
    BY <1>5 DEF Reconciled
  <1>6. CASE manual = {} /\ book.source[k].event = 0
    <2> DEFINE M == Mergeable(book, k)
               g == CHOOSE g \in M : TRUE
    <2>1. Reconciled(book, k, final) \in {Bind(book, k, g), Leave(book, k), book, Anchor(book, k)}
      BY <1>6 DEF Reconciled
    <2>2. Reconciled(book, k, final) = Bind(book, k, g) \/ Sound(Reconciled(book, k, final))
      BY <1>1, <1>6, <2>1, LeaveSound, AnchorSound
    <2>3. CASE M # {}
      <3>1. g \in book.event
        BY <2>3, PlausibleEvents
      <3>2. Sound(Bind(book, k, g))
        BY <1>1, <1>6, <3>1, BindSound
      <3> QED
        BY <2>2, <3>2
    <2>4. CASE M = {}
      <3>1. Cardinality(M) # 1
        BY <2>4, FS_EmptySet
      <3>2. Reconciled(book, k, final) \in {Leave(book, k), book, Anchor(book, k)}
        BY <1>6, <3>1 DEF Reconciled
      <3> QED
        BY <1>1, <1>6, <3>2, LeaveSound, AnchorSound
    <2> QED
      BY <2>3, <2>4
  <1> QED
    BY <1>4, <1>5, <1>6

\* The books from the first candidate to the n-th.  That they exist, and are
\* sound, is shown by the least number for which they would not.
Books(f, N, S, start, final) ==
  f = [n \in 0..N |-> IF n = 0 THEN start
                      ELSE IF n \in S THEN Reconciled(f[n - 1], n, final) ELSE f[n - 1]]

LEMMA BooksExist ==
  ASSUME NEW S, NEW start, NEW final, NEW N \in Nat
  PROVE  \E f : Books(f, N, S, start, final)
  <1> DEFINE Lacking == {n \in Nat : ~\E f : Books(f, n, S, start, final)}
  <1>1. SUFFICES ASSUME Lacking # {} PROVE FALSE
    BY <1>1
  <1>2. PICK m \in Lacking : \A n \in Lacking : m <= n
    <2>1. Lacking \in SUBSET Nat
      OBVIOUS
    <2> HIDE DEF Lacking
    <2> QED
      BY <1>1, <2>1, LeastNatural
  <1>3. CASE m = 0
    <2> DEFINE f == [n \in 0..0 |-> start]
    <2>1. Books(f, 0, S, start, final)
      BY DEF Books
    <2> QED
      BY <1>3, <2>1
  <1>4. CASE m # 0
    <2>1. m - 1 \in Nat /\ m - 1 \notin Lacking
      BY <1>2, <1>4
    <2>2. PICK f : Books(f, m - 1, S, start, final)
      BY <2>1
    <2> DEFINE Turn(n, last) == IF n \in S THEN Reconciled(last, n, final) ELSE last
               g == [n \in 0..m |-> IF n = m THEN Turn(m, f[m - 1]) ELSE f[n]]
    <2>3. \A n \in 0..(m - 1) : f[n] = IF n = 0 THEN start ELSE Turn(n, f[n - 1])
      BY <2>2, Zenon DEF Books
    <2> HIDE DEF Turn
    <2>4. ASSUME NEW n \in 0..m PROVE g[n] = IF n = 0 THEN start ELSE Turn(n, g[n - 1])
      <3>1. CASE n = m
        BY <1>2, <1>4, <3>1
      <3>2. CASE n # m
        <4>1. n \in 0..(m - 1) /\ (n # 0 => n - 1 \in 0..m /\ n - 1 # m)
          BY <1>2, <3>2
        <4> QED
          BY <2>3, <3>2, <4>1
      <3> QED
        BY <3>1, <3>2
    <2>5. g = [n \in 0..m |-> IF n = 0 THEN start ELSE Turn(n, g[n - 1])]
      <3>1. g = [n \in 0..m |-> g[n]]
        OBVIOUS
      <3> HIDE DEF g
      <3> QED
        BY <2>4, <3>1, Zenon
    <2> HIDE DEF g
    <2>6. Books(g, m, S, start, final)
      BY <2>5, Zenon DEF Books, Turn
    <2> QED
      BY <1>2, <2>6
  <1> QED
    BY <1>3, <1>4

LEMMA ByKeySound ==
  ASSUME Typed, reconciling # Idle, NEW S \in SUBSET Candidates, NEW start, Sound(start), NEW final \in BOOLEAN
  PROVE  Sound(ByKey(S, start, final))
  <1> DEFINE f == CHOOSE f : Books(f, MaxRecord, S, start, final)
  <1>1. Books(f, MaxRecord, S, start, final)
    BY BooksExist, RowBounds
  <1>2. ByKey(S, start, final) = f[MaxRecord]
    BY Zenon DEF ByKey, Books
  <1> HIDE DEF f
  <1>3. f[0] = start
    BY <1>1, RowBounds DEF Books
  <1>4. ASSUME NEW n \in 1..MaxRecord
        PROVE  f[n] = IF n \in S THEN Reconciled(f[n - 1], n, final) ELSE f[n - 1]
    BY <1>1, RowBounds DEF Books
  <1> DEFINE Wrong == {n \in 0..MaxRecord : ~Sound(f[n])}
  <1>5. SUFFICES ASSUME Wrong # {} PROVE FALSE
    BY <1>2, <1>5, RowBounds
  <1>6. PICK m \in Wrong : \A n \in Wrong : m <= n
    <2>1. Wrong \in SUBSET Nat
      BY RowBounds
    <2> HIDE DEF Wrong
    <2> QED
      BY <1>5, <2>1, LeastNatural
  <1>7. m # 0
    BY <1>3, <1>6
  <1>8. m \in 1..MaxRecord /\ m - 1 \in 0..MaxRecord /\ m - 1 \notin Wrong
    BY <1>6, <1>7, RowBounds
  <1>9. Sound(f[m - 1])
    BY <1>8
  <1>10. Sound(f[m])
    BY <1>4, <1>8, <1>9, ReconciledSound
  <1> QED
    BY <1>6, <1>10

LEMMA MatchedSound ==
  ASSUME Typed, reconciling # Idle
  PROVE  Sound(Matched)
  <1> DEFINE ordinary == {k \in Candidates : DraftOf(k).change = "NONE"}
             row(k) == IF k \in Candidates /\ source[k] = NoSource
                       THEN [event |-> 0, state |-> "UNRESOLVED", created |-> reconciling]
                       ELSE source[k]
             ensured == [k \in Key |-> row(k)]
             opened == [source |-> ensured, event |-> event, possible |-> possible]
             first == ByKey(ordinary, opened, FALSE)
             changed == ByKey(Candidates \ ordinary, first, TRUE)
             open == {k \in ordinary : first.source[k].event = 0}
  <1>1. Matched = ByKey(open, changed, TRUE)
    BY Zenon DEF Matched
  <1>2. \A k \in Candidates : Drawn(k)
    BY Records DEF Typed
  <1>3. Bound(source, event, possible) /\ reconciling \in Nat /\ reconciling # 0
    BY DEF Typed, Idle
  <1>4. ASSUME NEW k \in Key
        PROVE  /\ row(k) \in SourceRow
               /\ row(k).event = source[k].event
               /\ row(k).created = CreatedAt(k)
               /\ row(k).state = "MATCHED" <=> source[k].state = "MATCHED"
               /\ row(k) # NoSource => Drawn(k) /\ row(k).created # 0
    BY <1>2, <1>3 DEF Bound, SourceRow, NoSource, CreatedAt
  <1>5. ensured \in [Key -> SourceRow] /\ \A k \in Key : ensured[k] = row(k)
    BY <1>4
  <1> HIDE DEF row, ensured
  <1>6. Bound(ensured, event, possible)
    BY <1>3, <1>4, <1>5 DEF Bound
  <1>7. Sound(opened)
    BY <1>3, <1>4, <1>5, <1>6 DEF Sound, Named, Bound, Extends
  <1>8. ordinary \in SUBSET Candidates /\ Candidates \ ordinary \in SUBSET Candidates
    OBVIOUS
  <1> HIDE DEF ordinary, opened
  <1>9. Sound(first)
    BY <1>7, <1>8, ByKeySound
  <1> HIDE DEF first
  <1>10. Sound(changed)
    BY <1>8, <1>9, ByKeySound
  <1> HIDE DEF changed
  <1>11. open \in SUBSET Candidates
    BY <1>8
  <1> QED
    BY <1>1, <1>10, <1>11, ByKeySound

-----------------------------------------------------------------------------
(***************************************************************************)
(* Decisions.  They change by lapsing only.                                *)
(***************************************************************************)
Same(r, row) ==
  /\ r.event = row.event /\ r.claim = row.claim /\ r.value = row.value
  /\ r.decidedAt = row.decidedAt /\ r.seen = row.seen /\ r.during = row.during

LEMMA RowLapses ==
  ASSUME NEW row \in DecisionRow, NEW P \in BOOLEAN,
         NEW r, r = [row EXCEPT !.active = @ /\ P]
  PROVE  /\ r \in DecisionRow
         /\ Same(r, row)
         /\ r.active <=> row.active /\ P
  <1>1. (row.active /\ P) \in BOOLEAN
    OBVIOUS
  <1>2. r \in DecisionRow
    BY <1>1, Zenon DEF DecisionRow
  <1>3. Same(r, row)
    BY Zenon DEF DecisionRow, Same
  <1>4. r.active = (row.active /\ P)
    BY Zenon DEF DecisionRow
  <1> QED
    BY <1>2, <1>3, <1>4, Zenon

LEMMA IdentityLapses ==
  ASSUME NEW row \in IdentityRow, NEW P \in BOOLEAN,
         NEW r, r = [row EXCEPT !.active = @ /\ P]
  PROVE  /\ r \in IdentityRow
         /\ r.event = row.event /\ r.source = row.source
         /\ r.active <=> row.active /\ P
  <1>1. (row.active /\ P) \in BOOLEAN
    OBVIOUS
  <1>2. r \in IdentityRow
    BY <1>1, Zenon DEF IdentityRow
  <1>3. r.event = row.event /\ r.source = row.source
    BY Zenon DEF IdentityRow
  <1>4. r.active = (row.active /\ P)
    BY Zenon DEF IdentityRow
  <1> QED
    BY <1>2, <1>3, <1>4, Zenon

\* The same decisions, of which only those in P may be active still.
Lapsed(new, old, P) ==
  /\ new \in Seq(DecisionRow) /\ Len(new) = Len(old) /\ DOMAIN new = DOMAIN old
  /\ \A d \in DOMAIN old :
       /\ Same(new[d], old[d])
       /\ new[d].active <=> old[d].active /\ P[d]

LapsedIdentities(new, old, P) ==
  /\ new \in Seq(IdentityRow) /\ Len(new) = Len(old) /\ DOMAIN new = DOMAIN old
  /\ \A i \in DOMAIN old :
       /\ new[i].event = old[i].event /\ new[i].source = old[i].source
       /\ new[i].active <=> old[i].active /\ P[i]

\* Which decisions hold, when the events es are recomputed.
Holding(es, sources, decisions) == [d \in DOMAIN decisions |->
  ~(decisions[d].event \in es /\ (Retired(decisions[d]) \/ Displaced(decisions[d], sources)))]
HoldingIdentities(es, identities) == [i \in DOMAIN identities |->
  ~(identities[i].event \in es /\ ~Effective(identities[i].source))]

LEMMA KeptRows ==
  ASSUME NEW es, NEW sources, NEW decisions \in Seq(DecisionRow)
  PROVE  Lapsed(Kept(es, sources, decisions), decisions, Holding(es, sources, decisions))
  <1> DEFINE P == Holding(es, sources, decisions)
             f == [d \in DOMAIN decisions |-> [decisions[d] EXCEPT !.active = @ /\ P[d]]]
  <1>1. P \in [DOMAIN decisions -> BOOLEAN]
    BY DEF Holding
  <1>2. Kept(es, sources, decisions) = f
    <2>1. ASSUME NEW d \in DOMAIN decisions
          PROVE  P[d] = ~(/\ decisions[d].event \in es
                          /\ \/ Retired(decisions[d])
                             \/ Displaced(decisions[d], sources))
      BY Zenon DEF Holding
    <2> HIDE DEF P
    <2> QED
      BY <2>1, Zenon DEF Kept
  <1> HIDE DEF P
  <1>3. ASSUME NEW d \in DOMAIN decisions
        PROVE  /\ f[d] \in DecisionRow
               /\ Same(f[d], decisions[d])
               /\ f[d].active <=> decisions[d].active /\ P[d]
    <2>1. decisions[d] \in DecisionRow /\ P[d] \in BOOLEAN
      BY <1>1
    <2>2. f[d] = [decisions[d] EXCEPT !.active = @ /\ P[d]]
      BY Zenon
    <2> HIDE DEF f
    <2> QED
      BY <2>1, <2>2, RowLapses
  <1>4. f \in [DOMAIN decisions -> DecisionRow]
    BY <1>3
  <1> HIDE DEF f
  <1>5. f \in Seq(DecisionRow) /\ Len(f) = Len(decisions) /\ DOMAIN f = DOMAIN decisions
    BY <1>4, Mapped
  <1> QED
    BY <1>2, <1>3, <1>5 DEF Lapsed, P

LEMMA ReplacedRows ==
  ASSUME NEW e, NEW decisions \in Seq(DecisionRow)
  PROVE  Lapsed(Replaced(decisions, e), decisions, [d \in DOMAIN decisions |-> decisions[d].event # e])
  <1> DEFINE P == [d \in DOMAIN decisions |-> decisions[d].event # e]
             f == [d \in DOMAIN decisions |-> [decisions[d] EXCEPT !.active = @ /\ P[d]]]
  <1>1. P \in [DOMAIN decisions -> BOOLEAN]
    OBVIOUS
  <1>2. Replaced(decisions, e) = f
    BY Zenon DEF Replaced
  <1> HIDE DEF P
  <1>3. ASSUME NEW d \in DOMAIN decisions
        PROVE  /\ f[d] \in DecisionRow
               /\ Same(f[d], decisions[d])
               /\ f[d].active <=> decisions[d].active /\ P[d]
    <2>1. decisions[d] \in DecisionRow /\ P[d] \in BOOLEAN
      BY <1>1
    <2>2. f[d] = [decisions[d] EXCEPT !.active = @ /\ P[d]]
      BY Zenon
    <2> HIDE DEF f
    <2> QED
      BY <2>1, <2>2, RowLapses
  <1>4. f \in [DOMAIN decisions -> DecisionRow]
    BY <1>3
  <1> HIDE DEF f
  <1>5. f \in Seq(DecisionRow) /\ Len(f) = Len(decisions) /\ DOMAIN f = DOMAIN decisions
    BY <1>4, Mapped
  <1> QED
    BY <1>2, <1>3, <1>5 DEF Lapsed, P

LEMMA IdentityRows ==
  ASSUME NEW identities \in Seq(IdentityRow), NEW P \in [DOMAIN identities -> BOOLEAN],
         NEW f, f = [i \in DOMAIN identities |-> [identities[i] EXCEPT !.active = @ /\ P[i]]]
  PROVE  LapsedIdentities(f, identities, P)
  <1>1. ASSUME NEW i \in DOMAIN identities
        PROVE  /\ f[i] \in IdentityRow
               /\ f[i].event = identities[i].event /\ f[i].source = identities[i].source
               /\ f[i].active <=> identities[i].active /\ P[i]
    <2>1. identities[i] \in IdentityRow /\ P[i] \in BOOLEAN
      OBVIOUS
    <2>2. f[i] = [identities[i] EXCEPT !.active = @ /\ P[i]]
      BY Zenon
    <2> QED
      BY <2>1, <2>2, IdentityLapses
  <1>2. f \in [DOMAIN identities -> IdentityRow]
    BY <1>1
  <1>3. f \in Seq(IdentityRow) /\ Len(f) = Len(identities) /\ DOMAIN f = DOMAIN identities
    BY <1>2, Mapped
  <1> QED
    BY <1>1, <1>3 DEF LapsedIdentities

LEMMA KeptIdentityRows ==
  ASSUME NEW es, NEW identities \in Seq(IdentityRow)
  PROVE  LapsedIdentities(KeptIdentities(es, identities), identities, HoldingIdentities(es, identities))
  <1> DEFINE P == HoldingIdentities(es, identities)
             f == [i \in DOMAIN identities |-> [identities[i] EXCEPT !.active = @ /\ P[i]]]
  <1>1. P \in [DOMAIN identities -> BOOLEAN]
    BY DEF HoldingIdentities
  <1>2. ASSUME NEW i \in DOMAIN identities
        PROVE  P[i] = ~(identities[i].event \in es /\ ~Effective(identities[i].source))
    BY Zenon DEF HoldingIdentities
  <1> HIDE DEF P
  <1>3. KeptIdentities(es, identities) = f
    BY <1>2, Zenon DEF KeptIdentities
  <1> QED
    BY <1>1, <1>3, IdentityRows DEF P

-----------------------------------------------------------------------------
(***************************************************************************)
(* Steps.                                                                  *)
(***************************************************************************)
LEMMA Settles ==
  ASSUME NEW es, NEW sources, NEW matches, NEW decisions, NEW identities,
         Recompute(es, sources, matches, decisions, identities)
  PROVE  LET s == Settled(es, sources, matches, decisions, identities) IN
         /\ decision' = Kept(es, sources, decisions)
         /\ identity' = KeptIdentities(es, identities)
         /\ outcome' = s.outcome /\ supersedes' = s.supersedes
  <1> DEFINE s == Settled(es, sources, matches, decisions, identities)
  <1>1. /\ decision' = s.decision /\ identity' = s.identity
        /\ outcome' = s.outcome /\ supersedes' = s.supersedes
    BY Zenon DEF Recompute
  <1>2. s.decision = Kept(es, sources, decisions) /\ s.identity = KeptIdentities(es, identities)
    BY DEF Settled
  <1> QED
    BY <1>1, <1>2, Zenon

\* The row a request stores, and the decisions with it.
Asked ==
  [event |-> request.event,
   claim |-> IF request.claim = 0 THEN LocalClaim(Len(decision) + 1) ELSE request.claim,
   value |-> request.value, decidedAt |-> DecidedAt, seen |-> request.seen,
   during |-> request.during, active |-> TRUE]
Decided == Append(Replaced(decision, request.event), Asked)

LEMMA AskedFits ==
  ASSUME Typed, request # NoRequest
  PROVE  /\ Asked \in DecisionRow /\ Fits(Len(decision) + 1, Asked)
         /\ Asked.active /\ Asked.event = request.event
         /\ Asked.claim # 0
  <1>1. /\ Len(decision) \in Nat /\ Len(decision) < MaxDecision
        /\ request.event \in event
        /\ request.value \in Nat \X Nat
        /\ request.decidedAt \in Nat /\ request.during \in Nat
        /\ request.seen \in SUBSET Key
        /\ request.claim # 0 => /\ request.claim \in Key /\ Claims(request.claim)
                                /\ DraftOf(request.claim).value = request.value
                                /\ source[request.claim].event = request.event
        /\ event \subseteq Key
    BY DEF Typed, RequestTyped, Bound
  <1>2. /\ LocalClaim(Len(decision) + 1) \in Claim \ Key
        /\ LocalClaim(Len(decision) + 1) # 0 /\ Key \subseteq Claim
    BY <1>1, RowBounds DEF Claim, LocalClaim, Key
  <1> DEFINE c == IF request.claim = 0 THEN LocalClaim(Len(decision) + 1) ELSE request.claim
  <1>3. c \in Claim /\ c # 0 /\ (c \in Key => c = request.claim /\ request.claim # 0)
        /\ (c \notin Key => c = LocalClaim(Len(decision) + 1))
    BY <1>1, <1>2
  <1>4. /\ Asked.event = request.event /\ Asked.claim = c /\ Asked.value = request.value
        /\ Asked.active = TRUE
    BY DEF Asked
  <1>5. Asked \in DecisionRow
    BY <1>1, <1>3 DEF Asked, DecidedAt, DecisionRow
  <1> HIDE DEF c
  <1>6. Fits(Len(decision) + 1, Asked)
    BY <1>1, <1>3, <1>4, Zenon DEF Fits
  <1> QED
    BY <1>3, <1>4, <1>5, <1>6

\* The requested decision is the last and, on its event, the only active one.
LEMMA DecidedRows ==
  ASSUME Typed, request # NoRequest
  PROVE  /\ Decided \in Seq(DecisionRow)
         /\ Len(decision) \in Nat /\ DOMAIN decision = 1..Len(decision)
         /\ Len(Decided) = Len(decision) + 1 /\ Len(Decided) <= MaxDecision
         /\ DOMAIN Decided = DOMAIN decision \cup {Len(decision) + 1}
         /\ Decided[Len(decision) + 1] = Asked
         /\ \A d \in DOMAIN decision :
              /\ Same(Decided[d], decision[d])
              /\ Decided[d].active <=> decision[d].active /\ decision[d].event # request.event
         /\ \A d \in DOMAIN Decided : Fits(d, Decided[d])
         /\ \A c, d \in DOMAIN Decided : Decided[c].active /\ Decided[d].active /\ c # d =>
              Decided[c].event # Decided[d].event
  <1> DEFINE R == Replaced(decision, request.event)
             n == Len(decision) + 1
  <1>1. decision \in Seq(DecisionRow) /\ Len(decision) < MaxDecision
    BY DEF Typed, RequestTyped
  <1>2. /\ R \in Seq(DecisionRow) /\ Len(R) = Len(decision) /\ DOMAIN R = DOMAIN decision
        /\ \A d \in DOMAIN decision :
             /\ Same(R[d], decision[d])
             /\ R[d].active <=> decision[d].active /\ decision[d].event # request.event
    BY <1>1, ReplacedRows DEF Lapsed
  <1>3. Decided = Append(R, Asked)
    BY DEF Decided
  <1> HIDE DEF R
  <1>4. Asked \in DecisionRow /\ DecisionRow \cup {Asked} = DecisionRow
    BY AskedFits
  <1>5. /\ DOMAIN R = 1..Len(R) /\ Len(R) \in Nat
        /\ Decided \in Seq(DecisionRow)
        /\ Len(Decided) = Len(R) + 1
        /\ DOMAIN Decided = DOMAIN R \cup {Len(R) + 1}
        /\ Decided[Len(R) + 1] = Asked
        /\ \A d \in DOMAIN R : Decided[d] = R[d]
    BY <1>2, <1>3, <1>4, Appended
  <1>6. ASSUME NEW d \in DOMAIN decision
        PROVE  /\ Same(Decided[d], decision[d])
               /\ Decided[d].active <=> decision[d].active /\ decision[d].event # request.event
    BY <1>2, <1>5
  <1>7. ASSUME NEW d \in DOMAIN Decided PROVE Fits(d, Decided[d])
    <2>1. CASE d = n
      BY <1>2, <1>5, <2>1, AskedFits
    <2>2. CASE d \in DOMAIN decision
      <3>1. Fits(d, decision[d])
        BY <2>2 DEF Typed
      <3> QED
        BY <1>6, <2>2, <3>1 DEF Fits, Same
    <2> QED
      BY <1>2, <1>5, <2>1, <2>2
  <1>8. ASSUME NEW c \in DOMAIN Decided, NEW d \in DOMAIN Decided,
               Decided[c].active, Decided[d].active, c # d
        PROVE  Decided[c].event # Decided[d].event
    <2>1. CASE c \in DOMAIN decision /\ d \in DOMAIN decision
      BY <1>6, <1>8, <2>1 DEF Typed, OneEach, Same
    <2>2. CASE c \in DOMAIN decision /\ d = n
      BY <1>2, <1>5, <1>6, <1>8, <2>2, AskedFits DEF Same
    <2>3. CASE c = n /\ d \in DOMAIN decision
      BY <1>2, <1>5, <1>6, <1>8, <2>3, AskedFits DEF Same
    <2> QED
      BY <1>2, <1>5, <1>8, <2>1, <2>2, <2>3
  <1>9. Len(Decided) <= MaxDecision
    BY <1>1, <1>2, <1>5, RowBounds
  <1> QED
    BY <1>1, <1>2, <1>5, <1>6, <1>7, <1>8, <1>9

\* The stored sources are a book.
LEMMA StoredNamed ==
  ASSUME Typed
  PROVE  Named([source |-> source, event |-> event, possible |-> possible])
  <1>1. possible \in [Key -> SUBSET Key] /\ source \in [Key -> SourceRow] /\ event \in SUBSET Key
    BY DEF Typed, Bound
  <1> QED
    BY <1>1 DEF Named

\* What records, sources and decisions may become.
Moves(book) ==
  /\ Bound(book.source, book.event, book.possible)
  /\ event \subseteq book.event
  /\ \A k \in Key : /\ source[k].event # 0 => book.source[k].event = source[k].event
                    /\ book.source[k].created \in {source[k].created, CreatedAt(k)}
  /\ source' = book.source /\ event' = book.event /\ possible' = book.possible

LEMMA SourcesNext ==
  ASSUME Typed, [Next]_vars
  PROVE  \E book : Moves(book)
  <1> DEFINE b == [source |-> source, event |-> event, possible |-> possible]
  <1>1. /\ Named(b) /\ Bound(source, event, possible)
        /\ b.source = source /\ b.event = event /\ b.possible = possible
    BY StoredNamed DEF Typed
  <1>2. ASSUME UNCHANGED <<source, event, possible>> PROVE Moves(b)
    BY <1>1, <1>2 DEF Moves
  <1>3. CASE ReconcileCourse
    <2>1. Sound(Matched)
      BY <1>3, MatchedSound DEF ReconcileCourse
    <2>2. Moves(Matched)
      BY <1>3, <2>1 DEF ReconcileCourse, Moves, Sound, Extends
    <2> QED
      BY <2>2
  <1>4. ASSUME NEW k \in Key, NEW e \in event, ResolveEventSource(k, e)
        PROVE  \E book : Moves(book)
    <2>1. /\ source' = Bind(b, k, e).source /\ possible' = Bind(b, k, e).possible
          /\ event' = event /\ source[k].event \in {0, e} /\ source[k] # NoSource
          /\ reconciling = 0
      BY <1>4 DEF ResolveEventSource, MayBind, Idle
    <2>2. Drawn(k) /\ e \in Key /\ source[k].created # 0
      BY <2>1 DEF Typed, Bound
    <2> HIDE DEF b
    <2>5. Sound(b)
      BY <1>1, <2>1 DEF Sound, Extends, CreatedAt, NoSource
    <2>3. Sound(Bind(b, k, e))
      BY <1>1, <2>1, <2>2, <2>5, BindSound
    <2>4. Bind(b, k, e).event = event
      BY <1>1, <2>2, BindFacts DEF Binds
    <2> QED
      BY <2>1, <2>3, <2>4 DEF Moves, Sound, Extends
  <1>5. ASSUME NEW i \in Input, Extract(i) PROVE Moves(b)
    BY <1>2, <1>5 DEF Extract
  <1>9. CASE BeginReconcile \/ RollBack
    BY <1>2, <1>9 DEF BeginReconcile, RollBack
  <1>6. ASSUME NEW e \in event, BeginResolve(e) PROVE Moves(b)
    BY <1>2, <1>6 DEF BeginResolve
  <1>7. CASE ResolveField
    BY <1>2, <1>7 DEF ResolveField
  <1>8. CASE UNCHANGED vars
    BY <1>2, <1>8 DEF vars
  <1> QED
    BY <1>3, <1>4, <1>5, <1>6, <1>7, <1>8, <1>9 DEF Next

LEMMA RecordsNext ==
  ASSUME Typed, [Next]_vars
  PROVE  /\ ExtractionsTyped'
         /\ \A k \in DOMAIN extraction : k \in DOMAIN extraction' /\ extraction'[k] = extraction[k]
  <1>1. extraction \in Seq(ExtractionRow) /\ Len(extraction) <= MaxRecord
    BY DEF Typed, ExtractionsTyped
  <1>2. CASE \E i \in Input : Extract(i)
    <2>1. PICK i \in Input : Extract(i)
      BY <1>2
    <2>2. PICK d \in Drafts[i] : extraction' = Append(extraction, [input |-> i, draft |-> d])
      BY <2>1 DEF Extract
    <2> DEFINE row == [input |-> i, draft |-> d]
    <2>3. row \in ExtractionRow
      <3>1. d \in UNION {Drafts[j] : j \in Input}
        BY Zenon
      <3>2. d \in Draft \cup {NoDraft}
        BY <3>1 DEF Draft
      <3> QED
        BY <3>2 DEF ExtractionRow
    <2>4. ExtractionRow \cup {row} = ExtractionRow
      BY <2>3
    <2> HIDE DEF row
    <2>5. Len(extraction) < MaxRecord
      BY <2>1 DEF Extract
    <2>6. extraction' = Append(extraction, row)
      BY <2>2 DEF row
    <2>7. /\ extraction' \in Seq(ExtractionRow)
          /\ Len(extraction) \in Nat /\ Len(extraction') = Len(extraction) + 1
          /\ \A k \in DOMAIN extraction : k \in DOMAIN extraction' /\ extraction'[k] = extraction[k]
      BY <1>1, <2>4, <2>6, Appended
    <2> QED
      BY <2>5, <2>7, RowBounds DEF ExtractionsTyped
  <1>3. CASE extraction' = extraction
    BY <1>1, <1>3 DEF ExtractionsTyped
  <1> QED
    BY <1>2, <1>3 DEF Next, vars, BeginReconcile, ReconcileCourse, RollBack, BeginResolve,
      ResolveField, ResolveEventSource

\* Records that drew a candidate still do, and what is bound stays bound.
LEMMA StaysNext ==
  ASSUME Typed, [Next]_vars
  PROVE  /\ \A k : Drawn(k) => Drawn(k)' /\ DraftOf(k)' = DraftOf(k)
         /\ \A k : Claims(k) => Claims(k)'
         /\ event \subseteq event'
         /\ \A k \in Key : /\ source[k].event # 0 => source'[k].event = source[k].event
                           /\ source'[k].created \in {source[k].created, CreatedAt(k)}
         /\ Bound(source, event, possible)'
  <1>1. \A k \in DOMAIN extraction : k \in DOMAIN extraction' /\ extraction'[k] = extraction[k]
    BY RecordsNext
  <1>2. ASSUME NEW k, Drawn(k) PROVE Drawn(k)' /\ DraftOf(k)' = DraftOf(k)
    BY <1>1, <1>2 DEF Drawn, DraftOf
  <1>3. ASSUME NEW k, Claims(k) PROVE Claims(k)'
    BY <1>2, <1>3 DEF Claims
  <1>4. PICK book : Moves(book)
    BY SourcesNext
  <1>5. /\ source' = book.source /\ event' = book.event /\ possible' = book.possible
        /\ Bound(book.source, book.event, book.possible)
    BY <1>4 DEF Moves
  <1>6. Bound(source', event', possible')
    BY <1>5
  <1>7. Bound(source, event, possible)'
    BY <1>2, <1>6 DEF Bound
  <1> QED
    BY <1>2, <1>3, <1>4, <1>5, <1>7 DEF Moves

LEMMA BoundKeepsInstant ==
  ASSUME Typed, [Next]_vars, NEW k \in Key, source[k].event # 0
  PROVE  source'[k].created = source[k].created
  <1>1. source[k] # NoSource
    BY DEF NoSource
  <1> QED
    BY <1>1, StaysNext DEF CreatedAt

\* The decisions after a step: those before, and the one requested.
LapsedFrom(old, P) ==
  /\ Lapsed(decision', old, P)
  /\ old = decision \/ (old = Decided /\ request # NoRequest /\ request' = NoRequest)

LEMMA DecisionsNext ==
  ASSUME Typed, [Next]_vars
  PROVE  \E old, P : LapsedFrom(old, P)
  <1>1. decision \in Seq(DecisionRow)
    BY DEF Typed
  <1>2. ASSUME decision' = decision PROVE \E P : LapsedFrom(decision, P)
    <2>1. Lapsed(decision', decision, [d \in DOMAIN decision |-> TRUE])
      BY <1>1, <1>2 DEF Lapsed, Same
    <2> QED
      BY <2>1, Zenon DEF LapsedFrom
  <1>3. CASE ReconcileCourse
    <2>1. Recompute(Matched.event, Matched.source, Matched.possible, decision, identity)
      BY <1>3 DEF ReconcileCourse
    <2>2. decision' = Kept(Matched.event, Matched.source, decision)
      BY <2>1, Settles, Zenon
    <2>3. Lapsed(decision', decision, Holding(Matched.event, Matched.source, decision))
      BY <1>1, <2>2, KeptRows
    <2> QED
      BY <2>3, Zenon DEF LapsedFrom
  <1>4. CASE ResolveField
    <2>1. request # NoRequest /\ request' = NoRequest
      BY <1>4 DEF ResolveField
    <2>2. Recompute({request.event}, source, possible, Decided, identity)
      BY <1>4, Zenon DEF ResolveField, Decided, Asked
    <2>3. decision' = Kept({request.event}, source, Decided)
      BY <2>2, Settles, Zenon
    <2>4. Decided \in Seq(DecisionRow)
      BY <2>1, DecidedRows
    <2>5. Lapsed(decision', Decided, Holding({request.event}, source, Decided))
      BY <2>3, <2>4, KeptRows
    <2> QED
      BY <2>1, <2>5, Zenon DEF LapsedFrom
  <1>5. ASSUME NEW k \in Key, NEW e \in event, ResolveEventSource(k, e)
        PROVE  \E P : LapsedFrom(decision, P)
    <2>1. PICK sources, matches, identities : Recompute({e}, sources, matches, decision, identities)
      BY <1>5, Zenon DEF ResolveEventSource
    <2>2. decision' = Kept({e}, sources, decision)
      BY <2>1, Settles, Zenon
    <2>3. Lapsed(decision', decision, Holding({e}, sources, decision))
      BY <1>1, <2>2, KeptRows
    <2> QED
      BY <2>3, Zenon DEF LapsedFrom
  <1>6. ASSUME NEW i \in Input, Extract(i) PROVE decision' = decision
    BY <1>6 DEF Extract
  <1>7. ASSUME NEW e \in event, BeginResolve(e) PROVE decision' = decision
    BY <1>7 DEF BeginResolve
  <1>8. ASSUME UNCHANGED vars PROVE decision' = decision
    BY <1>8 DEF vars
  <1>9. ASSUME BeginReconcile \/ RollBack PROVE decision' = decision
    BY <1>9 DEF BeginReconcile, RollBack
  <1> QED
    BY <1>2, <1>3, <1>4, <1>5, <1>6, <1>7, <1>8, <1>9, Zenon DEF Next

LEMMA DecisionsTyped ==
  ASSUME Typed, [Next]_vars
  PROVE  /\ decision' \in Seq(DecisionRow) /\ Len(decision') <= MaxDecision
         /\ \A d \in DOMAIN decision' : Fits(d, decision[d])'
         /\ OneEach'
  <1>1. PICK old, P : LapsedFrom(old, P)
    BY DecisionsNext
  <1>2. /\ old \in Seq(DecisionRow) /\ Len(old) <= MaxDecision
        /\ \A d \in DOMAIN old : Fits(d, old[d])
        /\ \A c, d \in DOMAIN old : old[c].active /\ old[d].active /\ c # d => old[c].event # old[d].event
    <2>1. CASE old = decision
      BY <2>1 DEF Typed, OneEach
    <2>2. CASE old = Decided /\ request # NoRequest
      BY <2>2, DecidedRows
    <2> QED
      BY <1>1, <2>1, <2>2 DEF LapsedFrom
  <1>3. /\ decision' \in Seq(DecisionRow) /\ Len(decision') = Len(old) /\ DOMAIN decision' = DOMAIN old
        /\ \A d \in DOMAIN old : Same(decision'[d], old[d]) /\ (decision'[d].active => old[d].active)
    BY <1>1 DEF Lapsed, LapsedFrom
  <1>4. ASSUME NEW d \in DOMAIN old PROVE Fits(d, decision[d])'
    <2>1. Fits(d, old[d]) /\ Same(decision'[d], old[d])
      BY <1>2, <1>3
    <2>2. old[d].event \in event /\ event \subseteq Key /\ 0 \notin Key
      BY <2>1, RowBounds DEF Fits, Typed, Bound, Key
    <2>3. old[d].claim \in Key => Claims(old[d].claim) /\ Drawn(old[d].claim)
      BY <2>1 DEF Fits, Claims
    <2> QED
      BY <2>1, <2>2, <2>3, StaysNext DEF Fits, Same
  <1>5. OneEach'
    BY <1>2, <1>3 DEF OneEach, Same
  <1> QED
    BY <1>2, <1>3, <1>4, <1>5

\* The identities after a step: those before, and the one decided.
Identified(k, e) == [source |-> k, event |-> e, active |-> TRUE]
DecidedIdentities(k, e) ==
  Append([i \in DOMAIN identity |-> [identity[i] EXCEPT !.active = @ /\ identity[i].source # k]],
         Identified(k, e))

Identifies(ids, k, e) ==
  /\ ids \in Seq(IdentityRow)
  /\ Len(identity) \in Nat /\ DOMAIN identity = 1..Len(identity)
  /\ DOMAIN ids = DOMAIN identity \cup {Len(identity) + 1}
  /\ ids[Len(identity) + 1] = Identified(k, e)
  /\ \A i \in DOMAIN identity :
       /\ ids[i].source = identity[i].source
       /\ ids[i].event = identity[i].event
       /\ ids[i].active <=> identity[i].active /\ identity[i].source # k

LEMMA DecidedIdentityRows ==
  ASSUME Typed, NEW k \in Key, NEW e \in event
  PROVE  Identifies(DecidedIdentities(k, e), k, e)
  <1> DEFINE P == [i \in DOMAIN identity |-> identity[i].source # k]
             f == [i \in DOMAIN identity |-> [identity[i] EXCEPT !.active = @ /\ P[i]]]
             row == Identified(k, e)
  <1>1. identity \in Seq(IdentityRow)
    BY DEF Typed
  <1>2. P \in [DOMAIN identity -> BOOLEAN] /\ \A i \in DOMAIN identity : P[i] = (identity[i].source # k)
    OBVIOUS
  <1> HIDE DEF P
  <1>3. LapsedIdentities(f, identity, P)
    BY <1>1, <1>2, IdentityRows
  <1>4. DecidedIdentities(k, e) = Append(f, row)
    BY <1>2, Zenon DEF DecidedIdentities
  <1> HIDE DEF f
  <1>5. row \in IdentityRow
    BY DEF IdentityRow, Typed, Bound, Identified
  <1>6. IdentityRow \cup {row} = IdentityRow
    BY <1>5
  <1> HIDE DEF row
  <1>7. /\ DOMAIN f = 1..Len(f) /\ Len(f) \in Nat
        /\ Append(f, row) \in Seq(IdentityRow)
        /\ DOMAIN Append(f, row) = DOMAIN f \cup {Len(f) + 1}
        /\ Append(f, row)[Len(f) + 1] = row
        /\ \A i \in DOMAIN f : Append(f, row)[i] = f[i]
    BY <1>3, <1>6, Appended DEF LapsedIdentities
  <1> DEFINE ids == Append(f, row)
  <1>8. /\ DOMAIN ids = DOMAIN f \cup {Len(f) + 1} /\ ids \in Seq(IdentityRow)
        /\ ids[Len(f) + 1] = row /\ \A i \in DOMAIN f : ids[i] = f[i]
    BY <1>7
  <1> HIDE DEF ids
  <1>9. Identifies(ids, k, e)
    BY <1>2, <1>3, <1>7, <1>8 DEF LapsedIdentities, Identifies, row
  <1> QED
    BY <1>4, <1>9 DEF ids

LEMMA IdentitiesTyped ==
  ASSUME Typed, [Next]_vars
  PROVE  identity' \in Seq(IdentityRow) /\ \A i \in DOMAIN identity' : IdentityTyped(i)'
  <1>1. identity \in Seq(IdentityRow) /\ event \subseteq Key /\ 0 \notin Key
    BY RowBounds DEF Typed, Bound, Key
  <1>2. ASSUME NEW old \in Seq(IdentityRow), NEW P, LapsedIdentities(identity', old, P),
               \A i \in DOMAIN old : old[i].event \in event /\ source'[old[i].source].event = old[i].event
        PROVE  identity' \in Seq(IdentityRow) /\ \A i \in DOMAIN identity' : IdentityTyped(i)'
    BY <1>2, StaysNext DEF LapsedIdentities, IdentityTyped
  <1>3. ASSUME NEW i \in DOMAIN identity
        PROVE  identity[i].event \in event /\ source'[identity[i].source].event = identity[i].event
    <2>1. identity[i] \in IdentityRow /\ IdentityTyped(i)
      BY <1>1 DEF Typed
    <2> QED
      BY <1>1, <2>1, StaysNext DEF IdentityRow, IdentityTyped
  <1>4. ASSUME identity' = identity
        PROVE  LapsedIdentities(identity', identity, [i \in DOMAIN identity |-> TRUE])
    BY <1>1, <1>4 DEF LapsedIdentities
  <1>5. CASE ReconcileCourse
    <2>1. Recompute(Matched.event, Matched.source, Matched.possible, decision, identity)
      BY <1>5 DEF ReconcileCourse
    <2>2. identity' = KeptIdentities(Matched.event, identity)
      BY <2>1, Settles, Zenon
    <2> QED
      BY <1>1, <1>2, <1>3, <2>2, KeptIdentityRows
  <1>6. CASE ResolveField
    <2>1. Recompute({request.event}, source, possible, Decided, identity)
      BY <1>6, Zenon DEF ResolveField, Decided, Asked
    <2>2. identity' = KeptIdentities({request.event}, identity)
      BY <2>1, Settles, Zenon
    <2> QED
      BY <1>1, <1>2, <1>3, <2>2, KeptIdentityRows
  <1>7. ASSUME NEW k \in Key, NEW e \in event, ResolveEventSource(k, e)
        PROVE  identity' \in Seq(IdentityRow) /\ \A i \in DOMAIN identity' : IdentityTyped(i)'
    <2> DEFINE old == DecidedIdentities(k, e)
    <2>3. Identifies(old, k, e)
      BY DecidedIdentityRows
    <2>4. source'[k].event = e
      <3> DEFINE b == [source |-> source, event |-> event, possible |-> possible]
      <3>1. source' = Bind(b, k, e).source
        BY <1>7 DEF ResolveEventSource
      <3>2. Named(b) /\ b.source = source /\ e \in Key
        BY <1>1, StoredNamed
      <3> HIDE DEF b
      <3> QED
        <4>1. Binds(Bind(b, k, e), b, k, e)
          BY <3>2, BindFacts
        <4> QED
          BY <3>1, <4>1 DEF Binds, BoundTo
    <2> HIDE DEF old
    <2>1. PICK sources, matches : Recompute({e}, sources, matches, decision, old)
      BY <1>7, Zenon DEF ResolveEventSource, DecidedIdentities, Identified, old
    <2>2. identity' = KeptIdentities({e}, old)
      BY <2>1, Settles, Zenon
    <2>5. \A i \in DOMAIN old : old[i].event \in event /\ source'[old[i].source].event = old[i].event
      BY <1>3, <2>3, <2>4 DEF Identified, Identifies
    <2> QED
      BY <1>2, <2>2, <2>3, <2>5, KeptIdentityRows DEF Identifies
  <1>8. ASSUME NEW i \in Input, Extract(i) PROVE identity' = identity
    BY <1>8 DEF Extract
  <1>9. ASSUME NEW e \in event, BeginResolve(e) PROVE identity' = identity
    BY <1>9 DEF BeginResolve
  <1>10. CASE UNCHANGED vars
    BY <1>1, <1>2, <1>3, <1>4, <1>10 DEF vars
  <1>11. ASSUME BeginReconcile \/ RollBack PROVE identity' = identity
    BY <1>11 DEF BeginReconcile, RollBack
  <1> QED
    BY <1>1, <1>2, <1>3, <1>4, <1>5, <1>6, <1>7, <1>8, <1>9, <1>10, <1>11 DEF Next

LEMMA RequestNext ==
  ASSUME Typed, [Next]_vars
  PROVE  RequestTyped'
  <1>1. ASSUME NEW e \in event, BeginResolve(e) PROVE RequestTyped'
    <2>1. PICK pick \in {[claim |-> k, value |-> DraftOf(k).value] :
                           k \in {k \in Key : source[k].event = e /\ DraftOf(k).value # NoValue}}
                        \cup {[claim |-> 0, value |-> v] : v \in LocalValue} :
            request' = [event |-> e, claim |-> pick.claim, value |-> pick.value,
                        decidedAt |-> clock, seen |-> Stored, during |-> reconciling]
      BY <1>1 DEF BeginResolve
    <2>2. /\ Len(decision) + Len(identity) < MaxDecision
          /\ decision' = decision /\ extraction' = extraction /\ source' = source /\ event' = event
      BY <1>1 DEF BeginResolve
    <2>3. Len(decision) < MaxDecision
      BY <2>2, RowBounds DEF Typed
    <2>4. /\ pick.value \in Nat \X Nat
          /\ pick.claim # 0 => /\ pick.claim \in Key /\ Claims(pick.claim)
                               /\ DraftOf(pick.claim).value = pick.value
                               /\ source[pick.claim].event = e
      <3>1. CASE pick \in {[claim |-> 0, value |-> v] : v \in LocalValue}
        BY <3>1, LocalValuesTyped
      <3>2. ASSUME NEW k \in Key, source[k].event = e, DraftOf(k).value # NoValue,
                   pick = [claim |-> k, value |-> DraftOf(k).value]
            PROVE  /\ pick.value \in Nat \X Nat /\ pick.claim = k /\ Claims(k)
                   /\ DraftOf(pick.claim).value = pick.value
        <4>1. source[k].event # 0
          BY <3>2, RowBounds DEF Typed, Bound, Key
        <4>2. source[k] # NoSource
          BY <4>1 DEF NoSource
        <4>3. Claims(k)
          BY <3>2, <4>2 DEF Claims, Typed, Bound
        <4>4. DraftOf(k).value \in Nat \X Nat
          BY <4>3, Records DEF Typed
        <4>5. pick.claim = k /\ pick.value = DraftOf(k).value
          BY <3>2
        <4> QED
          BY <4>3, <4>4, <4>5
      <3> QED
        BY <3>1, <3>2
    <2>5. /\ request'.event = e /\ request'.claim = pick.claim /\ request'.value = pick.value
          /\ request'.seen = Stored /\ request'.decidedAt \in Nat /\ request'.during \in Nat
      BY <2>1 DEF Typed
    <2>6. Stored \in SUBSET Key
      BY DEF Stored
    <2>7. \A k : (Claims(k) <=> Claims(k)') /\ DraftOf(k)' = DraftOf(k)
      BY <2>2 DEF Claims, Drawn, DraftOf
    <2> QED
      BY <2>2, <2>3, <2>4, <2>5, <2>6, <2>7, Zenon DEF RequestTyped
  <1>2. CASE ResolveField
    BY <1>2 DEF ResolveField, RequestTyped
  <1>3. ASSUME request' = request, request # NoRequest PROVE RequestTyped'
    <2>1. /\ Len(decision) < MaxDecision
          /\ request.event \in event
          /\ request.value \in Nat \X Nat
          /\ request.decidedAt \in Nat /\ request.during \in Nat
          /\ request.seen \in SUBSET Key
          /\ request.claim # 0 => /\ request.claim \in Key /\ Claims(request.claim)
                                  /\ DraftOf(request.claim).value = request.value
                                  /\ source[request.claim].event = request.event
          /\ event \subseteq Key /\ 0 \notin Key
      BY <1>3, RowBounds DEF Typed, RequestTyped, Bound, Key
    <2>2. Len(decision') = Len(decision)
      BY <1>3, DecisionsNext DEF Lapsed, LapsedFrom
    <2> QED
      BY <1>3, <2>1, <2>2, StaysNext DEF RequestTyped, Claims
  <1>4. ASSUME request' = request, request = NoRequest PROVE RequestTyped'
    BY <1>4 DEF RequestTyped
  <1> QED
    BY <1>1, <1>2, <1>3, <1>4 DEF Next, vars, BeginReconcile, ReconcileCourse, RollBack, Extract,
      ResolveEventSource

\* The clock only moves, and a transaction opens at its present instant.
LEMMA ClockNext ==
  ASSUME Typed, [Next]_vars
  PROVE  /\ clock' \in Nat /\ reconciling' \in Nat
         /\ clock <= clock' /\ reconciling' \in {reconciling, clock, Idle}
  <1>1. CASE \E e \in event : BeginResolve(e)
    BY <1>1 DEF Typed, BeginResolve
  <1>2. CASE BeginReconcile \/ RollBack
    BY <1>2 DEF Typed, BeginReconcile, RollBack, Idle
  <1>3. CASE \E i \in Input : Extract(i)
    BY <1>3 DEF Typed, Extract
  <1>4. CASE ReconcileCourse
    BY <1>4 DEF Typed, ReconcileCourse, Idle
  <1>5. CASE ResolveField
    BY <1>5 DEF Typed, ResolveField
  <1>6. CASE \E k \in Key, e \in event : ResolveEventSource(k, e)
    BY <1>6 DEF Typed, ResolveEventSource
  <1> QED
    BY <1>1, <1>2, <1>3, <1>4, <1>5, <1>6 DEF Next, vars, Typed

LEMMA TypedInit == Init => Typed
  <1> SUFFICES ASSUME Init PROVE Typed
    OBVIOUS
  <1>1. ExtractionsTyped
    BY RowBounds DEF Init, ExtractionsTyped
  <1>2. Bound(source, event, possible)
    BY DEF Init, Bound, SourceRow, NoSource
  <1>3. /\ decision = <<>> /\ decision \in Seq(DecisionRow) /\ DOMAIN decision = {} /\ Len(decision) = 0
        /\ identity = <<>> /\ identity \in Seq(IdentityRow) /\ DOMAIN identity = {}
        /\ request = NoRequest /\ clock \in Nat /\ reconciling \in Nat
    BY DEF Init, Idle
  <1> QED
    BY <1>1, <1>2, <1>3, RowBounds DEF Typed, OneEach, RequestTyped

LEMMA TypedNext == Typed /\ [Next]_vars => Typed'
  BY RecordsNext, StaysNext, DecisionsTyped, IdentitiesTyped, RequestNext, ClockNext DEF Typed

LEMMA TypedAlways == Spec => []Typed
  BY TypedInit, TypedNext, PTL DEF Spec

-----------------------------------------------------------------------------
(***************************************************************************)
(* What decides.  A step leaves decisions, bindings and outcomes alone, or *)
(* recomputes the events es, and then it binds sources to those only.      *)
(***************************************************************************)
Quiet == UNCHANGED <<source, event, possible, decision, identity, outcome, supersedes>>

Recomputes(es, sources, matches, old, ids) ==
  /\ Recompute(es, sources, matches, old, ids)
  /\ extraction' = extraction /\ source' = sources /\ possible' = matches
  /\ es \subseteq event'
  /\ \A k \in Key : sources[k].event # source[k].event => sources[k].event \in es
  /\ \/ old = decision
     \/ request # NoRequest /\ old = Decided /\ es = {request.event}
  /\ ids \in Seq(IdentityRow)

LEMMA Steps ==
  ASSUME Typed, [Next]_vars
  PROVE  Quiet \/ \E es, sources, matches, old, ids : Recomputes(es, sources, matches, old, ids)
  <1>1. identity \in Seq(IdentityRow) /\ event \subseteq Key /\ 0 \notin Key
    BY RowBounds DEF Typed, Bound, Key
  <1>2. CASE ReconcileCourse
    <2>1. /\ Recompute(Matched.event, Matched.source, Matched.possible, decision, identity)
          /\ extraction' = extraction /\ source' = Matched.source /\ event' = Matched.event
          /\ possible' = Matched.possible
      BY <1>2 DEF ReconcileCourse
    <2>2. Sound(Matched)
      BY <1>2, MatchedSound DEF ReconcileCourse
    <2>3. \A k \in Key : Matched.source[k].event # source[k].event => Matched.source[k].event \in Matched.event
      BY <2>2, StaysNext, <2>1 DEF Sound, Bound, Extends
    <2>4. Recomputes(Matched.event, Matched.source, Matched.possible, decision, identity)
      BY <1>1, <2>1, <2>3 DEF Recomputes
    <2> QED
      BY <2>4
  <1>3. CASE ResolveField
    <2>1. /\ Recompute({request.event}, source, possible, Decided, identity)
          /\ request # NoRequest /\ request' = NoRequest
          /\ UNCHANGED <<extraction, source, event, possible>>
      BY <1>3, Zenon DEF ResolveField, Decided, Asked
    <2>2. request.event \in event
      BY <2>1 DEF Typed, RequestTyped
    <2>3. Recomputes({request.event}, source, possible, Decided, identity)
      BY <1>1, <2>1, <2>2 DEF Recomputes
    <2> QED
      BY <2>3
  <1>4. ASSUME NEW k \in Key, NEW e \in event, ResolveEventSource(k, e)
        PROVE  \E es, sources, matches, old, ids : Recomputes(es, sources, matches, old, ids)
    <2> DEFINE b == [source |-> source, event |-> event, possible |-> possible]
               n == Bind(b, k, e)
               ids == DecidedIdentities(k, e)
    <2>1. /\ Recompute({e}, n.source, n.possible, decision, ids)
          /\ extraction' = extraction /\ source' = n.source /\ event' = event /\ possible' = n.possible
      BY <1>4, Zenon DEF ResolveEventSource, DecidedIdentities, Identified
    <2>2. ids \in Seq(IdentityRow)
      <3>1. Identifies(ids, k, e)
        BY DecidedIdentityRows
      <3> QED
        BY <3>1 DEF Identifies
    <2>3. Named(b) /\ b.source = source /\ e \in Key
      BY <1>1, StoredNamed
    <2> HIDE DEF b, ids
    <2>4. Binds(n, b, k, e)
      BY <2>3, BindFacts
    <2> HIDE DEF n
    <2>5. \A j \in Key : n.source[j].event # source[j].event => n.source[j].event \in {e}
      BY <2>3, <2>4 DEF Binds, BoundTo
    <2>6. Recomputes({e}, n.source, n.possible, decision, ids)
      BY <2>1, <2>2, <2>5 DEF Recomputes
    <2> QED
      BY <2>6
  <1>5. ASSUME NEW i \in Input, Extract(i) PROVE Quiet
    BY <1>5 DEF Extract, Quiet
  <1>6. ASSUME NEW e \in event, BeginResolve(e) PROVE Quiet
    BY <1>6 DEF BeginResolve, Quiet
  <1>7. CASE UNCHANGED vars
    BY <1>7 DEF vars, Quiet
  <1>8. CASE BeginReconcile \/ RollBack
    BY <1>8 DEF BeginReconcile, RollBack, Quiet
  <1> QED
    BY <1>2, <1>3, <1>4, <1>5, <1>6, <1>7, <1>8 DEF Next

\* The decisions that a recomputation leaves active, and why it ends the others.
Judges(es, sources, old) ==
  /\ old \in Seq(DecisionRow)
  /\ DOMAIN decision' = DOMAIN old /\ DOMAIN decision \subseteq DOMAIN old
  /\ \A d \in DOMAIN old :
       /\ Same(decision'[d], old[d])
       /\ Fits(d, old[d])
       /\ decision'[d].active <=>
            /\ old[d].active
            /\ ~(old[d].event \in es /\ (Retired(old[d]) \/ Displaced(old[d], sources)))
  /\ \A d \in DOMAIN decision :
       /\ Same(old[d], decision[d])
       /\ old[d].active => decision[d].active
       /\ decision[d].active /\ ~old[d].active =>
            \E c \in DOMAIN old \ DOMAIN decision : old[c].event = decision[d].event
  /\ \A d \in DOMAIN old \ DOMAIN decision : old[d].event \in es

LEMMA Judged ==
  ASSUME Typed, NEW es, NEW sources, NEW matches, NEW old, NEW ids,
         Recomputes(es, sources, matches, old, ids)
  PROVE  Judges(es, sources, old)
  <1>1. /\ old \in Seq(DecisionRow) /\ DOMAIN decision \subseteq DOMAIN old
        /\ \A d \in DOMAIN old : Fits(d, old[d])
        /\ \A d \in DOMAIN decision :
             /\ Same(old[d], decision[d])
             /\ old[d].active => decision[d].active
             /\ decision[d].active /\ ~old[d].active =>
                  \E c \in DOMAIN old \ DOMAIN decision : old[c].event = decision[d].event
        /\ \A d \in DOMAIN old \ DOMAIN decision : old[d].event \in es
    <2>1. CASE old = decision
      BY <2>1 DEF Typed, Same
    <2>2. CASE request # NoRequest /\ old = Decided /\ es = {request.event}
      <3>1. /\ Decided \in Seq(DecisionRow)
            /\ Len(decision) \in Nat /\ DOMAIN decision = 1..Len(decision)
            /\ DOMAIN Decided = DOMAIN decision \cup {Len(decision) + 1}
            /\ Decided[Len(decision) + 1].event = request.event
            /\ \A d \in DOMAIN decision :
                 /\ Same(Decided[d], decision[d])
                 /\ Decided[d].active <=> decision[d].active /\ decision[d].event # request.event
            /\ \A d \in DOMAIN Decided : Fits(d, Decided[d])
        BY <2>2, DecidedRows, AskedFits
      <3>2. Len(decision) + 1 \in DOMAIN Decided \ DOMAIN decision
        BY <3>1
      <3> QED
        BY <2>2, <3>1, <3>2
    <2> QED
      BY <2>1, <2>2 DEF Recomputes
  <1>2. Lapsed(decision', old, Holding(es, sources, old))
    <2>1. Recompute(es, sources, matches, old, ids)
      BY DEF Recomputes
    <2>2. decision' = Kept(es, sources, old)
      BY <2>1, Settles, Zenon
    <2> QED
      BY <1>1, <2>2, KeptRows
  <1>3. ASSUME NEW d \in DOMAIN old
        PROVE  Holding(es, sources, old)[d] =
                 ~(old[d].event \in es /\ (Retired(old[d]) \/ Displaced(old[d], sources)))
    BY Zenon DEF Holding
  <1>4. DOMAIN decision' = DOMAIN old
    BY <1>2 DEF Lapsed
  <1>5. ASSUME NEW d \in DOMAIN old
        PROVE  /\ Same(decision'[d], old[d])
               /\ decision'[d].active <=>
                    /\ old[d].active
                    /\ ~(old[d].event \in es /\ (Retired(old[d]) \/ Displaced(old[d], sources)))
    BY <1>2, <1>3, Zenon DEF Lapsed
  <1> QED
    BY <1>1, <1>4, <1>5, Zenon DEF Judges

-----------------------------------------------------------------------------
(***************************************************************************)
(* Instants.  A request reads its own once and the clock moves on, so what *)
(* is stored later is older than it only if the reconciliation that was    *)
(* open then stored it.                                                    *)
(***************************************************************************)

\* The claims no newer than a row are those its user saw, and those of the
\* reconciliation that was open when it was asked for.
TimelyRow(row, sources, now, open) ==
  /\ row.decidedAt < now /\ row.during <= row.decidedAt
  /\ open \in 1..row.decidedAt => open = row.during
  /\ \A k \in row.seen : sources[k].created \in 1..row.decidedAt
  /\ \A k \in Key : sources[k].created \in 1..row.decidedAt =>
       k \in row.seen \/ sources[k].created = row.during

Timely ==
  /\ reconciling <= clock
  /\ \A k \in Key : source[k].created <= clock
  /\ request # NoRequest => TimelyRow(request, source, clock, reconciling)
  /\ \A d \in DOMAIN decision : TimelyRow(decision[d], source, clock, reconciling)

LEMMA RowStaysTimely ==
  ASSUME Typed, [Next]_vars,
         NEW row, row.decidedAt \in Nat, row.during \in Nat, row.seen \in SUBSET Key,
         TimelyRow(row, source, clock, reconciling)
  PROVE  TimelyRow(row, source', clock', reconciling')
  <1>1. /\ clock \in Nat /\ clock' \in Nat /\ clock <= clock'
        /\ reconciling \in Nat /\ reconciling' \in {reconciling, clock, 0}
    BY ClockNext DEF Typed, Idle
  <1>2. row.decidedAt < clock'
    BY <1>1 DEF TimelyRow
  <1>3. reconciling' \in 1..row.decidedAt => reconciling' = row.during
    BY <1>1 DEF TimelyRow
  <1>4. ASSUME NEW k \in Key
        PROVE  /\ source[k].created \in Nat
               /\ \/ source'[k].created = source[k].created
                  \/ source[k].created = 0 /\ source'[k].created = reconciling
    <2>1. source[k] \in SourceRow
      BY DEF Typed, Bound
    <2> QED
      BY <2>1, StaysNext DEF SourceRow, CreatedAt, NoSource
  <1>5. ASSUME NEW k \in row.seen PROVE source'[k].created \in 1..row.decidedAt
    BY <1>4 DEF TimelyRow
  <1>6. ASSUME NEW k \in Key, source'[k].created \in 1..row.decidedAt
        PROVE  k \in row.seen \/ source'[k].created = row.during
    BY <1>4, <1>6 DEF TimelyRow
  <1> QED
    BY <1>2, <1>3, <1>5, <1>6 DEF TimelyRow

\* What a user asks is timely: its instant is read with what is stored in sight.
LEMMA AskedTimely ==
  ASSUME Typed, Timely, NEW e \in event, BeginResolve(e)
  PROVE  TimelyRow(request', source', clock', reconciling')
  <1>1. /\ request'.decidedAt = clock /\ request'.seen = Stored /\ request'.during = reconciling
        /\ clock' = clock + 1 /\ source' = source /\ reconciling' = reconciling
    BY DEF BeginResolve
  <1>2. /\ clock \in Nat /\ reconciling \in Nat /\ reconciling <= clock
        /\ \A k \in Key : source[k].created <= clock
    BY DEF Typed, Timely
  <1>3. ASSUME NEW k \in Key
        PROVE  /\ source[k].created \in Nat
               /\ k \in Stored <=> source[k].created # 0
    <2>1. source[k] \in SourceRow /\ (source[k] # NoSource => source[k].created # 0)
      BY DEF Typed, Bound
    <2> QED
      BY <2>1 DEF SourceRow, Stored, NoSource
  <1>4. Stored \subseteq Key
    BY DEF Stored
  <1> QED
    BY <1>1, <1>2, <1>3, <1>4 DEF TimelyRow

LEMMA TimelyInit == Init => Timely
  BY DEF Init, Timely, NoSource, Idle

LEMMA TimelyNext == Typed /\ Timely /\ [Next]_vars => Timely'
  <1> SUFFICES ASSUME Typed, Timely, [Next]_vars PROVE Timely'
    OBVIOUS
  <1>1. /\ clock \in Nat /\ clock' \in Nat /\ clock <= clock'
        /\ reconciling \in Nat /\ reconciling' \in {reconciling, clock, 0}
        /\ reconciling <= clock
    BY ClockNext DEF Typed, Idle, Timely
  <1>2. ASSUME NEW k \in Key PROVE source'[k].created <= clock'
    <2>1. source[k] \in SourceRow /\ source[k].created <= clock
      BY DEF Typed, Bound, Timely
    <2> QED
      BY <1>1, <2>1, StaysNext DEF SourceRow, CreatedAt
  <1>3. ASSUME NEW d \in DOMAIN decision
        PROVE  TimelyRow(decision[d], source', clock', reconciling')
    <2>1. decision[d] \in DecisionRow
      BY DEF Typed
    <2>2. TimelyRow(decision[d], source, clock, reconciling)
      BY DEF Timely
    <2> QED
      BY <2>1, <2>2, RowStaysTimely DEF DecisionRow
  <1>4. ASSUME request # NoRequest
        PROVE  TimelyRow(request, source', clock', reconciling')
    <2>1. /\ request.decidedAt \in Nat /\ request.during \in Nat /\ request.seen \in SUBSET Key
          /\ TimelyRow(request, source, clock, reconciling)
      BY <1>4 DEF Typed, RequestTyped, Timely
    <2> QED
      BY <2>1, RowStaysTimely
  <1>5. ASSUME request' # NoRequest
        PROVE  TimelyRow(request', source', clock', reconciling')
    <2>1. request' = request \/ request' = NoRequest \/ \E e \in event : BeginResolve(e)
      BY DEF Next, vars, BeginReconcile, ReconcileCourse, RollBack, Extract, ResolveField,
        ResolveEventSource
    <2> QED
      BY <1>4, <1>5, <2>1, AskedTimely
  <1>6. ASSUME NEW d \in DOMAIN decision'
        PROVE  TimelyRow(decision'[d], source', clock', reconciling')
    <2>1. PICK old, P : LapsedFrom(old, P)
      BY DecisionsNext
    <2>2. d \in DOMAIN old /\ Same(decision'[d], old[d])
      BY <2>1 DEF Lapsed, LapsedFrom
    <2>3. TimelyRow(old[d], source', clock', reconciling')
      <3>1. CASE old = decision
        BY <1>3, <2>2, <3>1
      <3>2. CASE old = Decided /\ request # NoRequest
        <4>1. CASE d \in DOMAIN decision
          <5>1. Same(Decided[d], decision[d])
            BY <3>2, <4>1, DecidedRows
          <5> QED
            BY <1>3, <3>2, <4>1, <5>1 DEF TimelyRow, Same
        <4>2. CASE d \notin DOMAIN decision
          <5>1. Decided[d] = Asked
            BY <2>2, <3>2, <4>2, DecidedRows
          <5>2. /\ Asked.decidedAt = request.decidedAt /\ Asked.seen = request.seen
                /\ Asked.during = request.during
            BY DEF Asked, DecidedAt
          <5> QED
            BY <1>4, <3>2, <5>1, <5>2 DEF TimelyRow
        <4> QED
          BY <4>1, <4>2
      <3> QED
        BY <2>1, <3>1, <3>2 DEF LapsedFrom
    <2> QED
      BY <2>2, <2>3 DEF TimelyRow, Same
  <1>7. reconciling' <= clock'
    BY <1>1
  <1> QED
    BY <1>2, <1>5, <1>6, <1>7 DEF Timely

LEMMA TimelyAlways == Spec => []Timely
  BY TimelyInit, TimelyNext, TypedAlways, PTL DEF Spec

-----------------------------------------------------------------------------
(***************************************************************************)
(* When a decision ends, and that it ends when it must.                    *)
(***************************************************************************)

\* The step of DecisionsLapseForCause.
LapseForCause ==
  \A d \in DOMAIN decision : decision[d].active /\ ~decision'[d].active =>
    \/ \E c \in DOMAIN decision' \ DOMAIN decision : decision'[c].event = decision[d].event
    \/ Retired(decision[d])
    \/ \E k \in Candidates \ decision[d].seen :
         /\ source'[k].event = decision[d].event
         /\ source'[k].created # decision[d].during
         /\ DraftOf(k).value # NoValue
         /\ ~ManualCompatible(decision[d].value, DraftOf(k).value)

LEMMA LapseForCauseNext == Typed /\ Timely' /\ [Next]_vars => LapseForCause
  <1> SUFFICES ASSUME Typed, Timely', [Next]_vars, NEW d \in DOMAIN decision,
                      decision[d].active, ~decision'[d].active
               PROVE  \/ \E c \in DOMAIN decision' \ DOMAIN decision : decision'[c].event = decision[d].event
                      \/ Retired(decision[d])
                      \/ \E k \in Candidates \ decision[d].seen :
                           /\ source'[k].event = decision[d].event
                           /\ source'[k].created # decision[d].during
                           /\ DraftOf(k).value # NoValue
                           /\ ~ManualCompatible(decision[d].value, DraftOf(k).value)
    BY DEF LapseForCause
  <1>1. ~Quiet
    BY DEF Quiet
  <1>2. PICK es, sources, matches, old, ids : Recomputes(es, sources, matches, old, ids)
    BY <1>1, Steps
  <1>3. Judges(es, sources, old) /\ source' = sources
    BY <1>2, Judged DEF Recomputes
  <1>4. /\ d \in DOMAIN old /\ Same(old[d], decision[d]) /\ d \in DOMAIN decision'
        /\ Same(decision'[d], old[d])
    BY <1>3 DEF Judges
  <1>5. CASE old[d].active
    <2>1. Retired(old[d]) \/ Displaced(old[d], sources)
      BY <1>3, <1>4, <1>5 DEF Judges
    <2>2. Retired(old[d]) => Retired(decision[d])
      BY <1>4 DEF Retired, Same
    <2>3. /\ decision[d].decidedAt \in Nat /\ decision[d].during \in Nat
          /\ TimelyRow(decision[d], sources, clock', reconciling')
      <3>1. decision[d] \in DecisionRow
        BY DEF Typed
      <3>2. TimelyRow(decision'[d], source', clock', reconciling')
        BY <1>4 DEF Timely
      <3> QED
        BY <1>3, <1>4, <3>1, <3>2 DEF DecisionRow, TimelyRow, Same
    <2>4. ASSUME NEW k \in Candidates, sources[k].created > decision[d].decidedAt
          PROVE  k \notin decision[d].seen /\ sources[k].created # decision[d].during
      <3>1. k \in Key /\ sources[k].created \in Nat
        <4>1. k \in Key
          BY Records DEF Typed
        <4>2. source' \in [Key -> SourceRow]
          BY StaysNext DEF Bound
        <4> QED
          BY <1>3, <4>1, <4>2 DEF SourceRow
      <3> QED
        BY <2>3, <2>4, <3>1 DEF TimelyRow
    <2> QED
      BY <1>3, <1>4, <2>1, <2>2, <2>4 DEF Displaced, Same
  <1>6. CASE ~old[d].active
    <2>1. PICK c \in DOMAIN old \ DOMAIN decision : old[c].event = decision[d].event
      BY <1>3, <1>6 DEF Judges
    <2> QED
      BY <1>3, <2>1 DEF Judges, Same
  <1> QED
    BY <1>5, <1>6

\* A decision lapses only when a newer one on its event is stored, when its claim
\* is no longer current, or when a claim contradicts it that was not stored when
\* the user asked, nor by the reconciliation open then (`resolve_field',
\* `_expire_outdated_manual_resolutions').
THEOREM DecisionsEndForCause == Spec => DecisionsLapseForCause
  <1>1. Typed /\ Timely' /\ [Next]_vars => [LapseForCause]_vars
    BY LapseForCauseNext
  <1>2. Spec => [][LapseForCause]_vars
    BY <1>1, TypedAlways, TimelyAlways, PTL DEF Spec
  <1> QED
    BY <1>2 DEF DecisionsLapseForCause, LapseForCause

\* A claim the user saw, or of the reconciliation that was open.
Excused(row, sources, k) == k \in row.seen \/ sources[k].created = row.during

LEMMA LaterInit == Init => LaterEvidenceReopens
  BY DEF Init, LaterEvidenceReopens

LEMMA LaterNext ==
  Typed /\ Typed' /\ Timely' /\ LaterEvidenceReopens /\ [Next]_vars => LaterEvidenceReopens'
  <1> SUFFICES ASSUME Typed, Typed', Timely', LaterEvidenceReopens, [Next]_vars,
                      NEW d \in DOMAIN decision', decision'[d].active,
                      NEW k \in Candidates', source'[k].event = decision'[d].event,
                      DraftOf(k)'.value # NoValue,
                      ~ManualCompatible(decision'[d].value, DraftOf(k)'.value)
               PROVE  Excused(decision'[d], source', k)
    BY DEF LaterEvidenceReopens, Contradicted, Excused
  <1>1. decision'[d].event \in event' /\ event' \subseteq Key /\ 0 \notin Key
    BY RowBounds DEF Typed, Fits, Bound, Key
  <1>2. k \in Key /\ Drawn(k)' /\ Effective(k)'
    <2>1. extraction' \in Seq(ExtractionRow) /\ Len(extraction') <= MaxRecord
      BY DEF Typed, ExtractionsTyped
    <2> QED
      BY <2>1, RowBounds DEF Candidates, Drawn, Effective, Key
  <1>3. ASSUME Drawn(k) PROVE k \in Candidates /\ DraftOf(k)' = DraftOf(k)
    <2>1. \A j \in DOMAIN extraction : j \in DOMAIN extraction' /\ extraction'[j] = extraction[j]
      BY RecordsNext
    <2>2. Effective(k)
      BY <1>2, <1>3, <2>1 DEF Effective, InputOf, Drawn
    <2> QED
      BY <1>3, <2>1, <2>2 DEF Candidates, Drawn, DraftOf
  <1>4. source[k].event # 0 => Drawn(k) /\ source'[k].created = source[k].created
    BY <1>2, BoundKeepsInstant DEF Typed, Bound, NoSource
  <1>5. CASE Quiet
    <2>1. source[k].event # 0
      BY <1>1, <1>5 DEF Quiet
    <2> QED
      BY <1>3, <1>4, <1>5, <2>1 DEF Quiet, LaterEvidenceReopens, Contradicted, Excused
  <1>6. CASE \E es, sources, matches, old, ids : Recomputes(es, sources, matches, old, ids)
    <2>1. PICK es, sources, matches, old, ids : Recomputes(es, sources, matches, old, ids)
      BY <1>6
    <2>2. Judges(es, sources, old) /\ source' = sources /\ extraction' = extraction
      BY <2>1, Judged DEF Recomputes
    <2>3. Drawn(k)
      BY <1>2, <2>2 DEF Drawn, DraftOf
    <2>4. k \in Candidates /\ DraftOf(k)' = DraftOf(k)
      BY <1>3, <2>3
    <2>5. d \in DOMAIN old /\ Same(decision'[d], old[d]) /\ old[d].active /\ Fits(d, old[d])
      BY <2>2 DEF Judges
    <2>6. CASE old[d].event \in es
      <3>1. ~Displaced(old[d], sources)
        BY <2>2, <2>5, <2>6 DEF Judges
      <3>2. k = old[d].claim => DraftOf(k).value = old[d].value
        BY <1>2, <2>5 DEF Fits
      <3>3. k = old[d].claim => ManualCompatible(old[d].value, DraftOf(k).value)
        BY <3>2 DEF ManualCompatible, TemporalAgrees
      <3>4. ~(source'[k].created > decision'[d].decidedAt)
        BY <2>2, <2>4, <2>5, <3>1, <3>3 DEF Displaced, Same
      <3>5. source'[k].created \in 1..decision'[d].decidedAt
        <4>1. source'[k] \in SourceRow /\ decision'[d] \in DecisionRow
          BY <1>2 DEF Typed, Bound
        <4>2. source'[k] # NoSource
          BY <1>1 DEF NoSource
        <4>3. source'[k].created # 0
          BY <1>2, <4>2 DEF Typed, Bound
        <4> QED
          BY <3>4, <4>1, <4>3 DEF SourceRow, DecisionRow
      <3> QED
        BY <1>2, <3>5 DEF Timely, TimelyRow, Excused
    <2>7. CASE old[d].event \notin es
      <3>1. d \in DOMAIN decision /\ decision[d].active /\ Same(old[d], decision[d])
        BY <2>2, <2>5, <2>7 DEF Judges
      <3>2. source[k].event = sources[k].event
        BY <1>2, <2>1, <2>2, <2>5, <2>7 DEF Recomputes, Same
      <3>3. source'[k].created = source[k].created
        BY <1>1, <1>4, <2>2, <3>2
      <3> QED
        BY <2>2, <2>4, <2>5, <3>1, <3>2, <3>3
          DEF LaterEvidenceReopens, Contradicted, Excused, Same
    <2> QED
      BY <2>6, <2>7
  <1> QED
    BY <1>5, <1>6, Steps

\* However long a request waits for its transaction, a current claim that
\* contradicts an active decision was stored when the user asked for it, or by
\* the reconciliation whose transaction was open then: the instant of a decision
\* is that of its request, and a claim has that of its reconciliation
\* (`resolve_field', `reconcile_course').
THEOREM LaterEvidenceAlwaysReopens == Spec => []LaterEvidenceReopens
  BY LaterInit, LaterNext, TypedAlways, TimelyAlways, PTL DEF Spec

-----------------------------------------------------------------------------
(***************************************************************************)
(* What a recomputation writes.                                            *)
(***************************************************************************)
Values(decisions) ==
  [c \in {k \in DOMAIN extraction : DraftOf(k) # NoDraft}
           \cup {LocalClaim(d) : d \in DOMAIN decisions} |-> ValueOf(c, decisions)]
Chosen(e, sources, decisions, identities) ==
  Choice(e, ActiveClaims(e, sources, decisions, identities), decisions, Values(decisions))
Agreeing(c, e, sources, decisions, identities) ==
  Accepted(c, ActiveClaims(e, sources, decisions, identities), Values(decisions))

\* The outcome o and the edges s that a recomputation of e stores.
Stores(o, s, e, sources, matches, decisions, identities) ==
  LET claims == ActiveClaims(e, sources, decisions, identities)
      choice == Chosen(e, sources, decisions, identities)
      accepted == IF choice.claim = 0 THEN {} ELSE Agreeing(choice.claim, e, sources, decisions, identities)
  IN /\ o = [selected |-> choice.claim, accepted |-> accepted,
             open |-> IF choice.claim = 0 THEN claims ELSE {},
             ambiguous |-> Ambiguous(e, sources, matches, decisions, identities)]
     /\ s = IF choice.supersede THEN {<<choice.claim, b>> : b \in claims \ accepted} ELSE {}

LEMMA RecomputedStores ==
  ASSUME NEW e, NEW sources, NEW matches, NEW decisions, NEW identities,
         NEW r, r = Recomputed(e, sources, matches, decisions, identities)
  PROVE  Stores(r.outcome, r.edges, e, sources, matches, decisions, identities)
  BY DEF Recomputed, Stores, Chosen, Agreeing, Values

Writes(es, sources, matches) ==
  /\ \A e \in Key \cap es :
       \E s \in SUBSET supersedes' : Stores(outcome'[e], s, e, sources, matches, decision', identity')
  /\ supersedes \subseteq supersedes'
  /\ \A e \in Key \ es : outcome'[e] = outcome[e]
  /\ outcome' = [e \in Key |-> outcome'[e]]
  /\ \A x \in supersedes' \ supersedes : \E e, o, s :
       e \in es /\ x \in s /\ Stores(o, s, e, sources, matches, decision', identity')

LEMMA Written ==
  ASSUME NEW es, NEW sources, NEW matches, NEW old, NEW ids,
         Recompute(es, sources, matches, old, ids)
  PROVE  Writes(es, sources, matches)
  <1> DEFINE kept == Kept(es, sources, old)
             keptIdentities == KeptIdentities(es, ids)
             new == [e \in es |-> Recomputed(e, sources, matches, kept, keptIdentities)]
             s == Settled(es, sources, matches, old, ids)
  <1>1. decision' = kept /\ identity' = keptIdentities /\ outcome' = s.outcome /\ supersedes' = s.supersedes
    BY Settles, Zenon
  <1>2. /\ s.outcome = [k \in Key |-> IF k \in es THEN new[k].outcome ELSE outcome[k]]
        /\ s.supersedes = supersedes \cup UNION {new[e].edges : e \in es}
    BY DEF Settled
  <1> HIDE DEF s, kept, keptIdentities
  <1>3. ASSUME NEW e \in es
        PROVE  Stores(new[e].outcome, new[e].edges, e, sources, matches, decision', identity')
    <2>1. new[e] = Recomputed(e, sources, matches, decision', identity')
      BY <1>1
    <2> HIDE DEF new
    <2> QED
      BY <2>1, RecomputedStores
  <1> HIDE DEF new
  <1>4. /\ \A e \in Key \cap es : outcome'[e] = new[e].outcome /\ new[e].edges \in SUBSET supersedes'
        /\ supersedes \subseteq supersedes'
    BY <1>1, <1>2
  <1>5. (\A e \in Key \ es : outcome'[e] = outcome[e]) /\ outcome' = [e \in Key |-> outcome'[e]]
    BY <1>1, <1>2
  <1>6. \A x \in supersedes' \ supersedes : \E e \in es : x \in new[e].edges
    BY <1>1, <1>2
  <1> QED
    BY <1>3, <1>4, <1>5, <1>6 DEF Writes

\* Claims have values, and those of the sources are their drafts'.
ClaimsHaveValues(claims, V) ==
  /\ claims \subseteq Claim
  /\ \A c \in claims : V[c] \in Nat \X Nat
  /\ \A c \in claims \cap Key : Claims(c) /\ V[c] = DraftOf(c).value

LEMMA ActiveClaimsHaveValues ==
  ASSUME ExtractionsTyped, NEW sources, NEW events, NEW matches, Bound(sources, events, matches),
         NEW decisions \in Seq(DecisionRow), Len(decisions) <= MaxDecision,
         NEW identities, NEW e \in Key
  PROVE  ClaimsHaveValues(ActiveClaims(e, sources, decisions, identities), Values(decisions))
  <1> DEFINE claims == ActiveClaims(e, sources, decisions, identities)
             V == Values(decisions)
  <1>1. /\ DOMAIN V = {k \in DOMAIN extraction : DraftOf(k) # NoDraft}
                        \cup {LocalClaim(d) : d \in DOMAIN decisions}
        /\ \A c \in DOMAIN V : V[c] = ValueOf(c, decisions)
    BY DEF Values
  <1> HIDE DEF V
  <1>2. /\ DOMAIN decisions \subseteq 1..MaxDecision
        /\ \A d \in DOMAIN decisions : decisions[d].value \in Nat \X Nat
    <2>1. /\ Len(decisions) \in Nat /\ DOMAIN decisions = 1..Len(decisions)
          /\ \A d \in DOMAIN decisions : decisions[d] \in DecisionRow
      OBVIOUS
    <2>2. DOMAIN decisions \subseteq 1..MaxDecision
      BY <2>1, RowBounds
    <2> QED
      BY <2>1, <2>2 DEF DecisionRow
  <1>3. ASSUME NEW d \in DOMAIN decisions
        PROVE  /\ LocalClaim(d) \in Claim \ Key
               /\ V[LocalClaim(d)] = decisions[d].value
    <2>1. LocalClaim(d) \in Claim \ Key /\ LocalClaim(d) - MaxRecord = d
      BY <1>2, RowBounds DEF Claim, LocalClaim, Key
    <2> QED
      BY <1>1, <2>1 DEF ValueOf
  <1>4. ASSUME NEW k \in Key, sources[k].event = e, DraftOf(k).value # NoValue
        PROVE  Claims(k) /\ V[k] = DraftOf(k).value /\ DraftOf(k).value \in Nat \X Nat
    <2>1. sources[k] # NoSource
      BY <1>4, RowBounds DEF NoSource, Key
    <2>2. Claims(k)
      BY <1>4, <2>1 DEF Bound, Claims
    <2>3. DraftOf(k).value \in Nat \X Nat
      BY <2>2, Records
    <2>4. V[k] = DraftOf(k).value
      BY <1>1, <2>2 DEF Claims, Drawn, ValueOf
    <2> QED
      BY <2>2, <2>3, <2>4
  <1>5. ASSUME NEW c \in claims
        PROVE  \/ c \in Key /\ sources[c].event = e /\ DraftOf(c).value # NoValue
               \/ \E d \in DOMAIN decisions : c = LocalClaim(d)
    BY DEF ActiveClaims
  <1> HIDE DEF claims
  <1>6. Key \subseteq Claim
    BY DEF Claim
  <1>7. ClaimsHaveValues(claims, V)
    BY <1>2, <1>3, <1>4, <1>5, <1>6 DEF ClaimsHaveValues
  <1> QED
    BY <1>7 DEF claims, V

-----------------------------------------------------------------------------
(***************************************************************************)
(* Choosing a claim.                                                       *)
(***************************************************************************)
LEMMA ClaimBounds == Claim \subseteq Nat \ {0} /\ Key \subseteq Claim
  BY RowBounds DEF Claim, Key, LocalClaim

LEMMA ForemostLeads ==
  ASSUME NEW claims \in SUBSET Nat, claims # {}, NEW V
  PROVE  /\ Foremost(claims, V) \in claims
         /\ \A b \in claims : PrecisionRank(V[Foremost(claims, V)]) >= PrecisionRank(V[b])
  <1> DEFINE T == {c \in claims : \A b \in claims : PrecisionRank(V[c]) >= PrecisionRank(V[b])}
  <1>1. \A c \in claims : PrecisionRank(V[c]) \in {2, 3}
    BY DEF PrecisionRank
  <1>2. T # {}
    <2>1. CASE \E c \in claims : PrecisionRank(V[c]) = 3
      BY <1>1, <2>1
    <2>2. CASE \A c \in claims : PrecisionRank(V[c]) = 2
      BY <1>1, <2>2
    <2> QED
      BY <1>1, <2>1, <2>2
  <1>3. T \in SUBSET Nat
    OBVIOUS
  <1>4. Foremost(claims, V) = Min(T)
    BY DEF Foremost
  <1>5. T \subseteq claims /\ \A c \in T, b \in claims : PrecisionRank(V[c]) >= PrecisionRank(V[b])
    OBVIOUS
  <1> HIDE DEF T
  <1>6. \E m \in T : \A n \in T : m <= n
    BY <1>2, <1>3, LeastNatural
  <1>7. Min(T) \in T
    BY <1>6, Zenon DEF Min
  <1> QED
    BY <1>4, <1>5, <1>7

\* Among claims of sources there is a latest.
LEMMA LatestClaim ==
  ASSUME NEW C \in SUBSET Key, C # {}, \A c \in C : StampOf(c) \in Nat
  PROVE  \E c \in C : \A b \in C : StampOf(c) >= StampOf(b)
  <1> DEFINE Low(n) == {c \in C : c <= n}
             Latest(D) == \E c \in D : \A b \in D : StampOf(c) >= StampOf(b)
             T == {n \in Nat : Low(n) # {} /\ ~Latest(Low(n))}
  <1>1. C \subseteq Nat \ {0} /\ MaxRecord \in Nat /\ Low(MaxRecord) = C
    <2>1. MaxRecord \in Nat /\ \A c \in C : c \in 1..MaxRecord
      BY RowBounds DEF Key
    <2>2. \A c \in C : c \in Nat \ {0} /\ c <= MaxRecord
      BY <2>1
    <2> QED
      BY <2>1, <2>2
  <1>2. T = {}
    <2> SUFFICES ASSUME T # {} PROVE FALSE
      OBVIOUS
    <2>1. T \in SUBSET Nat
      OBVIOUS
    <2>2. \E n \in T : \A m \in T : n <= m
      <3> HIDE DEF T
      <3> QED
        BY <2>1, LeastNatural
    <2>3. PICK n \in T : \A m \in T : n <= m
      BY <2>2
    <2>4. n \in Nat \ {0} /\ n - 1 \in Nat /\ n - 1 \notin T
      <3>1. n \in Nat /\ \E c \in C : c <= n
        BY <2>3
      <3>2. n # 0
        BY <1>1, <3>1
      <3> HIDE DEF T
      <3>3. n - 1 \notin T
        BY <2>3, <3>1
      <3> QED
        BY <3>1, <3>2, <3>3
    <2>5. Low(n) = IF n \in C THEN Low(n - 1) \cup {n} ELSE Low(n - 1)
      <3>1. \A c \in C : c <= n <=> c <= n - 1 \/ c = n
        BY <1>1, <2>4
      <3>2. \A c \in C : c = n => ~(c <= n - 1)
        BY <1>1, <2>4
      <3> QED
        BY <3>1, <3>2, <2>4
    <2>6. CASE Low(n - 1) = {}
      <3>1. Low(n) # {} /\ ~\E c \in Low(n) : \A b \in Low(n) : StampOf(c) >= StampOf(b)
        BY <2>3
      <3>2. Low(n) = {n} /\ n \in C
        BY <2>5, <2>6, <3>1
      <3> HIDE DEF Low
      <3> QED
        BY <3>1, <3>2
    <2>7. CASE Low(n - 1) # {}
      <3>0. ~\E c \in Low(n) : \A b \in Low(n) : StampOf(c) >= StampOf(b)
        BY <2>3
      <3>1. Latest(Low(n - 1))
        BY <2>4, <2>7
      <3>2. PICK c \in Low(n - 1) : \A b \in Low(n - 1) : StampOf(c) >= StampOf(b)
        BY <3>1
      <3>3. CASE n \in C /\ StampOf(n) > StampOf(c)
        <4>1. \A b \in Low(n) : StampOf(n) >= StampOf(b)
          BY <2>5, <3>2, <3>3
        <4>2. n \in Low(n)
          BY <2>4, <3>3
        <4> HIDE DEF Low
        <4> QED
          BY <3>0, <4>1, <4>2
      <3>4. CASE ~(n \in C /\ StampOf(n) > StampOf(c))
        <4>1. \A b \in Low(n) : StampOf(c) >= StampOf(b)
          BY <2>5, <3>2, <3>4
        <4>2. c \in Low(n)
          BY <2>5, <3>2
        <4> HIDE DEF Low
        <4> QED
          BY <3>0, <4>1, <4>2
      <3> QED
        BY <3>3, <3>4
    <2> QED
      BY <2>6, <2>7
  <1> QED
    BY <1>1, <1>2

Leads(c, b, V) ==
  /\ StampOf(c) >= StampOf(b)
  /\ StampOf(c) = StampOf(b) => PrecisionRank(V[c]) >= PrecisionRank(V[b])

LEMMA NewestLeads ==
  ASSUME NEW claims \in SUBSET Key, claims # {}, NEW V, \A c \in claims : StampOf(c) \in Nat
  PROVE  /\ Newest(claims, V) \in claims
         /\ \A b \in claims : Leads(Newest(claims, V), b, V)
  <1> DEFINE T == {c \in claims : \A b \in claims : StampOf(c) >= StampOf(b)}
  <1>1. T # {}
    BY LatestClaim
  <1>2. Newest(claims, V) = Foremost(T, V)
    BY DEF Newest
  <1>3. T \in SUBSET Nat /\ T \subseteq claims
    BY ClaimBounds
  <1>4. \A c \in T, b \in claims : StampOf(c) >= StampOf(b) /\ (StampOf(c) = StampOf(b) => b \in T)
    OBVIOUS
  <1> HIDE DEF T
  <1>5. /\ Foremost(T, V) \in T
        /\ \A b \in T : PrecisionRank(V[Foremost(T, V)]) >= PrecisionRank(V[b])
    BY <1>1, <1>3, ForemostLeads
  <1> QED
    BY <1>2, <1>3, <1>4, <1>5 DEF Leads

\* Claims of one group that are equally precise agree.
LEMMA GroupsAgree ==
  ASSUME NEW claims, NEW V, \A c \in claims : V[c] \in Nat \X Nat,
         NEW g \in ClaimGroups(claims, V)
  PROVE  /\ g \subseteq claims
         /\ \A b, c \in g : PrecisionRank(V[b]) = PrecisionRank(V[c]) => TemporalAgrees(V[b], V[c])
  <1> DEFINE Exact(day) == {V[c] : c \in {c \in claims : V[c][1] = day /\ V[c][2] # 0}}
             Home(v) == IF v[2] = 0 /\ Cardinality(Exact(v[1])) = 1
                        THEN CHOOSE w \in Exact(v[1]) : TRUE
                        ELSE v
  <1>1. PICK a \in claims : g = {c \in claims : Home(V[c]) = Home(V[a])}
    BY Zenon DEF ClaimGroups
  <1>2. ASSUME NEW v \in Nat \X Nat PROVE Home(v)[1] = v[1] /\ (v[2] # 0 => Home(v) = v)
    <2>1. CASE v[2] = 0 /\ Cardinality(Exact(v[1])) = 1
      <3>1. Exact(v[1]) # {}
        <4> HIDE DEF Exact, Home
        <4>1. Cardinality({}) = 0
          BY FS_EmptySet
        <4> QED
          BY <2>1, <4>1
      <3>2. \A w \in Exact(v[1]) : w[1] = v[1]
        OBVIOUS
      <3>3. Home(v) = CHOOSE w \in Exact(v[1]) : TRUE
        BY <2>1
      <3> HIDE DEF Exact, Home
      <3>4. Home(v) \in Exact(v[1])
        BY <3>1, <3>3
      <3> QED
        BY <2>1, <3>2, <3>4
    <2>2. CASE ~(v[2] = 0 /\ Cardinality(Exact(v[1])) = 1)
      BY <2>2
    <2> QED
      BY <2>1, <2>2
  <1> HIDE DEF Exact, Home
  <1>3. g \subseteq claims
    BY <1>1
  <1>4. ASSUME NEW b \in g, NEW c \in g, PrecisionRank(V[b]) = PrecisionRank(V[c])
        PROVE  TemporalAgrees(V[b], V[c])
    <2>1. Home(V[b]) = Home(V[c]) /\ V[b] \in Nat \X Nat /\ V[c] \in Nat \X Nat
      BY <1>1
    <2>2. V[b][2] = 0 <=> V[c][2] = 0
      BY <1>4 DEF PrecisionRank
    <2>3. V[b][1] = V[c][1]
      BY <1>2, <2>1
    <2>4. CASE V[b][2] = 0
      BY <2>2, <2>3, <2>4 DEF TemporalAgrees
    <2>5. CASE V[b][2] # 0
      BY <1>2, <2>1, <2>2, <2>5 DEF TemporalAgrees
    <2> QED
      BY <2>4, <2>5
  <1> QED
    BY <1>3, <1>4

\* How far a claim leads: supersession only goes down.
Height(k) == IF ExplicitChange(k) THEN 2 * StampOf(k) + PrecisionRank(DraftOf(k).value) ELSE 0

LEMMA StampTyped ==
  ASSUME ExtractionsTyped, NEW k, Drawn(k)
  PROVE  StampOf(k) \in Nat /\ Height(k) \in Nat /\ k \in Key
  <1>1. k \in Key /\ extraction[k] \in ExtractionRow
    BY Records DEF Drawn, ExtractionsTyped
  <1>2. StampOf(k) \in Nat
    BY <1>1, InputTables DEF StampOf, InputOf, ExtractionRow
  <1> QED
    BY <1>1, <1>2 DEF Height, PrecisionRank

LEMMA SuccessorLeads ==
  ASSUME ExtractionsTyped, NEW claims, NEW V, ClaimsHaveValues(claims, V),
         NEW c \in Successors(claims, V)
  PROVE  /\ c \in claims /\ c \in Key
         /\ \A b \in (claims \cap Key) \ Accepted(c, claims, V) : Height(c) > Height(b)
  <1>1. PICK g \in ClaimGroups(claims, V) :
          LET explicit == {b \in g : ExplicitChange(b)}
              others == claims \ g
          IN /\ c = Newest(explicit, V)
             /\ explicit # {}
             /\ \A o \in others :
                  /\ StampOf(o) > 0
                  /\ StampOf(Newest(explicit, V)) > StampOf(o)
                  /\ PrecisionRank(V[Newest(explicit, V)]) >= PrecisionRank(V[o])
    BY Zenon DEF Successors
  <1> DEFINE explicit == {b \in g : ExplicitChange(b)}
  <1>2. /\ c = Newest(explicit, V) /\ explicit # {}
        /\ \A o \in claims \ g : StampOf(c) > StampOf(o) /\ PrecisionRank(V[c]) >= PrecisionRank(V[o])
    BY <1>1
  <1>3. \A b \in claims : V[b] \in Nat \X Nat
    BY DEF ClaimsHaveValues
  <1>4. /\ g \subseteq claims
        /\ \A b, d \in g : PrecisionRank(V[b]) = PrecisionRank(V[d]) => TemporalAgrees(V[b], V[d])
    BY <1>3, GroupsAgree
  <1>5. \A b \in claims \cap Key : StampOf(b) \in Nat /\ V[b] = DraftOf(b).value /\ Claims(b)
    BY StampTyped DEF ClaimsHaveValues, Claims
  <1>6. explicit \in SUBSET Key /\ \A b \in explicit : StampOf(b) \in Nat
    BY <1>4, <1>5 DEF ExplicitChange
  <1>7. \A b \in g : ExplicitChange(b) => b \in explicit
    OBVIOUS
  <1>8. explicit \subseteq g /\ \A b \in explicit : ExplicitChange(b)
    OBVIOUS
  <1> HIDE DEF explicit
  <1>9. c \in explicit /\ \A b \in explicit : Leads(c, b, V)
    BY <1>2, <1>6, NewestLeads
  <1>10. c \in claims \cap Key /\ ExplicitChange(c)
    BY <1>4, <1>6, <1>8, <1>9
  <1>11. Height(c) = 2 * StampOf(c) + PrecisionRank(V[c]) /\ StampOf(c) \in Nat
    BY <1>5, <1>10 DEF Height
  <1>12. \A v : PrecisionRank(v) \in {2, 3}
    BY DEF PrecisionRank
  <1>13. ASSUME NEW b \in claims \cap Key, b \notin Accepted(c, claims, V)
         PROVE  Height(c) > Height(b)
    <2>1. CASE ~ExplicitChange(b)
      <3>1. Height(b) = 0
        BY <2>1 DEF Height
      <3> HIDE DEF Height
      <3> QED
        BY <1>11, <1>12, <3>1
    <2>2. CASE ExplicitChange(b) /\ b \notin g
      <3>1. Height(b) = 2 * StampOf(b) + PrecisionRank(V[b]) /\ StampOf(b) \in Nat
        BY <1>5, <2>2 DEF Height
      <3>2. StampOf(c) > StampOf(b) /\ PrecisionRank(V[c]) >= PrecisionRank(V[b])
        BY <1>2, <2>2
      <3>3. PrecisionRank(V[c]) \in {2, 3} /\ PrecisionRank(V[b]) \in {2, 3}
        BY <1>12
      <3> HIDE DEF Height
      <3> QED
        BY <1>11, <3>1, <3>2, <3>3
    <2>3. CASE ExplicitChange(b) /\ b \in g
      <3>1. Height(b) = 2 * StampOf(b) + PrecisionRank(V[b]) /\ StampOf(b) \in Nat
        BY <1>5, <2>3 DEF Height
      <3>2. Leads(c, b, V)
        BY <1>7, <1>9, <2>3
      <3>3. PrecisionRank(V[c]) = PrecisionRank(V[b]) => b \in Accepted(c, claims, V)
        BY <1>4, <1>8, <1>9, <2>3 DEF Accepted
      <3>4. PrecisionRank(V[c]) \in {2, 3} /\ PrecisionRank(V[b]) \in {2, 3}
        BY <1>12
      <3>5. PrecisionRank(V[c]) # PrecisionRank(V[b])
        BY <1>13, <3>3
      <3> HIDE DEF Height
      <3> QED
        BY <1>11, <3>1, <3>2, <3>4, <3>5 DEF Leads
    <2> QED
      BY <2>1, <2>2, <2>3
  <1> QED
    BY <1>10, <1>13

\* What is chosen is a claim, and only a successor supersedes.
LEMMA ChoiceMade ==
  ASSUME ExtractionsTyped, NEW claims, NEW V, ClaimsHaveValues(claims, V), NEW e, NEW decisions,
         ManualChoice(e, decisions) \subseteq claims,
         NEW c, c = Choice(e, claims, decisions, V)
  PROVE  /\ c.claim \in claims \cup {0}
         /\ c.supersede \in BOOLEAN
         /\ c.supersede => c.claim \in Successors(claims, V) /\ ManualChoice(e, decisions) = {}
         /\ claims # {} /\ ManualChoice(e, decisions) # {} => c.claim \in ManualChoice(e, decisions)
  <1>1. /\ \A k : /\ Manual(k).claim = k /\ Agreed(k).claim = k /\ Change(k).claim = k
                  /\ ~Manual(k).supersede /\ ~Agreed(k).supersede /\ Change(k).supersede
                  /\ Manual(k).supersede \in BOOLEAN /\ Agreed(k).supersede \in BOOLEAN
                  /\ Change(k).supersede \in BOOLEAN
        /\ Undecided.claim = 0 /\ ~Undecided.supersede /\ Undecided.supersede \in BOOLEAN
    BY DEF Manual, Agreed, Change, Undecided
  <1>2. CASE claims = {}
    BY <1>1, <1>2 DEF Choice
  <1>3. CASE claims # {} /\ ManualChoice(e, decisions) # {}
    <2>1. c = Manual(CHOOSE k \in ManualChoice(e, decisions) : TRUE)
      BY <1>3 DEF Choice
    <2>2. (CHOOSE k \in ManualChoice(e, decisions) : TRUE) \in ManualChoice(e, decisions)
      BY <1>3
    <2> QED
      BY <1>1, <1>3, <2>1, <2>2
  <1>4. CASE claims # {} /\ ManualChoice(e, decisions) = {} /\ Cardinality(ClaimGroups(claims, V)) = 1
    <2>1. c = Agreed(Foremost(claims, V))
      BY <1>4 DEF Choice
    <2>2. Foremost(claims, V) \in claims
      BY <1>4, ForemostLeads, ClaimBounds DEF ClaimsHaveValues
    <2> QED
      BY <1>1, <1>4, <2>1, <2>2
  <1>5. CASE /\ claims # {} /\ ManualChoice(e, decisions) = {} /\ Cardinality(ClaimGroups(claims, V)) # 1
             /\ Cardinality(Successors(claims, V)) = 1
    <2>1. c = Change(CHOOSE k \in Successors(claims, V) : TRUE)
      BY <1>5 DEF Choice
    <2>2. Successors(claims, V) # {}
      BY <1>5, FS_EmptySet
    <2>3. (CHOOSE k \in Successors(claims, V) : TRUE) \in Successors(claims, V)
      BY <2>2
    <2>4. \A k \in Successors(claims, V) : k \in claims
      BY SuccessorLeads
    <2> QED
      BY <1>1, <1>5, <2>1, <2>3, <2>4
  <1>6. CASE /\ claims # {} /\ ManualChoice(e, decisions) = {} /\ Cardinality(ClaimGroups(claims, V)) # 1
             /\ Cardinality(Successors(claims, V)) # 1
    <2>1. c = Undecided
      BY <1>6 DEF Choice
    <2> QED
      BY <1>1, <1>6, <2>1
  <1> QED
    BY <1>2, <1>3, <1>4, <1>5, <1>6

-----------------------------------------------------------------------------
(***************************************************************************)
(* What an event shows.                                                    *)
(***************************************************************************)
OutcomeRow ==
  [selected : Claim \cup {0}, accepted : SUBSET Claim, open : SUBSET Claim, ambiguous : BOOLEAN]

\* A link leads from a claim to one of less height.
Descends(x) == x \in Key \X Key /\ Drawn(x[1]) /\ Drawn(x[2]) /\ Height(x[1]) > Height(x[2])

Honours(o, e, decisions) == \A d \in DOMAIN decisions :
  decisions[d].active /\ decisions[d].event = e => o.selected = decisions[d].claim /\ o.open = {}

Shows(o) == o \in OutcomeRow /\ (o.selected # 0 => o.selected \in o.accepted)

\* Sources and decisions that a recomputation may meet.
Decidable(sources, events, matches, decisions) ==
  /\ ExtractionsTyped
  /\ Bound(sources, events, matches)
  /\ decisions \in Seq(DecisionRow) /\ Len(decisions) <= MaxDecision
  /\ \A d \in DOMAIN decisions :
       /\ decisions[d].claim \in Key => /\ Claims(decisions[d].claim)
                                        /\ sources[decisions[d].claim].event = decisions[d].event
       /\ decisions[d].claim \notin Key => decisions[d].claim = LocalClaim(d)
  /\ \A c, d \in DOMAIN decisions :
       decisions[c].active /\ decisions[d].active /\ c # d => decisions[c].event # decisions[d].event

\* The decisions on e select claims of it; without one, all claims are sources'.
SelectsAmong(claims, e, decisions) ==
  /\ ManualChoice(e, decisions) \subseteq claims
  /\ ManualChoice(e, decisions) = {} => claims \subseteq Key
  /\ \A d \in DOMAIN decisions : decisions[d].active /\ decisions[d].event = e =>
       ManualChoice(e, decisions) = {decisions[d].claim}

LEMMA DecidedClaimsActive ==
  ASSUME NEW sources, NEW events, NEW matches, NEW decisions, NEW identities, NEW e,
         Decidable(sources, events, matches, decisions)
  PROVE  SelectsAmong(ActiveClaims(e, sources, decisions, identities), e, decisions)
  <1>1. ASSUME NEW d \in DOMAIN decisions, decisions[d].active, decisions[d].event = e
        PROVE  decisions[d].claim \in ActiveClaims(e, sources, decisions, identities)
    <2>1. CASE decisions[d].claim \in Key
      <3>1. /\ sources[decisions[d].claim].event = e
            /\ DraftOf(decisions[d].claim).value # NoValue
        BY <1>1, <2>1 DEF Decidable, Claims
      <3>2. ActiveSource(decisions[d].claim, decisions, identities)
        BY <1>1 DEF ActiveSource
      <3> QED
        BY <2>1, <3>1, <3>2 DEF ActiveClaims
    <2>2. CASE decisions[d].claim \notin Key
      <3>1. decisions[d].claim = LocalClaim(d)
        BY <2>2 DEF Decidable
      <3> QED
        BY <1>1, <3>1 DEF ActiveClaims
    <2> QED
      BY <2>1, <2>2
  <1>2. ManualChoice(e, decisions) \subseteq ActiveClaims(e, sources, decisions, identities)
    BY <1>1 DEF ManualChoice
  <1>3. ASSUME ManualChoice(e, decisions) = {}
        PROVE  ActiveClaims(e, sources, decisions, identities) \subseteq Key
    <2>1. \A d \in DOMAIN decisions : ~(decisions[d].active /\ decisions[d].event = e)
      BY <1>3 DEF ManualChoice
    <2> QED
      BY <2>1 DEF ActiveClaims
  <1>4. ASSUME NEW d \in DOMAIN decisions, decisions[d].active, decisions[d].event = e
        PROVE  ManualChoice(e, decisions) = {decisions[d].claim}
    <2>1. \A c \in DOMAIN decisions : decisions[c].active /\ decisions[c].event = e => c = d
      BY <1>4 DEF Decidable
    <2> QED
      BY <1>4, <2>1 DEF ManualChoice
  <1> QED
    BY <1>2, <1>3, <1>4 DEF SelectsAmong

LEMMA StoresWell ==
  ASSUME NEW sources, NEW events, NEW matches, NEW decisions, NEW identities, NEW e \in Key,
         Decidable(sources, events, matches, decisions),
         NEW o, NEW s, Stores(o, s, e, sources, matches, decisions, identities)
  PROVE  /\ Shows(o)
         /\ Honours(o, e, decisions)
         /\ \A x \in s : Descends(x)
  <1>0. SelectsAmong(ActiveClaims(e, sources, decisions, identities), e, decisions)
    BY DecidedClaimsActive
  <1> DEFINE claims == ActiveClaims(e, sources, decisions, identities)
             V == Values(decisions)
             choice == Choice(e, claims, decisions, V)
             accepted == IF choice.claim = 0 THEN {} ELSE Accepted(choice.claim, claims, V)
  <1>1. /\ o = [selected |-> choice.claim, accepted |-> accepted,
                open |-> IF choice.claim = 0 THEN claims ELSE {},
                ambiguous |-> Ambiguous(e, sources, matches, decisions, identities)]
        /\ s = IF choice.supersede THEN {<<choice.claim, b>> : b \in claims \ accepted} ELSE {}
    BY DEF Stores, Chosen, Agreeing
  <1>2. ClaimsHaveValues(claims, V)
    BY ActiveClaimsHaveValues DEF Decidable
  <1>3. /\ ManualChoice(e, decisions) \subseteq claims
        /\ ManualChoice(e, decisions) = {} => claims \subseteq Key
        /\ \A d \in DOMAIN decisions : decisions[d].active /\ decisions[d].event = e =>
             ManualChoice(e, decisions) = {decisions[d].claim}
    BY <1>0 DEF SelectsAmong
  <1>4. ExtractionsTyped
    BY DEF Decidable
  <1> HIDE DEF claims, V
  <1>5. /\ choice.claim \in claims \cup {0}
        /\ choice.supersede \in BOOLEAN
        /\ choice.supersede => choice.claim \in Successors(claims, V) /\ ManualChoice(e, decisions) = {}
        /\ claims # {} /\ ManualChoice(e, decisions) # {} => choice.claim \in ManualChoice(e, decisions)
    <2> DEFINE c == choice
    <2>1. c = Choice(e, claims, decisions, V)
      OBVIOUS
    <2> HIDE DEF c
    <2>2. /\ c.claim \in claims \cup {0}
          /\ c.supersede \in BOOLEAN
          /\ c.supersede => c.claim \in Successors(claims, V) /\ ManualChoice(e, decisions) = {}
          /\ claims # {} /\ ManualChoice(e, decisions) # {} => c.claim \in ManualChoice(e, decisions)
      BY <1>2, <1>3, <1>4, <2>1, ChoiceMade
    <2> QED
      BY <2>2 DEF c
  <1> HIDE DEF choice
  <1>6. claims \subseteq Claim /\ 0 \notin Claim
    BY <1>2, ClaimBounds DEF ClaimsHaveValues
  <1>7. accepted \subseteq claims /\ (choice.claim # 0 => choice.claim \in accepted)
    BY <1>5 DEF Accepted
  <1>8. Ambiguous(e, sources, matches, decisions, identities) \in BOOLEAN
    BY DEF Ambiguous
  <1> HIDE DEF accepted
  <1>9. /\ o.selected = choice.claim /\ o.accepted = accepted
        /\ o.open = (IF choice.claim = 0 THEN claims ELSE {})
    BY <1>1
  <1>10. Shows(o)
    <2>1. o \in OutcomeRow
      BY <1>1, <1>5, <1>6, <1>7, <1>8 DEF OutcomeRow
    <2> QED
      BY <1>7, <1>9, <2>1 DEF Shows
  <1>11. Honours(o, e, decisions)
    BY <1>3, <1>5, <1>6, <1>9, Zenon DEF Honours
  <1>12. ASSUME NEW x \in s PROVE Descends(x)
    <2>1. choice.supersede
      BY <1>1, <1>12
    <2>2. PICK b \in claims \ accepted : x = <<choice.claim, b>>
      BY <1>1, <1>12, <2>1
    <2>3. /\ choice.claim \in Successors(claims, V) /\ claims \subseteq Key
      BY <1>3, <1>5, <2>1
    <2>4. /\ choice.claim \in Key /\ choice.claim \in claims
          /\ \A k \in (claims \cap Key) \ Accepted(choice.claim, claims, V) : Height(choice.claim) > Height(k)
      BY <1>2, <1>4, <2>3, SuccessorLeads
    <2>5. choice.claim # 0
      BY <2>4, ClaimBounds
    <2>6. b \in Key /\ Height(choice.claim) > Height(b)
      BY <2>2, <2>3, <2>4, <2>5 DEF accepted
    <2>7. Drawn(b) /\ Drawn(choice.claim)
      BY <1>2, <2>2, <2>4, <2>6 DEF ClaimsHaveValues, Claims
    <2>8. x[1] = choice.claim /\ x[2] = b /\ x \in Key \X Key
      BY <2>2, <2>4, <2>6
    <2> QED
      BY <2>6, <2>7, <2>8 DEF Descends
  <1> QED
    BY <1>10, <1>11, <1>12

LEMMA DecidableNext ==
  ASSUME Typed, [Next]_vars, extraction' = extraction
  PROVE  Decidable(source', event', possible', decision')
  <1>1. PICK book : Moves(book)
    BY SourcesNext
  <1>2. Bound(source', event', possible')
    BY <1>1 DEF Moves, Sound
  <1>3. /\ decision' \in Seq(DecisionRow) /\ Len(decision') <= MaxDecision
        /\ \A d \in DOMAIN decision' : Fits(d, decision[d])'
        /\ OneEach'
    BY DecisionsTyped
  <1>4. ASSUME NEW d \in DOMAIN decision'
        PROVE  /\ decision'[d].claim \in Key => /\ Claims(decision'[d].claim)
                                                /\ source'[decision'[d].claim].event = decision'[d].event
               /\ decision'[d].claim \notin Key => decision'[d].claim = LocalClaim(d)
    BY <1>3 DEF Fits, Claims, Drawn, DraftOf
  <1>5. ExtractionsTyped
    BY DEF Typed
  <1> QED
    BY <1>2, <1>3, <1>4, <1>5 DEF Decidable, OneEach

Shown ==
  /\ outcome = [e \in Key |-> outcome[e]]
  /\ \A e \in Key : Shows(outcome[e])
  /\ \A e \in event : Honours(outcome[e], e, decision)
  /\ \A x \in supersedes : Descends(x)

LEMMA ShownInit == Init => Shown
  <1> SUFFICES ASSUME Init PROVE Shown
    OBVIOUS
  <1>1. NoOutcome \in OutcomeRow /\ NoOutcome.selected = 0
    BY DEF NoOutcome, OutcomeRow
  <1> QED
    BY <1>1 DEF Init, Shown, Shows

LEMMA ShownNext == Typed /\ Typed' /\ Shown /\ [Next]_vars => Shown'
  <1> SUFFICES ASSUME Typed, Typed', Shown, [Next]_vars PROVE Shown'
    OBVIOUS
  <1>1. ASSUME NEW x, Descends(x) PROVE Descends(x)'
    <2>1. \A k \in DOMAIN extraction : k \in DOMAIN extraction' /\ extraction'[k] = extraction[k]
      BY RecordsNext
    <2>2. ASSUME NEW k, Drawn(k) PROVE Drawn(k)' /\ Height(k)' = Height(k)
      BY <2>1, <2>2 DEF Drawn, DraftOf, Height, ExplicitChange, StampOf, InputOf
    <2>3. /\ x \in Key \X Key /\ Drawn(x[1]) /\ Drawn(x[2]) /\ Height(x[1]) > Height(x[2])
      BY <1>1 DEF Descends
    <2>4. /\ Drawn(x[1])' /\ Height(x[1])' = Height(x[1])
          /\ Drawn(x[2])' /\ Height(x[2])' = Height(x[2])
      BY <2>2, <2>3
    <2> QED
      BY <2>3, <2>4 DEF Descends
  <1>2. CASE Quiet
    BY <1>1, <1>2 DEF Shown, Quiet, Shows, Honours
  <1>3. CASE \E es, sources, matches, old, ids : Recomputes(es, sources, matches, old, ids)
    <2>1. PICK es, sources, matches, old, ids : Recomputes(es, sources, matches, old, ids)
      BY <1>3
    <2>2. /\ Recompute(es, sources, matches, old, ids) /\ extraction' = extraction
          /\ source' = sources /\ possible' = matches /\ es \subseteq event'
      BY <2>1 DEF Recomputes
    <2>3. Writes(es, sources, matches)
      BY <2>2, Written
    <2>4. Decidable(sources, event', matches, decision')
      BY <2>2, DecidableNext
    <2>5. event' \subseteq Key /\ es \subseteq Key
      BY <2>2 DEF Typed, Bound
    <2>6. ASSUME NEW e \in Key \cap es PROVE Shows(outcome'[e]) /\ Honours(outcome'[e], e, decision')
      <3>1. PICK s : Stores(outcome'[e], s, e, sources, matches, decision', identity')
        BY <2>3 DEF Writes
      <3> QED
        BY <2>4, <3>1, StoresWell
    <2>7. ASSUME NEW x \in supersedes' PROVE Descends(x)'
      <3>1. CASE x \in supersedes
        BY <1>1, <3>1 DEF Shown
      <3>2. CASE x \in supersedes' \ supersedes
        <4>1. PICK e, o, s : /\ e \in es /\ x \in s
                            /\ Stores(o, s, e, sources, matches, decision', identity')
          BY <2>3, <3>2 DEF Writes
        <4>2. Descends(x)
          BY <2>4, <2>5, <4>1, StoresWell
        <4> QED
          BY <1>1, <4>2
      <3> QED
        BY <3>1, <3>2
    <2>8. ASSUME NEW e \in event' \ es PROVE Honours(outcome'[e], e, decision')
      <3>1. Judges(es, sources, old)
        BY <2>1, Judged
      <3>2. outcome'[e] = outcome[e]
        BY <2>3, <2>5 DEF Writes
      <3>3. ASSUME NEW d \in DOMAIN decision', decision'[d].active, decision'[d].event = e
            PROVE  outcome[e].selected = decision'[d].claim /\ outcome[e].open = {}
        <4>1. d \in DOMAIN old /\ Same(decision'[d], old[d]) /\ old[d].active /\ old[d].event \notin es
          BY <2>8, <3>1, <3>3 DEF Judges, Same
        <4>2. d \in DOMAIN decision /\ decision[d].active /\ Same(old[d], decision[d])
          BY <3>1, <4>1 DEF Judges
        <4>3. decision[d].event = e /\ e \in event
          BY <3>3, <4>1, <4>2 DEF Same, Typed, Fits
        <4> QED
          BY <4>1, <4>2, <4>3 DEF Shown, Honours, Same
      <3> QED
        BY <3>2, <3>3 DEF Honours
    <2>9. \A e \in Key \ es : Shows(outcome'[e])
      BY <2>3 DEF Writes, Shown
    <2>10. outcome' = [e \in Key |-> outcome'[e]]
      BY <2>3 DEF Writes
    <2>11. \A e \in Key : Shows(outcome'[e])
      BY <2>6, <2>9
    <2>12. \A e \in event' : Honours(outcome'[e], e, decision')
      BY <2>5, <2>6, <2>8
    <2> QED
      BY <2>7, <2>10, <2>11, <2>12 DEF Shown, Shows, Honours
  <1> QED
    BY <1>2, <1>3, Steps

LEMMA ShownAlways == Spec => []Shown
  BY ShownInit, ShownNext, TypedAlways, PTL DEF Spec

\* The rows are rows the schema accepts: a source is matched exactly when it has
\* an event, an event has one active decision at most, and a shown claim is an
\* accepted one (`reconcile_course', `resolve_field', `resolve_event_source').
THEOREM EventsTypeOK == Spec => []TypeOK
  <1>1. Typed /\ Timely /\ Shown => TypeOK
    <2> SUFFICES ASSUME Typed, Timely, Shown PROVE TypeOK
      OBVIOUS
    <2>1. event \subseteq Key /\ 0 \notin Key
      BY RowBounds DEF Typed, Bound, Key
    <2>2. extraction \in Seq([input : Input, draft : Draft \cup {NoDraft}])
      BY DEF Typed, ExtractionsTyped, ExtractionRow
    <2>3. /\ source \in [Key -> [event : Key \cup {0},
                                  state : {"NONE", "UNRESOLVED", "RELATED_CHANGE", "MATCHED"},
                                  created : 0..clock]]
          /\ event \subseteq Key /\ possible \in [Key -> SUBSET event]
      <3>1. /\ source \in [Key -> SourceRow] /\ clock \in Nat
            /\ \A k \in Key : source[k].created \in 0..clock
        BY DEF Typed, Bound, Timely, SourceRow
      <3> QED
        BY <3>1 DEF Typed, Bound, SourceRow
    <2>9. clock \in Nat /\ reconciling \in 0..clock
      BY DEF Typed, Timely
    <2>4. \A k \in Key : /\ source[k].state = "MATCHED" <=> source[k].event \in event
                         /\ source[k].state = "MATCHED" => possible[k] = {}
      BY <2>1 DEF Typed, Bound
    <2>5. \A i \in DOMAIN identity : identity[i].active => source[identity[i].source].event = identity[i].event
      BY DEF Typed, IdentityTyped
    <2>6. outcome \in [Key -> [selected : Claim \cup {0}, accepted : SUBSET Claim,
                               open : SUBSET Claim, ambiguous : BOOLEAN]]
      <3>1. \A e \in Key : outcome[e] \in OutcomeRow
        BY DEF Shown, Shows
      <3>2. outcome = [e \in Key |-> outcome[e]]
        BY Zenon DEF Shown
      <3> QED
        BY <3>1, <3>2 DEF OutcomeRow
    <2>7. supersedes \subseteq Key \X Key
      BY DEF Shown, Descends
    <2>8. \A e \in event : outcome[e].selected # 0 => outcome[e].selected \in outcome[e].accepted
      BY <2>1 DEF Shown, Shows
    <2> QED
      BY <2>2, <2>3, <2>4, <2>5, <2>6, <2>7, <2>8, <2>9 DEF TypeOK, Typed, OneEach
  <1> QED
    BY <1>1, TypedAlways, TimelyAlways, ShownAlways, PTL

\* While a decision on a field is active its event shows the claim it selects and
\* no open conflict, whatever is extracted, bound or decided in the meantime
\* (`_recompute_event').
THEOREM ManualAlwaysHonoured == Spec => []ManualHonoured
  <1>1. Typed /\ Shown => ManualHonoured
    BY DEF Typed, Shown, Fits, Honours, ManualHonoured
  <1> QED
    BY <1>1, TypedAlways, ShownAlways, PTL

\* Supersession never closes a cycle, over any number of recomputations: each
\* link leads from a later or more precise change to what it replaces
\* (`_explicit_successor', `_select_claim_group').
THEOREM SupersessionNeverCycles == Spec => []SupersedesAcyclic
  <1>1. Typed /\ Shown => SupersedesAcyclic
    <2> SUFFICES ASSUME Typed, Shown, NEW S \in (SUBSET Key) \ {{}}
                 PROVE  \E k \in S : \A b \in S : <<k, b>> \notin supersedes
      BY DEF SupersedesAcyclic
    <2>1. CASE \E k \in S : ~Drawn(k)
      <3>1. PICK k \in S : ~Drawn(k)
        BY <2>1
      <3>2. \A b : <<k, b>> \notin supersedes
        BY <3>1 DEF Shown, Descends
      <3> QED
        BY <3>2
    <2>2. CASE \A k \in S : Drawn(k)
      <3> DEFINE T == {Height(k) : k \in S}
      <3>1. T \in SUBSET Nat /\ T # {}
        BY <2>2, StampTyped DEF Typed
      <3>2. \E m \in T : \A n \in T : m <= n
        <4> HIDE DEF T
        <4> QED
          BY <3>1, LeastNatural
      <3>3. PICK k \in S : \A b \in S : Height(k) <= Height(b)
        BY <3>2
      <3>4. ASSUME NEW b \in S, <<k, b>> \in supersedes PROVE FALSE
        <4>1. Height(k) > Height(b)
          BY <3>4 DEF Shown, Descends
        <4>2. Height(k) \in Nat /\ Height(b) \in Nat
          BY <2>2, StampTyped DEF Typed
        <4> HIDE DEF T
        <4> QED
          BY <3>3, <4>1, <4>2
      <3> QED
        BY <3>4
    <2> QED
      BY <2>1, <2>2
  <1> QED
    BY <1>1, TypedAlways, ShownAlways, PTL

-----------------------------------------------------------------------------
(***************************************************************************)
(* Locality.  An event depends on the values of its own claims, on the     *)
(* decisions on it and on the sources that resemble it.                    *)
(***************************************************************************)
Alike(claims, V, W) == \A c \in claims : V[c] = W[c]

LEMMA ForemostAlike ==
  ASSUME NEW claims, NEW V, NEW W, Alike(claims, V, W), NEW C \in SUBSET claims
  PROVE  Foremost(C, V) = Foremost(C, W) /\ Newest(C, V) = Newest(C, W)
  <1>1. ASSUME NEW D \in SUBSET claims PROVE Foremost(D, V) = Foremost(D, W)
    <2>1. {c \in D : \A b \in D : PrecisionRank(V[c]) >= PrecisionRank(V[b])}
            = {c \in D : \A b \in D : PrecisionRank(W[c]) >= PrecisionRank(W[b])}
      BY DEF Alike
    <2> QED
      BY <2>1 DEF Foremost
  <1> DEFINE T == {c \in C : \A b \in C : StampOf(c) >= StampOf(b)}
  <1>2. T \in SUBSET claims /\ Newest(C, V) = Foremost(T, V) /\ Newest(C, W) = Foremost(T, W)
    BY DEF Newest
  <1> HIDE DEF T
  <1> QED
    BY <1>1, <1>2

LEMMA GroupsAlike ==
  ASSUME NEW claims, NEW V, NEW W, Alike(claims, V, W)
  PROVE  ClaimGroups(claims, V) = ClaimGroups(claims, W)
  <1> DEFINE Exact(U, day) == {U[c] : c \in {c \in claims : U[c][1] = day /\ U[c][2] # 0}}
             Pick(X, v) == IF v[2] = 0 /\ Cardinality(X) = 1 THEN CHOOSE w \in X : TRUE ELSE v
             Home(U, v) == Pick(Exact(U, v[1]), v)
             Group(U, b) == {c \in claims : Home(U, U[c]) = Home(U, U[b])}
  <1>1. /\ ClaimGroups(claims, V) = {Group(V, b) : b \in claims}
        /\ ClaimGroups(claims, W) = {Group(W, b) : b \in claims}
    BY Zenon DEF ClaimGroups
  <1>2. ASSUME NEW day PROVE Exact(V, day) = Exact(W, day)
    BY DEF Alike
  <1> HIDE DEF Exact, Pick
  <1>3. ASSUME NEW v PROVE Home(V, v) = Home(W, v)
    BY <1>2
  <1> HIDE DEF Home
  <1>4. ASSUME NEW c \in claims PROVE Home(V, V[c]) = Home(W, W[c])
    BY <1>3 DEF Alike
  <1>5. ASSUME NEW b \in claims PROVE Group(V, b) = Group(W, b)
    BY <1>4
  <1> HIDE DEF Group
  <1> QED
    BY <1>1, <1>5

LEMMA SuccessorsAlike ==
  ASSUME ExtractionsTyped, NEW claims, NEW V, NEW W, Alike(claims, V, W), ClaimsHaveValues(claims, V)
  PROVE  Successors(claims, V) = Successors(claims, W)
  <1> DEFINE Explicit(g) == {c \in g : ExplicitChange(c)}
             Wins(U, g) == /\ Explicit(g) # {}
                           /\ claims \ g # {}
                           /\ \A o \in claims \ g :
                                /\ StampOf(o) > 0
                                /\ StampOf(Newest(Explicit(g), U)) > StampOf(o)
                                /\ PrecisionRank(U[Newest(Explicit(g), U)]) >= PrecisionRank(U[o])
             G == ClaimGroups(claims, V)
  <1>1. /\ Successors(claims, V) = {Newest(Explicit(g), V) : g \in {g \in ClaimGroups(claims, V) : Wins(V, g)}}
        /\ Successors(claims, W) = {Newest(Explicit(g), W) : g \in {g \in ClaimGroups(claims, W) : Wins(W, g)}}
    BY Zenon DEF Successors
  <1>2. ClaimGroups(claims, W) = G
    BY GroupsAlike
  <1>3. ASSUME NEW g \in G PROVE g \subseteq claims
    BY GroupsAgree DEF ClaimsHaveValues
  <1>4. ASSUME NEW g \in G PROVE Newest(Explicit(g), V) = Newest(Explicit(g), W)
    BY <1>3, ForemostAlike
  <1>5. ASSUME NEW g \in G PROVE Wins(V, g) <=> Wins(W, g)
    <2>1. CASE Explicit(g) # {}
      <3> DEFINE n == Newest(Explicit(g), V)
      <3>1. \A o \in claims : V[o] = W[o]
        BY DEF Alike
      <3>2. n = Newest(Explicit(g), W)
        BY <1>4
      <3>3. V[n] = W[n]
        <4>1. Explicit(g) \in SUBSET Key /\ \A c \in Explicit(g) : StampOf(c) \in Nat
          BY <1>3, StampTyped DEF ClaimsHaveValues, Claims, ExplicitChange
        <4>2. Explicit(g) \subseteq claims
          BY <1>3
        <4> HIDE DEF Explicit
        <4>3. n \in Explicit(g)
          BY <2>1, <4>1, NewestLeads
        <4> QED
          BY <3>1, <4>2, <4>3
      <3> HIDE DEF Explicit, n
      <3> QED
        BY <3>1, <3>2, <3>3 DEF n
    <2>2. CASE Explicit(g) = {}
      BY <2>2
    <2> QED
      BY <2>1, <2>2
  <1> HIDE DEF Wins, Explicit, G
  <1>6. {g \in G : Wins(V, g)} = {g \in G : Wins(W, g)}
    BY <1>5
  <1> QED
    BY <1>1, <1>2, <1>4, <1>6 DEF G

LEMMA ChoiceAlike ==
  ASSUME ExtractionsTyped, NEW claims, NEW V, NEW W, Alike(claims, V, W), ClaimsHaveValues(claims, V),
         NEW e, NEW D, NEW D2, ManualChoice(e, D) = ManualChoice(e, D2)
  PROVE  Choice(e, claims, D, V) = Choice(e, claims, D2, W)
  <1>1. /\ ClaimGroups(claims, V) = ClaimGroups(claims, W)
        /\ Successors(claims, V) = Successors(claims, W)
        /\ Foremost(claims, V) = Foremost(claims, W)
    BY GroupsAlike, SuccessorsAlike, ForemostAlike
  <1>2. /\ (CHOOSE c \in ManualChoice(e, D) : TRUE) = (CHOOSE c \in ManualChoice(e, D2) : TRUE)
        /\ (CHOOSE c \in Successors(claims, V) : TRUE) = (CHOOSE c \in Successors(claims, W) : TRUE)
    BY <1>1, Zenon
  <1> QED
    BY <1>1, <1>2 DEF Choice

LEMMA AcceptedAlike ==
  ASSUME NEW claims, NEW V, NEW W, Alike(claims, V, W), NEW c \in claims
  PROVE  Accepted(c, claims, V) = Accepted(c, claims, W)
  BY DEF Alike, Accepted

\* Identities are of sources bound to their event.
IdentitiesFit(sources, identities) ==
  /\ identities \in Seq(IdentityRow)
  /\ \A i \in DOMAIN identities : sources[identities[i].source].event = identities[i].event

\* A source that no current extraction has is active by a row on its own event.
LEMMA ActiveByItsEvent ==
  ASSUME NEW S, NEW E, NEW M, NEW D, NEW I, Decidable(S, E, M, D), IdentitiesFit(S, I), NEW k \in Key
  PROVE  ActiveSource(k, D, I) <=>
           \/ Effective(k)
           \/ \E i \in DOMAIN I : I[i].active /\ I[i].source = k /\ I[i].event = S[k].event
           \/ \E d \in DOMAIN D : D[d].active /\ D[d].claim = k /\ D[d].event = S[k].event
  <1>1. \A i \in DOMAIN I : I[i].source = k => I[i].event = S[k].event
    BY Zenon DEF IdentitiesFit
  <1>2. \A d \in DOMAIN D : D[d].claim = k => D[d].event = S[k].event
    BY Zenon DEF Decidable
  <1> QED
    BY <1>1, <1>2, Zenon DEF ActiveSource

\* The rows on e are the same, and no new row is on e.
RowsStay(e, D, D2) ==
  /\ DOMAIN D \subseteq DOMAIN D2
  /\ \A d \in DOMAIN D : /\ Same(D2[d], D[d])
                         /\ D[d].event = e => (D2[d].active <=> D[d].active)
  /\ \A d \in DOMAIN D2 \ DOMAIN D : D2[d].event # e

IdentitiesStay(e, I, I2) ==
  /\ DOMAIN I \subseteq DOMAIN I2
  /\ \A i \in DOMAIN I : /\ I2[i].source = I[i].source /\ I2[i].event = I[i].event
                         /\ I[i].event = e => (I2[i].active <=> I[i].active)
  /\ \A i \in DOMAIN I2 \ DOMAIN I : I2[i].event # e

\* The current sources that resemble e.
Resembling(e, S, M) == {k \in Key : Effective(k) /\ S[k].state # "MATCHED" /\ e \in M[k]}

Unaffected(e, S, M, D, I, S2, M2, D2, I2) ==
  /\ \A k \in Key : S[k].event = e <=> S2[k].event = e
  /\ Resembling(e, S, M) = Resembling(e, S2, M2)
  /\ RowsStay(e, D, D2)
  /\ IdentitiesStay(e, I, I2)

LEMMA AmbiguousByResembling ==
  ASSUME NEW S, NEW E, NEW M, NEW D, NEW I, NEW e, Decidable(S, E, M, D), IdentitiesFit(S, I)
  PROVE  Ambiguous(e, S, M, D, I) <=> Resembling(e, S, M) # {}
  <1>1. ASSUME NEW k \in Key, S[k].state # "MATCHED"
        PROVE  ActiveSource(k, D, I) <=> Effective(k)
    <2>1. S[k].event = 0 /\ 0 \notin Key
      BY <1>1, RowBounds DEF Decidable, Bound, Key
    <2>2. \A i \in DOMAIN I : I[i].event # 0
      <3>1. \A i \in DOMAIN I : I[i] \in IdentityRow
        BY DEF IdentitiesFit
      <3> QED
        BY <2>1, <3>1 DEF IdentityRow
    <2>3. \A d \in DOMAIN D : D[d].event # 0
      <3>1. \A d \in DOMAIN D : D[d] \in DecisionRow
        BY DEF Decidable
      <3> QED
        BY <2>1, <3>1 DEF DecisionRow
    <2> QED
      BY <2>1, <2>2, <2>3, ActiveByItsEvent
  <1> QED
    BY <1>1 DEF Ambiguous, Resembling

LEMMA LocalValues ==
  ASSUME NEW D \in Seq(DecisionRow), NEW d \in DOMAIN D
  PROVE  Values(D)[LocalClaim(d)] = D[d].value
  <1>1. d \in Nat \ {0} /\ MaxRecord \in Nat
    BY RowBounds
  <1>2. LocalClaim(d) \notin Key /\ LocalClaim(d) - MaxRecord = d
    BY <1>1 DEF LocalClaim, Key
  <1>3. Values(D)[LocalClaim(d)] = ValueOf(LocalClaim(d), D)
    BY DEF Values
  <1> QED
    BY <1>2, <1>3 DEF ValueOf

LEMMA ClaimsStay ==
  ASSUME NEW S, NEW E, NEW M, NEW D, NEW I, NEW S2, NEW E2, NEW M2, NEW D2, NEW I2, NEW e \in Key,
         Decidable(S, E, M, D), IdentitiesFit(S, I), Decidable(S2, E2, M2, D2), IdentitiesFit(S2, I2),
         Unaffected(e, S, M, D, I, S2, M2, D2, I2)
  PROVE  /\ ActiveClaims(e, S, D, I) = ActiveClaims(e, S2, D2, I2)
         /\ ManualChoice(e, D) = ManualChoice(e, D2)
         /\ Alike(ActiveClaims(e, S, D, I), Values(D), Values(D2))
  <1>1. /\ \A k \in Key : S[k].event = e <=> S2[k].event = e
        /\ DOMAIN D \subseteq DOMAIN D2
        /\ \A d \in DOMAIN D : /\ Same(D2[d], D[d])
                               /\ D[d].event = e => (D2[d].active <=> D[d].active)
        /\ \A d \in DOMAIN D2 \ DOMAIN D : D2[d].event # e
        /\ DOMAIN I \subseteq DOMAIN I2
        /\ \A i \in DOMAIN I : /\ I2[i].source = I[i].source /\ I2[i].event = I[i].event
                               /\ I[i].event = e => (I2[i].active <=> I[i].active)
        /\ \A i \in DOMAIN I2 \ DOMAIN I : I2[i].event # e
    BY Zenon DEF Unaffected, RowsStay, IdentitiesStay
  <1> DEFINE On(X) == {d \in DOMAIN X : X[d].active /\ X[d].event = e}
  <1>2. On(D) = On(D2) /\ \A d \in On(D) : D2[d].claim = D[d].claim /\ D2[d].value = D[d].value
    BY <1>1 DEF Same
  <1>3. On(I) = On(I2) /\ \A i \in On(I) : I2[i].source = I[i].source
    BY <1>1
  <1>4. ASSUME NEW k \in Key, S[k].event = e
        PROVE  ActiveSource(k, D, I) <=> ActiveSource(k, D2, I2)
    <2>1. S2[k].event = e
      BY <1>1, <1>4
    <2>2. ActiveSource(k, D, I) <=>
            \/ Effective(k)
            \/ \E i \in DOMAIN I : I[i].active /\ I[i].source = k /\ I[i].event = S[k].event
            \/ \E d \in DOMAIN D : D[d].active /\ D[d].claim = k /\ D[d].event = S[k].event
      BY ActiveByItsEvent
    <2>3. ActiveSource(k, D2, I2) <=>
            \/ Effective(k)
            \/ \E i \in DOMAIN I2 : I2[i].active /\ I2[i].source = k /\ I2[i].event = S2[k].event
            \/ \E d \in DOMAIN D2 : D2[d].active /\ D2[d].claim = k /\ D2[d].event = S2[k].event
      BY ActiveByItsEvent
    <2>4. ActiveSource(k, D, I) <=> Effective(k) \/ (\E i \in On(I) : I[i].source = k) \/ (\E d \in On(D) : D[d].claim = k)
      BY <1>4, <2>2
    <2>5. ActiveSource(k, D2, I2) <=> Effective(k) \/ (\E i \in On(I2) : I2[i].source = k) \/ (\E d \in On(D2) : D2[d].claim = k)
      BY <2>1, <2>3
    <2> HIDE DEF On
    <2> QED
      BY <1>2, <1>3, <2>4, <2>5
  <1>5. /\ ManualChoice(e, D) = {D[d].claim : d \in On(D)}
        /\ ManualChoice(e, D2) = {D2[d].claim : d \in On(D2)}
    BY DEF ManualChoice
  <1> DEFINE Sources(X, Y, Z) == {k \in Key : X[k].event = e /\ ActiveSource(k, Y, Z) /\ DraftOf(k).value # NoValue}
             Locals(X) == {LocalClaim(d) : d \in {d \in On(X) : X[d].claim = LocalClaim(d)}}
  <1>6. /\ ActiveClaims(e, S, D, I) = Sources(S, D, I) \cup Locals(D)
        /\ ActiveClaims(e, S2, D2, I2) = Sources(S2, D2, I2) \cup Locals(D2)
    BY DEF ActiveClaims
  <1>7. Sources(S, D, I) = Sources(S2, D2, I2)
    BY <1>1, <1>4
  <1>8. Locals(D) = Locals(D2)
    <2> HIDE DEF On
    <2> QED
      BY <1>2
  <1>9. ActiveClaims(e, S, D, I) = ActiveClaims(e, S2, D2, I2)
    BY <1>6, <1>7, <1>8
  <1>10. D \in Seq(DecisionRow) /\ D2 \in Seq(DecisionRow)
    BY DEF Decidable
  <1>11. ASSUME NEW c \in ActiveClaims(e, S, D, I) PROVE Values(D)[c] = Values(D2)[c]
    <2>1. CASE c \in Key
      <3>1. /\ ClaimsHaveValues(ActiveClaims(e, S, D, I), Values(D))
            /\ ClaimsHaveValues(ActiveClaims(e, S2, D2, I2), Values(D2))
        BY ActiveClaimsHaveValues DEF Decidable
      <3> QED
        BY <1>9, <2>1, <3>1 DEF ClaimsHaveValues
    <2>2. CASE c \notin Key
      <3>1. PICK d \in On(D) : c = LocalClaim(d)
        BY <1>6, <2>2
      <3>2. d \in DOMAIN D /\ d \in DOMAIN D2 /\ D2[d].value = D[d].value
        BY <1>1, <1>2, <3>1
      <3> QED
        BY <1>10, <3>1, <3>2, LocalValues
    <2> QED
      BY <2>1, <2>2
  <1> HIDE DEF On
  <1> QED
    BY <1>2, <1>5, <1>9, <1>11 DEF Alike

LEMMA Local ==
  ASSUME NEW S, NEW E, NEW M, NEW D, NEW I, NEW S2, NEW E2, NEW M2, NEW D2, NEW I2, NEW e \in Key,
         Decidable(S, E, M, D), IdentitiesFit(S, I), Decidable(S2, E2, M2, D2), IdentitiesFit(S2, I2),
         Unaffected(e, S, M, D, I, S2, M2, D2, I2),
         NEW o, NEW s, Stores(o, s, e, S, M, D, I)
  PROVE  Stores(o, s, e, S2, M2, D2, I2)
  <1> DEFINE claims == ActiveClaims(e, S, D, I)
             choice == Chosen(e, S, D, I)
  <1>1. /\ claims = ActiveClaims(e, S2, D2, I2)
        /\ ManualChoice(e, D) = ManualChoice(e, D2)
        /\ Alike(claims, Values(D), Values(D2))
    BY ClaimsStay
  <1>2. ClaimsHaveValues(claims, Values(D)) /\ ExtractionsTyped
    BY ActiveClaimsHaveValues DEF Decidable
  <1>3. ManualChoice(e, D) \subseteq claims
    <2>1. SelectsAmong(ActiveClaims(e, S, D, I), e, D)
      BY DecidedClaimsActive
    <2> QED
      BY <2>1 DEF SelectsAmong
  <1>4. choice = Choice(e, claims, D, Values(D))
    BY DEF Chosen
  <1>5. Chosen(e, S2, D2, I2) = Choice(e, ActiveClaims(e, S2, D2, I2), D2, Values(D2))
    BY DEF Chosen
  <1> HIDE DEF choice, claims
  <1>6. choice = Chosen(e, S2, D2, I2)
    <2>1. Choice(e, claims, D, Values(D)) = Choice(e, claims, D2, Values(D2))
      BY <1>1, <1>2, ChoiceAlike
    <2> QED
      BY <1>1, <1>4, <1>5, <2>1
  <1>7. choice.claim \in claims \cup {0}
    BY <1>2, <1>3, <1>4, ChoiceMade
  <1>8. choice.claim # 0 => Agreeing(choice.claim, e, S, D, I) = Agreeing(choice.claim, e, S2, D2, I2)
    <2>1. ASSUME choice.claim \in claims
          PROVE  Accepted(choice.claim, claims, Values(D)) = Accepted(choice.claim, claims, Values(D2))
      BY <1>1, <2>1, AcceptedAlike
    <2> QED
      BY <1>1, <1>7, <2>1 DEF Agreeing, claims
  <1>9. Ambiguous(e, S, M, D, I) = Ambiguous(e, S2, M2, D2, I2)
    <2>1. Ambiguous(e, S, M, D, I) <=> Resembling(e, S, M) # {}
      BY AmbiguousByResembling
    <2>2. Ambiguous(e, S2, M2, D2, I2) <=> Resembling(e, S2, M2) # {}
      BY AmbiguousByResembling
    <2>3. Ambiguous(e, S, M, D, I) \in BOOLEAN /\ Ambiguous(e, S2, M2, D2, I2) \in BOOLEAN
      BY DEF Ambiguous
    <2> QED
      BY <2>1, <2>2, <2>3 DEF Unaffected
  <1>10. /\ claims = ActiveClaims(e, S, D, I)
         /\ choice = Chosen(e, S, D, I)
    BY DEF claims, choice
  <1>11. ActiveClaims(e, S, D, I) = ActiveClaims(e, S2, D2, I2) /\ Chosen(e, S, D, I) = Chosen(e, S2, D2, I2)
    BY <1>1, <1>6, <1>10
  <1>12. Chosen(e, S, D, I).claim # 0 =>
           Agreeing(Chosen(e, S, D, I).claim, e, S, D, I) = Agreeing(Chosen(e, S2, D2, I2).claim, e, S2, D2, I2)
    BY <1>6, <1>8, <1>10
  <1> QED
    BY <1>9, <1>11, <1>12 DEF Stores

-----------------------------------------------------------------------------
(***************************************************************************)
(* Reuse.  While the extractions are those of a recorded run, every event  *)
(* is as a recomputation would leave it, or an identity has been decided   *)
(* since that no recorded run knows.                                       *)
(***************************************************************************)
LEMMA Steady ==
  ASSUME extraction' = extraction
  PROVE  /\ \A k : (Effective(k)' <=> Effective(k)) /\ DraftOf(k)' = DraftOf(k)
         /\ \A row : Retired(row)' <=> Retired(row)
         /\ \A row, S : Displaced(row, S)' <=> Displaced(row, S)
         /\ \A o, s, e, S, M, D, I : Stores(o, s, e, S, M, D, I)' <=> Stores(o, s, e, S, M, D, I)
  <1>1. /\ \A k : Effective(k)' <=> Effective(k)
        /\ \A k : DraftOf(k)' = DraftOf(k) /\ InputOf(k)' = InputOf(k)
    BY DEF Effective, DraftOf, InputOf
  <1>2. /\ \A k : StampOf(k)' = StampOf(k)
        /\ \A k : ExplicitChange(k)' <=> ExplicitChange(k)
    BY <1>1 DEF StampOf, ExplicitChange
  <1>3. Candidates' = Candidates
    BY <1>1 DEF Candidates
  <1>4. \A row : Retired(row)' <=> Retired(row)
    BY <1>1 DEF Retired
  <1>5. \A row, S : Displaced(row, S)' <=> Displaced(row, S)
    BY <1>1, <1>3 DEF Displaced
  <1>6. \A k, D, I : ActiveSource(k, D, I)' <=> ActiveSource(k, D, I)
    BY <1>1 DEF ActiveSource
  <1>7. \A e, S, D, I : ActiveClaims(e, S, D, I)' = ActiveClaims(e, S, D, I)
    BY <1>1, <1>6 DEF ActiveClaims
  <1>8. \A e, S, M, D, I : Ambiguous(e, S, M, D, I)' = Ambiguous(e, S, M, D, I)
    BY <1>6 DEF Ambiguous
  <1>9. \A D : Values(D)' = Values(D)
    BY <1>1 DEF Values, ValueOf
  <1>10. \A C, V : Newest(C, V)' = Newest(C, V)
    <2> SUFFICES ASSUME NEW C, NEW V PROVE Newest(C, V)' = Newest(C, V)
      OBVIOUS
    <2>1. {c \in C : \A b \in C : StampOf(c)' >= StampOf(b)'} = {c \in C : \A b \in C : StampOf(c) >= StampOf(b)}
      BY <1>2
    <2> QED
      BY <2>1 DEF Newest
  <1>11. \A C, V : Successors(C, V)' = Successors(C, V)
    <2> SUFFICES ASSUME NEW C, NEW V PROVE Successors(C, V)' = Successors(C, V)
      OBVIOUS
    <2>1. \A g : {c \in g : ExplicitChange(c)'} = {c \in g : ExplicitChange(c)}
      BY <1>2
    <2> QED
      BY <1>2, <1>10, <2>1 DEF Successors
  <1>12. \A e, C, D, V : Choice(e, C, D, V)' = Choice(e, C, D, V)
    <2> SUFFICES ASSUME NEW e, NEW C, NEW D, NEW V PROVE Choice(e, C, D, V)' = Choice(e, C, D, V)
      OBVIOUS
    <2>1. Successors(C, V)' = Successors(C, V)
      BY <1>11
    <2>2. (CHOOSE c \in Successors(C, V)' : TRUE) = (CHOOSE c \in Successors(C, V) : TRUE)
      BY <2>1, Zenon
    <2>3. Foremost(C, V)' = Foremost(C, V) /\ ClaimGroups(C, V)' = ClaimGroups(C, V)
      BY Zenon DEF Foremost, ClaimGroups
    <2>4. ManualChoice(e, D)' = ManualChoice(e, D)
      BY Zenon DEF ManualChoice
    <2> QED
      BY <2>1, <2>2, <2>3, <2>4 DEF Choice, Undecided, Manual, Agreed, Change
  <1>13. /\ \A e, S, D, I : Chosen(e, S, D, I)' = Chosen(e, S, D, I)
         /\ \A c, e, S, D, I : Agreeing(c, e, S, D, I)' = Agreeing(c, e, S, D, I)
    BY <1>7, <1>9, <1>12 DEF Chosen, Agreeing
  <1>14. \A o, s, e, S, M, D, I : Stores(o, s, e, S, M, D, I)' <=> Stores(o, s, e, S, M, D, I)
    BY <1>7, <1>8, <1>13 DEF Stores
  <1> QED
    BY <1>1, <1>4, <1>5, <1>14

EffectiveNow == {k \in DOMAIN extraction : Effective(k)}

\* The events E are as a recomputation would leave them: nothing lapses, and what
\* it stores is stored.
Fresh(E, S, M, D, I, O, X) ==
  /\ \A e \in E : \E s \in SUBSET X : Stores(O[e], s, e, S, M, D, I)
  /\ \A d \in DOMAIN D : D[d].active => ~Retired(D[d]) /\ ~Displaced(D[d], S)
  /\ \A i \in DOMAIN I : I[i].active => Effective(I[i].source)

AllFresh == Fresh(event, source, possible, decision, identity, outcome, supersedes)

\* An identity of a current source, decided since the recorded runs.
NewlyIdentified == \E i \in DOMAIN identity :
  /\ identity[i].active /\ Effective(identity[i].source)
  /\ \A h \in run : i \notin h.identities

RunsKnown == \A h \in run :
  h.extractions \subseteq DOMAIN extraction /\ h.identities \subseteq DOMAIN identity

Recorded == \E h \in run : h.extractions = EffectiveNow

ReuseInv == RunsKnown /\ (Recorded => AllFresh \/ NewlyIdentified)

LEMMA DecidableNow ==
  ASSUME Typed
  PROVE  Decidable(source, event, possible, decision) /\ IdentitiesFit(source, identity)
  <1>1. Decidable(source, event, possible, decision)
    BY DEF Typed, Decidable, Fits, OneEach
  <1>2. IdentitiesFit(source, identity)
    BY DEF Typed, IdentitiesFit, IdentityTyped
  <1> QED
    BY <1>1, <1>2

\* Identities after a recomputation of es.
Lingers(es, ids) ==
  /\ identity' \in Seq(IdentityRow) /\ DOMAIN identity' = DOMAIN ids
  /\ \A i \in DOMAIN ids :
       /\ identity'[i].source = ids[i].source /\ identity'[i].event = ids[i].event
       /\ identity'[i].active <=> ids[i].active /\ ~(ids[i].event \in es /\ ~Effective(ids[i].source))

LEMMA IdentitiesLinger ==
  ASSUME NEW es, NEW sources, NEW matches, NEW old, NEW ids \in Seq(IdentityRow),
         Recompute(es, sources, matches, old, ids)
  PROVE  Lingers(es, ids)
  <1>1. identity' = KeptIdentities(es, ids)
    BY Settles, Zenon
  <1>2. LapsedIdentities(identity', ids, HoldingIdentities(es, ids))
    BY <1>1, KeptIdentityRows
  <1>3. ASSUME NEW i \in DOMAIN ids
        PROVE  HoldingIdentities(es, ids)[i] = ~(ids[i].event \in es /\ ~Effective(ids[i].source))
    BY Zenon DEF HoldingIdentities
  <1> QED
    BY <1>2, <1>3, Zenon DEF LapsedIdentities, Lingers

\* A displaced row needs claims on its own event only.
LEMMA DisplacedLocally ==
  ASSUME NEW row, NEW r, Same(r, row), NEW S, NEW S2,
         \A k \in Key : /\ S[k].event = row.event <=> S2[k].event = row.event
                        /\ S[k].event = row.event => S2[k].created = S[k].created,
         ExtractionsTyped
  PROVE  (Displaced(r, S2) <=> Displaced(row, S)) /\ (Retired(r) <=> Retired(row))
  <1>1. Candidates \subseteq Key
    BY Records
  <1> QED
    BY <1>1 DEF Displaced, Retired, Same

\* A recomputation of all events leaves all fresh.
LEMMA RunFreshens ==
  ASSUME Typed, Typed', [Next]_vars, Recomputes(event', source', possible', decision, identity)
  PROVE  AllFresh'
  <1>1. /\ Recompute(event', source', possible', decision, identity)
        /\ extraction' = extraction /\ identity \in Seq(IdentityRow)
    BY DEF Recomputes
  <1>2. Writes(event', source', possible')
    BY <1>1, Written
  <1>3. event' \subseteq Key
    BY DEF Typed, Bound
  <1>4. \A e \in event' : \E s \in SUBSET supersedes' :
          Stores(outcome'[e], s, e, source', possible', decision', identity')
    BY <1>2, <1>3 DEF Writes
  <1>5. Judges(event', source', decision)
    BY Judged
  <1>6. ASSUME NEW d \in DOMAIN decision', decision'[d].active
        PROVE  ~Retired(decision'[d]) /\ ~Displaced(decision'[d], source')
    <2>1. d \in DOMAIN decision /\ Same(decision'[d], decision[d]) /\ decision'[d].event \in event'
      BY <1>5 DEF Judges, Typed, Fits
    <2>2. ~Retired(decision[d]) /\ ~Displaced(decision[d], source')
      BY <1>5, <1>6, <2>1 DEF Judges, Same
    <2>3. ExtractionsTyped
      BY DEF Typed
    <2>4. /\ Displaced(decision'[d], source') <=> Displaced(decision[d], source')
          /\ Retired(decision'[d]) <=> Retired(decision[d])
      BY <2>1, <2>3, DisplacedLocally
    <2> QED
      BY <2>2, <2>4
  <1>7. Lingers(event', identity)
    BY <1>1, IdentitiesLinger
  <1>8. ASSUME NEW i \in DOMAIN identity', identity'[i].active PROVE Effective(identity'[i].source)
    <2>1. identity'[i].event \in event'
      BY DEF Typed, IdentityTyped
    <2> QED
      BY <1>7, <1>8, <2>1 DEF Lingers
  <1>9. Fresh(event', source', possible', decision', identity', outcome', supersedes')
    BY <1>4, <1>6, <1>8 DEF Fresh
  <1> QED
    BY <1>1, <1>4, <1>6, <1>8, Steady DEF AllFresh, Fresh

\* A recomputation of one event leaves the others as fresh as they were.
LEMMA StepFreshens ==
  ASSUME Typed, Typed', [Next]_vars, AllFresh, event' = event, NEW e0 \in event,
         NEW old, NEW ids, Recomputes({e0}, source', possible', old, ids),
         \A e \in event \ {e0} : Unaffected(e, source, possible, decision, identity,
                                            source', possible', decision', identity')
  PROVE  AllFresh'
  <1>1. /\ Recompute({e0}, source', possible', old, ids)
        /\ extraction' = extraction /\ ids \in Seq(IdentityRow)
    BY DEF Recomputes
  <1>2. Writes({e0}, source', possible')
    BY <1>1, Written
  <1>3. event \subseteq Key /\ ExtractionsTyped
    BY DEF Typed, Bound
  <1>4. /\ Decidable(source, event, possible, decision) /\ IdentitiesFit(source, identity)
        /\ Decidable(source', event', possible', decision') /\ IdentitiesFit(source', identity')
    <2>1. Decidable(source, event, possible, decision) /\ IdentitiesFit(source, identity)
      BY DecidableNow
    <2>2. Decidable(source', event', possible', decision')
      BY <1>1, DecidableNext
    <2>3. IdentitiesFit(source', identity')
      BY DEF Typed, IdentitiesFit, IdentityTyped
    <2> QED
      BY <2>1, <2>2, <2>3
  <1>5. ASSUME NEW e \in event
        PROVE  \E s \in SUBSET supersedes' :
                 Stores(outcome'[e], s, e, source', possible', decision', identity')
    <2>1. CASE e = e0
      BY <1>2, <1>3, <2>1 DEF Writes
    <2>2. CASE e # e0
      <3>1. PICK s \in SUBSET supersedes : Stores(outcome[e], s, e, source, possible, decision, identity)
        BY DEF AllFresh, Fresh
      <3>2. Unaffected(e, source, possible, decision, identity, source', possible', decision', identity')
        BY <2>2
      <3>3. Stores(outcome[e], s, e, source', possible', decision', identity')
        BY <1>3, <1>4, <3>1, <3>2, Local
      <3>4. outcome'[e] = outcome[e] /\ supersedes \subseteq supersedes'
        BY <1>2, <1>3, <2>2 DEF Writes
      <3> QED
        BY <3>3, <3>4
    <2> QED
      BY <2>1, <2>2
  <1>6. Judges({e0}, source', old)
    BY Judged
  <1>7. ASSUME NEW d \in DOMAIN decision', decision'[d].active
        PROVE  ~Retired(decision'[d]) /\ ~Displaced(decision'[d], source')
    <2>1. d \in DOMAIN old /\ Same(decision'[d], old[d]) /\ old[d].active
      BY <1>6, <1>7 DEF Judges
    <2>2. CASE old[d].event = e0
      <3>1. ~Retired(old[d]) /\ ~Displaced(old[d], source')
        BY <1>6, <1>7, <2>1, <2>2 DEF Judges
      <3>2. /\ Displaced(decision'[d], source') <=> Displaced(old[d], source')
            /\ Retired(decision'[d]) <=> Retired(old[d])
        BY <1>3, <2>1, DisplacedLocally
      <3> QED
        BY <3>1, <3>2
    <2>3. CASE old[d].event # e0
      <3>1. d \in DOMAIN decision /\ Same(old[d], decision[d]) /\ decision[d].active
        BY <1>6, <2>1, <2>3 DEF Judges
      <3>2. ~Retired(decision[d]) /\ ~Displaced(decision[d], source)
        BY <3>1 DEF AllFresh, Fresh
      <3>3. Same(decision'[d], decision[d]) /\ decision[d].event \in event \ {e0}
        BY <2>1, <2>3, <3>1 DEF Same, Typed, Fits
      <3>4. \A k \in Key : source[k].event = decision[d].event <=> source'[k].event = decision[d].event
        BY <3>3, Zenon DEF Unaffected
      <3>6. \A k \in Key : source[k].event = decision[d].event => source'[k].created = source[k].created
        <4>1. decision[d].event # 0
          BY <1>3, <3>3, RowBounds DEF Key
        <4> QED
          BY <4>1, BoundKeepsInstant
      <3>5. /\ Displaced(decision'[d], source') <=> Displaced(decision[d], source)
            /\ Retired(decision'[d]) <=> Retired(decision[d])
        BY <1>3, <3>3, <3>4, <3>6, DisplacedLocally
      <3> QED
        BY <3>2, <3>5
    <2> QED
      BY <2>2, <2>3
  <1>8. Lingers({e0}, ids)
    BY <1>1, IdentitiesLinger
  <1>9. ASSUME NEW i \in DOMAIN identity', identity'[i].active PROVE Effective(identity'[i].source)
    <2>1. CASE identity'[i].event = e0
      BY <1>8, <1>9, <2>1 DEF Lingers
    <2>2. CASE identity'[i].event # e0
      <3>1. identity'[i].event \in event \ {e0}
        BY <2>2 DEF Typed, IdentityTyped
      <3>2. IdentitiesStay(identity'[i].event, identity, identity')
        BY <3>1 DEF Unaffected
      <3>3. /\ i \in DOMAIN identity /\ identity[i].active
            /\ identity[i].source = identity'[i].source
        BY <1>9, <3>2 DEF IdentitiesStay
      <3> QED
        BY <3>3 DEF AllFresh, Fresh
    <2> QED
      BY <2>1, <2>2
  <1>10. \A e \in event' : \E s \in SUBSET supersedes' :
           Stores(outcome'[e], s, e, source', possible', decision', identity')
    BY <1>5
  <1> QED
    BY <1>1, <1>7, <1>9, <1>10, Steady DEF AllFresh, Fresh

\* The rows on the events that were not recomputed stay.
LEMMA RowsElsewhereStay ==
  ASSUME NEW e0, NEW sources, NEW old, Judges({e0}, sources, old), NEW e, e # e0
  PROVE  RowsStay(e, decision, decision')
  <1>1. ASSUME NEW d \in DOMAIN decision
        PROVE  /\ Same(decision'[d], decision[d])
               /\ decision[d].event = e => (decision'[d].active <=> decision[d].active)
    <2>1. d \in DOMAIN old /\ Same(decision'[d], old[d]) /\ Same(old[d], decision[d])
      BY DEF Judges
    <2>2. ASSUME decision[d].event = e
          PROVE  decision'[d].active <=> decision[d].active
      <3>1. decision'[d].active <=> old[d].active
        BY <2>1, <2>2 DEF Judges, Same
      <3>2. old[d].active <=> decision[d].active
        <4>1. ASSUME NEW c \in DOMAIN old \ DOMAIN decision PROVE old[c].event # decision[d].event
          BY <2>2 DEF Judges
        <4>2. /\ old[d].active => decision[d].active
              /\ decision[d].active /\ ~old[d].active =>
                   \E c \in DOMAIN old \ DOMAIN decision : old[c].event = decision[d].event
          BY DEF Judges
        <4> QED
          BY <4>1, <4>2
      <3> QED
        BY <3>1, <3>2
    <2> QED
      BY <2>1, <2>2 DEF Same
  <1>2. DOMAIN decision' = DOMAIN old /\ DOMAIN decision \subseteq DOMAIN old
    BY DEF Judges
  <1>3. ASSUME NEW d \in DOMAIN old \ DOMAIN decision PROVE decision'[d].event # e
    BY DEF Judges, Same
  <1> QED
    BY <1>1, <1>2, <1>3 DEF RowsStay

\* What a step that keeps the runs and the extractions has to show.
LEMMA ReuseKept ==
  ASSUME ReuseInv, extraction' = extraction, run' = run,
         DOMAIN identity \subseteq DOMAIN identity',
         AllFresh => AllFresh' \/ NewlyIdentified',
         NewlyIdentified => NewlyIdentified'
  PROVE  ReuseInv'
  <1>1. RunsKnown'
    BY DEF ReuseInv, RunsKnown
  <1>2. EffectiveNow' = EffectiveNow
    BY Steady DEF EffectiveNow
  <1>3. Recorded' => Recorded
    BY <1>2 DEF Recorded
  <1> QED
    BY <1>1, <1>3 DEF ReuseInv

LEMMA ReuseExtract ==
  ASSUME Typed, ReuseInv, NEW i \in Input, Extract(i)
  PROVE  ReuseInv'
  <1>1. PICK row : extraction' = Append(extraction, row)
    BY DEF Extract
  <1>2. run' = run /\ identity' = identity
    BY DEF Extract
  <1>3. extraction \in Seq(ExtractionRow)
    BY DEF Typed, ExtractionsTyped
  <1> DEFINE n == Len(extraction) + 1
  <1>4. /\ DOMAIN extraction = 1..Len(extraction) /\ Len(extraction) \in Nat
        /\ DOMAIN extraction' = DOMAIN extraction \cup {n}
    BY <1>1, <1>3, Appended
  <1>5. n \in DOMAIN extraction' /\ n \notin DOMAIN extraction /\ \A j \in DOMAIN extraction' : j <= n
    BY <1>4
  <1> HIDE DEF n
  <1>6. n \in EffectiveNow'
    BY <1>5 DEF EffectiveNow, Effective
  <1>7. ~Recorded'
    BY <1>2, <1>5, <1>6 DEF Recorded, ReuseInv, RunsKnown
  <1>8. RunsKnown'
    BY <1>2, <1>4 DEF ReuseInv, RunsKnown
  <1> QED
    BY <1>7, <1>8 DEF ReuseInv

LEMMA ReuseReconcile ==
  ASSUME Typed, Typed', ReuseInv, ReconcileCourse
  PROVE  ReuseInv'
  <1>1. /\ Recompute(event', source', possible', decision, identity)
        /\ extraction' = extraction
        /\ run' \subseteq run \cup {InputHash}
    <2>1. /\ Recompute(Matched.event, Matched.source, Matched.possible, decision, identity)
          /\ source' = Matched.source /\ event' = Matched.event /\ possible' = Matched.possible
          /\ extraction' = extraction
          /\ run' \subseteq run \cup {InputHash}
      BY DEF ReconcileCourse
    <2> QED
      BY <2>1
  <1>2. [Next]_vars /\ identity \in Seq(IdentityRow)
    BY DEF Next, Typed
  <1>3. \A k \in Key : source'[k].event # source[k].event => source'[k].event \in event'
    <2>1. \A k \in Key : source[k].event # 0 => source'[k].event = source[k].event
      BY <1>2, StaysNext
    <2>2. \A k \in Key : source'[k].event # 0 => source'[k].event \in event'
      BY DEF Typed, Bound
    <2> QED
      BY <2>1, <2>2
  <1>4. Recomputes(event', source', possible', decision, identity)
    BY <1>1, <1>2, <1>3 DEF Recomputes
  <1>5. AllFresh'
    BY <1>2, <1>4, RunFreshens
  <1>6. DOMAIN identity' = DOMAIN identity
    BY <1>1, <1>2, IdentitiesLinger DEF Lingers
  <1>7. InputHash.extractions \subseteq DOMAIN extraction /\ InputHash.identities \subseteq DOMAIN identity
    BY DEF InputHash
  <1>8. RunsKnown'
    BY <1>1, <1>6, <1>7 DEF RunsKnown, ReuseInv
  <1> QED
    BY <1>5, <1>8 DEF ReuseInv

LEMMA ReuseResolveField ==
  ASSUME Typed, Typed', ReuseInv, ResolveField
  PROVE  ReuseInv'
  <1> DEFINE e0 == request.event
  <1>1. /\ Recompute({e0}, source, possible, Decided, identity)
        /\ request # NoRequest
        /\ UNCHANGED <<extraction, source, event, possible, run>>
    BY Zenon DEF ResolveField, Decided, Asked
  <1>2. [Next]_vars /\ identity \in Seq(IdentityRow) /\ e0 \in event
    BY <1>1 DEF Next, Typed, RequestTyped
  <1>3. Recomputes({e0}, source', possible', Decided, identity)
    BY <1>1, <1>2 DEF Recomputes
  <1> HIDE DEF e0
  <1>4. Judges({e0}, source', Decided)
    BY <1>3, Judged
  <1>5. Lingers({e0}, identity)
    BY <1>1, <1>2, IdentitiesLinger
  <1>6. ASSUME NEW e \in event \ {e0}
        PROVE  Unaffected(e, source, possible, decision, identity, source', possible', decision', identity')
    <2>1. RowsStay(e, decision, decision')
      BY <1>4, RowsElsewhereStay
    <2>2. IdentitiesStay(e, identity, identity')
      BY <1>5 DEF Lingers, IdentitiesStay
    <2> QED
      BY <1>1, <2>1, <2>2 DEF Unaffected
  <1>7. AllFresh => AllFresh'
    BY <1>1, <1>2, <1>3, <1>6, StepFreshens
  <1>8. NewlyIdentified => NewlyIdentified'
    BY <1>1, <1>5, Steady DEF NewlyIdentified, Lingers
  <1>9. DOMAIN identity \subseteq DOMAIN identity'
    BY <1>5 DEF Lingers
  <1> QED
    BY <1>1, <1>7, <1>8, <1>9, ReuseKept

LEMMA ReuseResolveEventSource ==
  ASSUME Typed, Typed', ReuseInv, NEW k \in Key, NEW e0 \in event, ResolveEventSource(k, e0)
  PROVE  ReuseInv'
  <1> DEFINE b == [source |-> source, event |-> event, possible |-> possible]
             ids == DecidedIdentities(k, e0)
  <1>1. /\ Recompute({e0}, source', possible', decision, ids)
        /\ source' = Bind(b, k, e0).source /\ possible' = Bind(b, k, e0).possible
        /\ UNCHANGED <<extraction, event, run>>
        /\ source[k].event \in {0, e0}
    <2>1. /\ Recompute({e0}, Bind(b, k, e0).source, Bind(b, k, e0).possible, decision, ids)
          /\ source' = Bind(b, k, e0).source /\ possible' = Bind(b, k, e0).possible
          /\ UNCHANGED <<extraction, event, run>>
          /\ source[k].event \in {0, e0}
      BY Zenon DEF ResolveEventSource, DecidedIdentities, Identified, MayBind
    <2> HIDE DEF ids, b
    <2> QED
      BY <2>1
  <1>2. [Next]_vars /\ identity \in Seq(IdentityRow) /\ e0 \in Key /\ 0 \notin Key
    BY RowBounds DEF Next, Typed, Bound, Key
  <1>3. Named(b) /\ b.source = source /\ b.possible = possible
    BY StoredNamed
  <1>4. Identifies(ids, k, e0)
    BY DecidedIdentityRows
  <1> HIDE DEF b, ids
  <1>5. Binds(Bind(b, k, e0), b, k, e0)
    BY <1>2, <1>3, BindFacts
  <1>6. /\ source'[k] = BoundTo(e0, source[k].created) /\ \A j \in Key \ {k} : source'[j] = source[j]
        /\ possible' = [possible EXCEPT ![k] = {}]
    BY <1>1, <1>3, <1>5 DEF Binds
  <1>7. ids \in Seq(IdentityRow)
    BY <1>4 DEF Identifies
  <1>8. Recomputes({e0}, source', possible', decision, ids)
    <2>1. \A j \in Key : source'[j].event # source[j].event => source'[j].event \in {e0}
      BY <1>6 DEF BoundTo
    <2> QED
      BY <1>1, <1>7, <2>1 DEF Recomputes
  <1>9. Lingers({e0}, ids)
    BY <1>1, <1>7, IdentitiesLinger
  <1>10. /\ DOMAIN ids = DOMAIN identity \cup {Len(identity) + 1}
         /\ Len(identity) + 1 \notin DOMAIN identity
         /\ ids[Len(identity) + 1] = Identified(k, e0)
         /\ \A i \in DOMAIN identity :
              /\ ids[i].source = identity[i].source
              /\ ids[i].event = identity[i].event
              /\ ids[i].active <=> identity[i].active /\ identity[i].source # k
    BY <1>4 DEF Identifies
  <1> DEFINE n == Len(identity) + 1
  <1>11. Effective(k) => NewlyIdentified'
    <2> SUFFICES ASSUME Effective(k) PROVE NewlyIdentified'
      OBVIOUS
    <2>1. n \in DOMAIN identity' /\ identity'[n].active /\ identity'[n].source = k
      BY <1>9, <1>10 DEF Lingers, Identified
    <2>2. \A h \in run' : n \notin h.identities
      BY <1>1, <1>10 DEF ReuseInv, RunsKnown
    <2>3. Effective(k)'
      BY <1>1, Steady
    <2> QED
      BY <2>1, <2>2, <2>3 DEF NewlyIdentified
  <1>12. NewlyIdentified => NewlyIdentified'
    <2> SUFFICES ASSUME NewlyIdentified, ~Effective(k) PROVE NewlyIdentified'
      BY <1>11
    <2>1. PICK i \in DOMAIN identity :
            /\ identity[i].active /\ Effective(identity[i].source)
            /\ \A h \in run : i \notin h.identities
      BY DEF NewlyIdentified
    <2>2. i \in DOMAIN ids /\ ids[i].active /\ ids[i].source = identity[i].source
      BY <1>10, <2>1
    <2>3. i \in DOMAIN identity' /\ identity'[i].active /\ identity'[i].source = identity[i].source
      BY <1>9, <2>1, <2>2 DEF Lingers
    <2>4. Effective(identity[i].source)'  <=> Effective(identity'[i].source)
      BY <1>1, Steady
    <2> QED
      BY <1>1, <2>1, <2>3, <2>4 DEF NewlyIdentified
  <1>13. ASSUME ~Effective(k), NEW e \in event \ {e0}
         PROVE  Unaffected(e, source, possible, decision, identity, source', possible', decision', identity')
    <2>1. RowsStay(e, decision, decision')
      <3>1. Judges({e0}, source', decision)
        BY <1>8, Judged
      <3> QED
        BY <3>1, RowsElsewhereStay
    <2>2. IdentitiesStay(e, identity, identity')
      <3>1. ASSUME NEW i \in DOMAIN identity
            PROVE  /\ i \in DOMAIN identity'
                   /\ identity'[i].source = identity[i].source /\ identity'[i].event = identity[i].event
                   /\ identity[i].event = e => (identity'[i].active <=> identity[i].active)
        <4>1. identity[i].event = e => identity[i].source # k
          <5>1. source[identity[i].source].event = identity[i].event /\ e \in Key
            BY DEF Typed, IdentityTyped, Bound
          <5> QED
            BY <1>1, <1>2, <1>13, <5>1
        <4> QED
          BY <1>9, <1>10, <4>1 DEF Lingers
      <3>2. ASSUME NEW i \in DOMAIN identity' \ DOMAIN identity PROVE identity'[i].event # e
        BY <1>9, <1>10 DEF Lingers, Identified
      <3> QED
        BY <3>1, <3>2 DEF IdentitiesStay
    <2>3. \A j \in Key : source[j].event = e <=> source'[j].event = e
      <3>1. e # 0 /\ e # e0
        BY <1>2, <1>13 DEF Typed, Bound
      <3>2. source'[k].event = e0
        BY <1>6 DEF BoundTo
      <3> QED
        BY <1>1, <1>6, <3>1, <3>2
    <2>4. Resembling(e, source, possible) = Resembling(e, source', possible')
      <3>1. \A j \in Key \ {k} : source'[j] = source[j] /\ possible'[j] = possible[j]
        BY <1>6 DEF Typed, Bound
      <3>2. /\ k \notin Resembling(e, source, possible)
            /\ k \notin Resembling(e, source', possible')
        BY <1>13 DEF Resembling
      <3> QED
        BY <3>1, <3>2 DEF Resembling
    <2> QED
      BY <2>1, <2>2, <2>3, <2>4 DEF Unaffected
  <1>14. AllFresh => AllFresh' \/ NewlyIdentified'
    <2> SUFFICES ASSUME AllFresh, ~Effective(k) PROVE AllFresh'
      BY <1>11
    <2> QED
      BY <1>1, <1>2, <1>8, <1>13, StepFreshens
  <1>15. DOMAIN identity \subseteq DOMAIN identity'
    BY <1>9, <1>10 DEF Lingers
  <1> QED
    BY <1>1, <1>12, <1>14, <1>15, ReuseKept

LEMMA ReuseNext == Typed /\ Typed' /\ ReuseInv /\ [Next]_vars => ReuseInv'
  <1> SUFFICES ASSUME Typed, Typed', ReuseInv, [Next]_vars PROVE ReuseInv'
    OBVIOUS
  <1>1. ASSUME Quiet, extraction' = extraction, run' = run PROVE ReuseInv'
    <2>1. AllFresh => AllFresh'
      BY <1>1, Steady DEF AllFresh, Fresh, Quiet
    <2>2. NewlyIdentified => NewlyIdentified'
      BY <1>1, Steady DEF NewlyIdentified, Quiet
    <2> QED
      BY <1>1, <2>1, <2>2, ReuseKept DEF Quiet
  <1>2. ASSUME NEW i \in Input, Extract(i) PROVE ReuseInv'
    BY <1>2, ReuseExtract
  <1>3. CASE ReconcileCourse
    BY <1>3, ReuseReconcile
  <1>4. ASSUME NEW e \in event, BeginResolve(e) PROVE ReuseInv'
    BY <1>1, <1>4 DEF BeginResolve, Quiet
  <1>5. CASE ResolveField
    BY <1>5, ReuseResolveField
  <1>6. ASSUME NEW k \in Key, NEW e \in event, ResolveEventSource(k, e) PROVE ReuseInv'
    BY <1>6, ReuseResolveEventSource
  <1>7. CASE UNCHANGED vars
    BY <1>1, <1>7 DEF vars, Quiet
  <1>8. CASE BeginReconcile \/ RollBack
    BY <1>1, <1>8 DEF BeginReconcile, RollBack, Quiet
  <1> QED
    BY <1>2, <1>3, <1>4, <1>5, <1>6, <1>7, <1>8 DEF Next

LEMMA ReuseInit == Init => ReuseInv
  BY DEF Init, ReuseInv, RunsKnown, Recorded

\* What a recomputation of fresh events stores is stored already.
LEMMA FreshSettles ==
  ASSUME Typed, Shown, AllFresh,
         NEW s, s = Settled(event, source, possible, decision, identity)
  PROVE  s.decision = decision /\ s.identity = identity /\ s.outcome = outcome /\ s.supersedes = supersedes
  <1> DEFINE kept == Kept(event, source, decision)
             keptIdentities == KeptIdentities(event, identity)
             new == [e \in event |-> Recomputed(e, source, possible, kept, keptIdentities)]
  <1>1. /\ s.decision = kept /\ s.identity = keptIdentities
        /\ s.outcome = [k \in Key |-> IF k \in event THEN new[k].outcome ELSE outcome[k]]
        /\ s.supersedes = supersedes \cup UNION {new[e].edges : e \in event}
    BY DEF Settled
  <1> HIDE DEF new
  <1>2. decision \in Seq(DecisionRow) /\ identity \in Seq(IdentityRow)
    BY DEF Typed
  <1>3. kept = decision
    <2> DEFINE P == Holding(event, source, decision)
    <2>1. ASSUME NEW d \in DOMAIN decision
          PROVE  [decision[d] EXCEPT !.active = @ /\ ~(/\ decision[d].event \in event
                                                       /\ \/ Retired(decision[d])
                                                          \/ Displaced(decision[d], source))] = decision[d]
      <3>1. decision[d] \in DecisionRow
        BY <1>2
      <3>2. decision[d].active => ~Retired(decision[d]) /\ ~Displaced(decision[d], source)
        BY DEF AllFresh, Fresh
      <3>3. (decision[d].active /\ ~(/\ decision[d].event \in event
                                     /\ \/ Retired(decision[d])
                                        \/ Displaced(decision[d], source))) = decision[d].active
        BY <3>1, <3>2 DEF DecisionRow
      <3>4. [decision[d] EXCEPT !.active = decision[d].active] = decision[d]
        BY <3>1 DEF DecisionRow
      <3> QED
        BY <3>3, <3>4, Zenon
    <2>2. decision = [d \in DOMAIN decision |-> decision[d]]
      BY <1>2
    <2> QED
      BY <2>1, <2>2, Zenon DEF Kept
  <1>4. keptIdentities = identity
    <2>1. ASSUME NEW i \in DOMAIN identity
          PROVE  [identity[i] EXCEPT !.active = @ /\ ~(/\ identity[i].event \in event
                                                       /\ ~Effective(identity[i].source))] = identity[i]
      <3>1. identity[i] \in IdentityRow
        BY <1>2
      <3>2. identity[i].active => Effective(identity[i].source)
        BY DEF AllFresh, Fresh
      <3>3. (identity[i].active /\ ~(/\ identity[i].event \in event
                                     /\ ~Effective(identity[i].source))) = identity[i].active
        BY <3>1, <3>2 DEF IdentityRow
      <3>4. [identity[i] EXCEPT !.active = identity[i].active] = identity[i]
        BY <3>1 DEF IdentityRow
      <3> QED
        BY <3>3, <3>4, Zenon
    <2>2. identity = [i \in DOMAIN identity |-> identity[i]]
      BY <1>2
    <2> QED
      BY <2>1, <2>2, Zenon DEF KeptIdentities
  <1>5. ASSUME NEW e \in event
        PROVE  new[e].outcome = outcome[e] /\ new[e].edges \subseteq supersedes
    <2>1. new[e] = Recomputed(e, source, possible, decision, identity)
      BY <1>3, <1>4 DEF new
    <2>2. Stores(new[e].outcome, new[e].edges, e, source, possible, decision, identity)
      BY <2>1, RecomputedStores
    <2>3. PICK x \in SUBSET supersedes : Stores(outcome[e], x, e, source, possible, decision, identity)
      BY DEF AllFresh, Fresh
    <2> QED
      BY <2>2, <2>3 DEF Stores
  <1>6. s.outcome = outcome
    <2>1. outcome = [e \in Key |-> outcome[e]]
      BY DEF Shown
    <2> QED
      BY <1>1, <1>5, <2>1
  <1>7. s.supersedes = supersedes
    BY <1>1, <1>5
  <1> QED
    BY <1>1, <1>3, <1>4, <1>6, <1>7

\* A run that is reused has nothing to do: when the current input hash is that of
\* a recorded run, recomputing every event would store what is stored, though
\* decisions lapse and hashes come back (`reconcile_course', `_input_hash').
THEOREM ReusedRunsAreCurrent == Spec => []ReusedRunIsCurrent
  <1>1. Typed /\ Shown /\ ReuseInv => ReusedRunIsCurrent
    <2> SUFFICES ASSUME Typed, Shown, ReuseInv, InputHash \in run PROVE ReusedRunIsCurrent
      BY DEF ReusedRunIsCurrent
    <2>1. /\ InputHash.extractions = EffectiveNow
          /\ InputHash.identities = {i \in DOMAIN identity : identity[i].active}
      BY DEF InputHash, EffectiveNow
    <2>2. Recorded /\ ~NewlyIdentified
      BY <2>1 DEF Recorded, NewlyIdentified
    <2>3. AllFresh
      BY <2>2 DEF ReuseInv
    <2> QED
      BY <2>3, FreshSettles DEF ReusedRunIsCurrent
  <1>2. Spec => []ReuseInv
    BY ReuseInit, ReuseNext, TypedAlways, PTL DEF Spec
  <1> QED
    BY <1>1, <1>2, TypedAlways, ShownAlways, PTL
=============================================================================
