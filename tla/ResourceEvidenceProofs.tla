----------------------- MODULE ResourceEvidenceProofs -----------------------
(***************************************************************************)
(* What the other proofs need of ResourceEvidence: that a newest           *)
(* observation exists, and what recording one more leaves alone.           *)
(***************************************************************************)
EXTENDS ResourceEvidence, TLAPS, WellFoundedInduction

\* A nonempty set of naturals has a least member.
LEMMA LeastNatural ==
  ASSUME NEW T \in SUBSET Nat, T # {}
  PROVE  \E m \in T : \A n \in T : m <= n
  <1>1. PICK m \in T : \A n \in T : ~(<<n, m>> \in OpToRel(<, Nat))
    <2> DEFINE R == OpToRel(<, Nat)
    <2>1. IsWellFoundedOn(R, Nat)
      BY NatLessThanWellFounded
    <2> HIDE DEF R
    <2>2. \E m \in T : \A n \in T : ~(<<n, m>> \in R)
      BY <2>1, WFMin
    <2> QED
      BY <2>2 DEF R
  <1>2. ASSUME NEW n \in T PROVE m <= n
    <2>1. <<n, m>> \in Nat \X Nat /\ <<n, m>>[1] = n /\ <<n, m>>[2] = m
      OBVIOUS
    <2>2. ~(n < m)
      BY <1>1, <2>1 DEF OpToRel
    <2> QED
      BY <2>2
  <1> QED
    BY <1>2

\* Of finitely many observations, numbered and compared by a total preorder
\* R, one is the newest.  The proof considers the least n such that those up
\* to n have no newest.
LEMMA NewestExists ==
  ASSUME NEW n \in Nat, NEW S \in SUBSET (1..n), S # {}, NEW R,
         \A i, j \in S : <<i, j>> \in R \/ <<j, i>> \in R,
         \A i, j, k \in S : <<i, j>> \in R /\ <<j, k>> \in R => <<i, k>> \in R
  PROVE  \E i \in S : \A j \in S : <<i, j>> \in R
  <1> DEFINE UpTo(m) == S \cap (1..m)
             Bad == {m \in Nat : /\ UpTo(m) # {}
                                 /\ ~\E i \in UpTo(m) : \A j \in UpTo(m) : <<i, j>> \in R}
  <1>1. UpTo(n) = S
    OBVIOUS
  <1>2. SUFFICES Bad = {}
    BY <1>1
  <1>3. SUFFICES ASSUME Bad # {} PROVE FALSE
    OBVIOUS
  <1>4. PICK m \in Bad : \A l \in Bad : m <= l
    <2>1. Bad \in SUBSET Nat
      OBVIOUS
    <2> HIDE DEF Bad
    <2> QED
      BY <1>3, <2>1, LeastNatural
  <1>5. m \in Nat /\ m # 0 /\ m - 1 \in Nat
    BY <1>4
  <1>6. m - 1 \notin Bad
    <2> HIDE DEF Bad
    <2> QED
      BY <1>4, <1>5
  <1>7. CASE m \notin S
    <2>1. 1..m = (1..m - 1) \cup {m}
      BY <1>5
    <2>2. UpTo(m) = UpTo(m - 1)
      BY <1>7, <2>1
    <2> QED
      BY <1>4, <1>5, <1>6, <2>2
  <1>8. CASE m \in S
    <2>0. 1..m = (1..m - 1) \cup {m}
      BY <1>5
    <2>1. UpTo(m) = UpTo(m - 1) \cup {m}
      BY <1>8, <2>0
    <2>2. <<m, m>> \in R
      BY <1>8
    <2>3. CASE UpTo(m - 1) = {}
      BY <1>4, <1>8, <2>1, <2>2, <2>3
    <2>4. CASE UpTo(m - 1) # {}
      <3>1. PICK i \in UpTo(m - 1) : \A j \in UpTo(m - 1) : <<i, j>> \in R
        BY <1>5, <1>6, <2>4
      <3>2. UpTo(m - 1) \subseteq S /\ i \in S
        OBVIOUS
      <3>3. CASE <<i, m>> \in R
        <4>1. \A j \in UpTo(m) : <<i, j>> \in R
          BY <2>1, <3>1, <3>3
        <4> QED
          BY <1>4, <2>1, <3>1, <4>1
      <3>4. CASE <<m, i>> \in R
        <4>1. \A j \in UpTo(m) : <<m, j>> \in R
          BY <1>8, <2>1, <2>2, <3>1, <3>2, <3>4
        <4> QED
          BY <1>4, <1>8, <2>1, <4>1
      <3> QED
        BY <1>8, <3>2, <3>3, <3>4
    <2> QED
      BY <2>3, <2>4
  <1> QED
    BY <1>7, <1>8

\* A sequence one element longer.
LEMMA Appended ==
  ASSUME NEW T, NEW s \in Seq(T), NEW e \in T
  PROVE  /\ Append(s, e) \in Seq(T)
         /\ Len(s) \in Nat /\ DOMAIN s = 1..Len(s)
         /\ Len(Append(s, e)) = Len(s) + 1
         /\ DOMAIN Append(s, e) = DOMAIN s \cup {Len(s) + 1}
         /\ Len(s) + 1 \notin DOMAIN s
         /\ Append(s, e)[Len(s) + 1] = e
         /\ \A i \in DOMAIN s : Append(s, e)[i] = s[i]
  <1>1. /\ Append(s, e) \in Seq(T)
        /\ Len(s) \in Nat /\ DOMAIN s = 1..Len(s)
        /\ Len(Append(s, e)) = Len(s) + 1
        /\ Append(s, e)[Len(s) + 1] = e
    OBVIOUS
  <1>2. \A i \in DOMAIN s : Append(s, e)[i] = s[i]
    BY <1>1
  <1>3. DOMAIN Append(s, e) = 1..Len(s) + 1 /\ 1..Len(s) + 1 = (1..Len(s)) \cup {Len(s) + 1}
    BY <1>1
  <1>4. Len(s) + 1 \notin DOMAIN s
    BY <1>1
  <1> QED
    BY <1>1, <1>2, <1>3, <1>4

\* Recording an observation leaves a row that is well formed and exists.
LEMMA EnsuredKnown ==
  ASSUME NEW r \in Resource, NEW obs, NEW o, o.at \in Nat, o.avail \in ResourceAvailability
  PROVE  Ensured(r, obs, o) \in Resource /\ Ensured(r, obs, o).known
  <1>1. CASE ~r.known
    BY <1>1 DEF Ensured, Resource, ResourceAvailability, Availability
  <1>2. CASE r.known
    <2> DEFINE avail == IF o.status # "UNKNOWN" /\ NotBefore(o, obs, Authoritative(obs))
                        THEN o.avail ELSE r.avail
               last == IF IsLatest(r, obs, o) THEN o.at ELSE r.last
               first == CASE o.status # "OBSERVED" -> r.first
                          [] o.status = "OBSERVED" /\ Sightings(obs) = {} -> o.at
                          [] OTHER -> Earlier(r.first, o.at)
    <2>1. avail \in ResourceAvailability /\ last \in Nat
      BY DEF Resource
    <2>2. first \in Nat
      BY DEF Resource, Earlier
    <2>3. Ensured(r, obs, o) = [r EXCEPT !.avail = avail, !.last = last, !.first = first]
      BY <1>2 DEF Ensured
    <2> HIDE DEF avail, last, first
    <2> QED
      BY <1>2, <2>1, <2>2, <2>3 DEF Resource
  <1> QED
    BY <1>1, <1>2

LEMMA OmittedKnown ==
  ASSUME NEW r \in Resource, NEW obs, NEW o
  PROVE  Omitted(r, obs, o) \in Resource /\ Omitted(r, obs, o).known = r.known
  BY DEF Omitted, Resource, ResourceAvailability

\* What recording one more observation makes of a row that exists, and of one
\* that does not.
LEMMA EnsuredRow ==
  ASSUME NEW r \in Resource, NEW obs, NEW o
  PROVE  /\ r.known =>
              /\ Ensured(r, obs, o).avail =
                   IF o.status # "UNKNOWN" /\ NotBefore(o, obs, Authoritative(obs))
                   THEN o.avail ELSE r.avail
              /\ Ensured(r, obs, o).last = IF IsLatest(r, obs, o) THEN o.at ELSE r.last
              /\ o.status # "OBSERVED" => Ensured(r, obs, o).first = r.first
              /\ o.status = "OBSERVED" =>
                   Ensured(r, obs, o).first =
                     IF Sightings(obs) = {} THEN o.at ELSE Earlier(r.first, o.at)
         /\ ~r.known =>
              /\ Ensured(r, obs, o).avail = IF o.status = "UNKNOWN" THEN "UNKNOWN" ELSE o.avail
              /\ Ensured(r, obs, o).first = o.at /\ Ensured(r, obs, o).last = o.at
  <1>1. CASE ~r.known
    BY <1>1 DEF Ensured
  <1>2. CASE r.known
    <2> DEFINE avail == IF o.status # "UNKNOWN" /\ NotBefore(o, obs, Authoritative(obs))
                        THEN o.avail ELSE r.avail
               last == IF IsLatest(r, obs, o) THEN o.at ELSE r.last
               first == CASE o.status # "OBSERVED" -> r.first
                          [] o.status = "OBSERVED" /\ Sightings(obs) = {} -> o.at
                          [] OTHER -> Earlier(r.first, o.at)
    <2>1. Ensured(r, obs, o) = [r EXCEPT !.avail = avail, !.last = last, !.first = first]
      BY <1>2 DEF Ensured
    <2>2. /\ o.status # "OBSERVED" => first = r.first
          /\ o.status = "OBSERVED" =>
               first = IF Sightings(obs) = {} THEN o.at ELSE Earlier(r.first, o.at)
      OBVIOUS
    <2>3. /\ Ensured(r, obs, o).avail = avail /\ Ensured(r, obs, o).last = last
          /\ Ensured(r, obs, o).first = first
      <3> HIDE DEF avail, last, first
      <3> QED
        BY <2>1 DEF Resource
    <2> QED
      BY <1>2, <2>2, <2>3
  <1> QED
    BY <1>1, <1>2

LEMMA OmittedRow ==
  ASSUME NEW r \in Resource, NEW obs, NEW o
  PROVE  /\ Omitted(r, obs, o).avail =
              IF o.status = "NOT_OBSERVED" /\ NotBefore(o, obs, Authoritative(obs))
              THEN "MISSING" ELSE r.avail
         /\ Omitted(r, obs, o).first = r.first /\ Omitted(r, obs, o).last = r.last
  BY DEF Omitted, Resource

\* Earlier and later are a total preorder of observations.
LEMMA AfterOrder ==
  ASSUME NEW a, NEW b, NEW c, a.at \in Nat, a.run \in Nat, b.at \in Nat, b.run \in Nat,
         c.at \in Nat, c.run \in Nat
  PROVE  /\ ~After(a, a)
         /\ ~(After(a, b) /\ After(b, a))
         /\ After(a, b) /\ After(b, c) => After(a, c)
         /\ After(a, c) => After(a, b) \/ After(b, c)
  BY DEF After
=============================================================================
