------------------------- MODULE ResourceVaultProofs -------------------------
(***************************************************************************)
(* The vault for every value of the constants: any number of processes,    *)
(* hashes, captures, runs and repairs.                                     *)
(***************************************************************************)
EXTENDS ResourceVault, ResourceEvidenceProofs

(***************************************************************************)
(* Typing.  The types of the variables are not inductive by themselves: a  *)
(* standalone fetch reads the last metadata, a skip names a version, bytes *)
(* are stored once they were streamed, and views, jobs and debts are those *)
(* of versions there are.                                                  *)
(***************************************************************************)
RowHasEvidence == resource.known <=> obs # <<>>

\* What a phase says of the fetch's fields.
PhaseTyped(p) ==
  LET f == fetch[p] IN
  /\ f.solo => resource.known
  /\ f.current \in 0..Len(versions)
  /\ f.phase = "skipping" => f.current # 0
  /\ f.phase = "storing" => f.hash \in Hash
  /\ f.phase \in {"materializing", "pointing", "receipting"} => f.version \in DOMAIN versions

Typed == TypeOK /\ RowHasEvidence /\ \A p \in Process : PhaseTyped(p)

\* The fields a step changes keep the fetch well formed.
LEMMA NoFetchTyped == NoFetch \in Fetch
  <1>1. (CHOOSE m \in Meta : TRUE) \in Meta
    BY ResourceVaultAssumption
  <1> QED
    BY <1>1 DEF NoFetch, Fetch, Decision

LEMMA FetchUpdates ==
  ASSUME NEW f \in Fetch, NEW ph, [f EXCEPT !.phase = ph] \in Fetch,
         NEW meta \in Meta, NEW t \in Nat, NEW v \in Nat
  PROVE  /\ [f EXCEPT !.phase = ph, !.meta = meta] \in Fetch
         /\ [f EXCEPT !.phase = ph, !.clock = t, !.meta = meta] \in Fetch
         /\ [f EXCEPT !.phase = ph, !.current = v] \in Fetch
         /\ [f EXCEPT !.phase = ph, !.verified = v] \in Fetch
         /\ [f EXCEPT !.phase = ph, !.meta = meta, !.clock = t, !.current = v] \in Fetch
         /\ \A h \in Hash : [f EXCEPT !.phase = ph, !.hash = h] \in Fetch
         /\ \A d \in Decision : [f EXCEPT !.phase = ph, !.decision = d, !.version = v] \in Fetch
         /\ \A d \in Decision :
              [f EXCEPT !.phase = ph, !.version = v, !.decision = d, !.verified = t,
                        !.hash = 0] \in Fetch
  BY DEF Fetch

\* A step with which no version and no row goes away, and after which g is what
\* its phase says.
Fits(g) ==
  /\ resource.known => resource'.known
  /\ versions' \in Seq(Hash) /\ Len(versions) <= Len(versions')
  /\ g.solo => resource'.known
  /\ g.current \in 0..Len(versions')
  /\ g.phase = "skipping" => g.current # 0
  /\ g.phase = "storing" => g.hash \in Hash
  /\ g.phase \in {"materializing", "pointing", "receipting"} => g.version \in DOMAIN versions'

\* Such a step that gives p's fetch the value g types it, and every other fetch.
LEMMA FetchTyped ==
  ASSUME Typed, NEW p \in Process, NEW g \in Fetch, fetch' = [fetch EXCEPT ![p] = g],
         Fits(g)
  PROVE  fetch' \in [Process -> Fetch] /\ \A q \in Process : PhaseTyped(q)'
  <1>1. fetch \in [Process -> Fetch] /\ Len(versions) \in Nat /\ Len(versions') \in Nat
    BY DEF Fits, Typed, TypeOK
  <1>2. 0..Len(versions) \subseteq 0..Len(versions')
        /\ DOMAIN versions = 1..Len(versions) /\ DOMAIN versions' = 1..Len(versions')
        /\ 1..Len(versions) \subseteq 1..Len(versions')
    BY <1>1 DEF Fits, Typed, TypeOK
  <1>3. fetch' \in [Process -> Fetch] /\ fetch'[p] = g
    BY <1>1
  <1>4. PhaseTyped(p)'
    BY <1>3 DEF Fits, PhaseTyped
  <1>5. ASSUME NEW q \in Process, q # p PROVE PhaseTyped(q)'
    <2>1. fetch'[q] = fetch[q] /\ PhaseTyped(q)
      BY <1>1, <1>5 DEF Typed
    <2> QED
      BY <1>2, <2>1 DEF Fits, PhaseTyped
  <1> QED
    BY <1>3, <1>4, <1>5

\* Recording an observation adds one, and the row exists.
LEMMA Observing ==
  ASSUME Typed, NEW o \in Observation, Observe(o)
  PROVE  /\ resource' \in Resource /\ resource'.known
         /\ obs' \in Seq(Observation) /\ obs' # <<>>
         /\ Len(obs) \in Nat /\ DOMAIN obs = 1..Len(obs)
         /\ Len(obs') = Len(obs) + 1 /\ obs'[Len(obs) + 1] = o
         /\ DOMAIN obs' = DOMAIN obs \cup {Len(obs) + 1}
         /\ \A i \in DOMAIN obs : obs'[i] = obs[i]
  <1>1. o.at \in Nat /\ o.avail \in ResourceAvailability
    BY DEF Observation
  <1>2. resource' \in Resource /\ resource'.known
    BY <1>1, EnsuredKnown DEF Observe, Typed, TypeOK
  <1>3. obs \in Seq(Observation) /\ obs' = Append(obs, o)
    BY DEF Observe, Typed, TypeOK
  <1>4. /\ obs' \in Seq(Observation) /\ Len(obs) \in Nat /\ DOMAIN obs = 1..Len(obs)
        /\ Len(obs') = Len(obs) + 1 /\ obs'[Len(obs) + 1] = o
        /\ DOMAIN obs' = DOMAIN obs \cup {Len(obs) + 1}
        /\ \A i \in DOMAIN obs : obs'[i] = obs[i]
    BY <1>3, Appended
  <1>5. obs' # <<>>
    BY <1>4
  <1> QED
    BY <1>2, <1>4, <1>5

\* What a fetch sees is an observation.
LEMMA SeenTyped ==
  ASSUME Typed, NEW p \in Process, NEW at \in Nat, NEW meta \in Meta, NEW d \in Decision
  PROVE  /\ Seen(p, at, meta, d) \in Observation
         /\ \A v \in Nat : [Seen(p, at, meta, d) EXCEPT !.version = v] \in Observation
         /\ [Seen(p, at, meta, d) EXCEPT !.status = "UNKNOWN"] \in Observation
  <1>1. fetch[p].run \in Nat
    BY DEF Typed, TypeOK, Fetch
  <1> QED
    BY <1>1 DEF Seen, Observation, Status, ResourceAvailability, Availability

LEMMA SourceTimeNat ==
  ASSUME Typed, NEW p \in Process
  PROVE  SourceTime(p) \in Nat
  <1>1. fetch[p].capture \in Capture \cup {Live}
    BY DEF Typed, TypeOK, Fetch
  <1> QED
    BY <1>1, ResourceVaultAssumption DEF SourceTime, Typed, TypeOK

\* The newest of some observations or receipts is one of them.
LEMMA NewestMember ==
  ASSUME NEW T, \A e \in T : e.at \in Nat, NEW s \in Seq(T), NEW S \in SUBSET (DOMAIN s), S # {}
  PROVE  /\ Newest(s, S) \in S
         /\ \A j \in S : \/ s[Newest(s, S)].at > s[j].at
                         \/ s[Newest(s, S)].at = s[j].at /\ Newest(s, S) >= j
  <1> DEFINE R == {ij \in S \X S : \/ s[ij[1]].at > s[ij[2]].at
                                   \/ s[ij[1]].at = s[ij[2]].at /\ ij[1] >= ij[2]}
  <1>1. DOMAIN s = 1..Len(s) /\ Len(s) \in Nat /\ \A i \in S : i \in Nat /\ s[i].at \in Nat
    OBVIOUS
  <1>2. \A i, j \in S : <<i, j>> \in R <=> \/ s[i].at > s[j].at
                                           \/ s[i].at = s[j].at /\ i >= j
    OBVIOUS
  <1> HIDE DEF R
  <1>3. ASSUME NEW i \in S, NEW j \in S PROVE <<i, j>> \in R \/ <<j, i>> \in R
    <2>1. i \in Nat /\ j \in Nat /\ s[i].at \in Nat /\ s[j].at \in Nat
      BY <1>1
    <2> QED
      BY <1>2, <2>1
  <1>4. \A i, j, k \in S : <<i, j>> \in R /\ <<j, k>> \in R => <<i, k>> \in R
    BY <1>1, <1>2
  <1>5. \E i \in S : \A j \in S : <<i, j>> \in R
    BY <1>1, <1>3, <1>4, NewestExists
  <1>6. \E i \in S : \A j \in S : s[i].at > s[j].at \/ (s[i].at = s[j].at /\ i >= j)
    BY <1>2, <1>5
  <1> QED
    BY <1>6 DEF Newest

\* What a version is compared with comes from a receipt or an observation of it.
LEMMA BasisKnown ==
  ASSUME Typed, NEW v \in Nat, Basis(v) # Unknown
  PROVE  /\ v # 0 /\ Basis(v).verified \in Nat
         /\ \/ \E i \in DOMAIN receipts : /\ receipts[i].version = v
                                          /\ receipts[i].verified = Basis(v).verified
            \/ \E j \in DOMAIN obs : /\ obs[j].version = v /\ obs[j].decision \in Verified
                                     /\ obs[j].at = Basis(v).verified
  <1> DEFINE of == {i \in DOMAIN receipts : receipts[i].version = v}
             seen == {i \in DOMAIN obs : obs[i].version = v /\ obs[i].decision \in Verified}
             r == receipts[Newest(receipts, of)]
             o == obs[Newest(obs, seen)]
  <1>1. receipts \in Seq(Receipt) /\ obs \in Seq(Observation)
    BY DEF Typed, TypeOK
  <1>2. (\A e \in Receipt : e.at \in Nat) /\ \A e \in Observation : e.at \in Nat
    BY DEF Receipt, Observation
  <1>3. CASE v # 0 /\ of # {}
    <2>1. Basis(v) = [meta |-> r.meta, verified |-> r.verified]
      BY <1>3 DEF Basis
    <2>2. of \subseteq DOMAIN receipts
      OBVIOUS
    <2>3. Newest(receipts, of) \in of
      <3> HIDE DEF of
      <3> QED
        BY <1>1, <1>2, <1>3, <2>2, NewestMember
    <2>4. Newest(receipts, of) \in DOMAIN receipts /\ r \in Receipt /\ r.version = v
      BY <1>1, <2>3
    <2>5. Basis(v).verified = r.verified /\ r.verified \in Nat
      BY <2>1, <2>4 DEF Receipt
    <2> QED
      BY <1>3, <2>4, <2>5
  <1>4. CASE v # 0 /\ of = {} /\ seen # {}
    <2>1. Basis(v) = [meta |-> o.meta, verified |-> o.at]
      BY <1>4 DEF Basis
    <2>2. seen \subseteq DOMAIN obs
      OBVIOUS
    <2>3. Newest(obs, seen) \in seen
      <3> HIDE DEF seen
      <3> QED
        BY <1>1, <1>2, <1>4, <2>2, NewestMember
    <2>4. /\ Newest(obs, seen) \in DOMAIN obs /\ o \in Observation
          /\ o.version = v /\ o.decision \in Verified
      BY <1>1, <2>3
    <2>5. Basis(v).verified = o.at /\ o.at \in Nat
      BY <2>1, <2>4 DEF Observation
    <2> QED
      BY <1>4, <2>4, <2>5
  <1>5. CASE v = 0 \/ (of = {} /\ seen = {})
    <2>1. Basis(v) = Unknown
      BY <1>5 DEF Basis
    <2> QED
      BY <2>1
  <1> QED
    BY <1>3, <1>4, <1>5

LEMMA TypedInit == Init => Typed
  <1> SUFFICES ASSUME Init PROVE Typed
    OBVIOUS
  <1>1. fetch \in [Process -> Fetch]
    BY NoFetchTyped DEF Init
  <1>2. resource \in Resource /\ ~resource.known
    BY DEF Init, NoResource, Resource, ResourceAvailability, Availability
  <1>3. lastRun \in 0..MaxRun /\ now \in Nat
    BY ResourceVaultAssumption DEF Init
  <1>4. Len(versions) = 0 /\ versions \in Seq(Hash) /\ receipts \in Seq(Receipt)
        /\ obs \in Seq(Observation) /\ obs = <<>>
    BY DEF Init
  <1>5. TypeOK
    BY <1>1, <1>2, <1>3, <1>4 DEF Init, TypeOK, NoRepair
  <1>6. \A p \in Process : PhaseTyped(p)
    BY <1>4 DEF Init, PhaseTyped, NoFetch
  <1> QED
    BY <1>2, <1>4, <1>5, <1>6 DEF Typed, RowHasEvidence

\* A step that records nothing but changes a fetch.
LEMMA FetchOnly ==
  ASSUME Typed, fetch' \in [Process -> Fetch], \A q \in Process : PhaseTyped(q)',
         UNCHANGED <<resource, current, obs, versions, receipts, jobs, disk, repair, imported,
                     lastRun, now>>
  PROVE  Typed'
  BY DEF Typed, TypeOK, RowHasEvidence, disk

\* A step that records an observation and changes a fetch.
LEMMA ObserveOnly ==
  ASSUME Typed, NEW o \in Observation, Observe(o),
         fetch' \in [Process -> Fetch], \A q \in Process : PhaseTyped(q)',
         UNCHANGED <<current, versions, receipts, jobs, disk, repair, lastRun, now>>,
         imported' \subseteq Capture
  PROVE  Typed'
  <1>1. resource' \in Resource /\ resource'.known /\ obs' \in Seq(Observation) /\ obs' # <<>>
    BY Observing
  <1> QED
    BY <1>1 DEF Typed, TypeOK, RowHasEvidence, disk

LEMMA TypedStart ==
  ASSUME Typed, NEW p \in Process, NEW c \in {Live} \cup {d \in Capture : d.at <= now},
         NEW solo \in Solo, NEW verify \in Verify, StartRun(p, c, solo, verify)
  PROVE  Typed'
  <1> DEFINE ph == IF solo THEN "listed" ELSE "listing"
             g == [NoFetch EXCEPT !.phase = ph, !.run = lastRun + 1, !.capture = c,
                                  !.solo = solo, !.verify = verify]
  <1>1. /\ solo \in BOOLEAN /\ verify \in BOOLEAN /\ c \in Capture \cup {Live}
        /\ lastRun + 1 \in 0..MaxRun /\ lastRun + 1 \in Nat
    BY ResourceVaultAssumption DEF StartRun, Typed, TypeOK
  <1>2. g \in Fetch
    BY <1>1, NoFetchTyped DEF Fetch
  <1>3. g.solo = solo /\ g.current = 0 /\ g.phase \in {"listed", "listing"}
    BY DEF NoFetch
  <1>4. /\ fetch' = [fetch EXCEPT ![p] = g] /\ lastRun' = lastRun + 1
        /\ UNCHANGED <<resource, current, obs, versions, receipts, jobs, disk, repair,
                       imported, now>>
        /\ solo => resource.known
    BY DEF StartRun
  <1>5. Len(versions) \in Nat /\ versions \in Seq(Hash) /\ 0 \in 0..Len(versions)
    BY DEF Typed, TypeOK
  <1> HIDE DEF g, ph
  <1>6. Fits(g)
    BY <1>3, <1>4, <1>5 DEF Fits
  <1>7. fetch' \in [Process -> Fetch] /\ \A q \in Process : PhaseTyped(q)'
    BY <1>2, <1>4, <1>6, FetchTyped
  <1> QED
    BY <1>1, <1>4, <1>7 DEF Typed, TypeOK, RowHasEvidence, disk

LEMMA TypedList ==
  ASSUME Typed, NEW p \in Process, NEW m \in Meta, List(p, m)
  PROVE  Typed'
  <1> DEFINE o == Seen(p, SourceTime(p), m, "DEFERRED")
             g == [fetch[p] EXCEPT !.phase = "listed", !.meta = m]
  <1>1. fetch \in [Process -> Fetch] /\ fetch[p] \in Fetch /\ versions \in Seq(Hash)
        /\ Len(versions) \in Nat
    BY DEF Typed, TypeOK
  <1>2. o \in Observation
    BY SourceTimeNat, SeenTyped DEF Decision
  <1>3. [fetch[p] EXCEPT !.phase = "listed"] \in Fetch
    BY <1>1 DEF Fetch
  <1>4. g \in Fetch
    BY <1>1, <1>3, FetchUpdates
  <1>5. /\ g.phase = "listed" /\ g.solo = fetch[p].solo /\ g.current = fetch[p].current
        /\ PhaseTyped(p)
    BY <1>1 DEF Fetch, Typed
  <1>6. /\ Observe(o) /\ fetch' = [fetch EXCEPT ![p] = g]
        /\ UNCHANGED <<current, versions, receipts, jobs, disk, repair, imported, lastRun, now>>
    BY DEF List
  <1> HIDE DEF o, g
  <1>7. resource'.known
    BY <1>2, <1>6, Observing
  <1>8. Fits(g)
    BY <1>1, <1>5, <1>6, <1>7 DEF Fits, PhaseTyped
  <1>9. fetch' \in [Process -> Fetch] /\ \A q \in Process : PhaseTyped(q)'
    BY <1>4, <1>6, <1>8, FetchTyped
  <1> QED
    BY <1>2, <1>6, <1>9, ObserveOnly DEF Typed, TypeOK

\* A resource that is known has a newest observation.
LEMMA NewestOfAll ==
  ASSUME Typed, resource.known
  PROVE  /\ Newest(obs, DOMAIN obs) \in DOMAIN obs
         /\ obs[Newest(obs, DOMAIN obs)] \in Observation
         /\ obs[Newest(obs, DOMAIN obs)].meta \in Meta
  <1>1. obs \in Seq(Observation) /\ obs # <<>>
    BY DEF Typed, TypeOK, RowHasEvidence
  <1>2. DOMAIN obs # {}
    <2>1. Len(obs) \in Nat /\ DOMAIN obs = 1..Len(obs)
      BY <1>1
    <2>2. Len(obs) # 0
      BY <1>1
    <2> QED
      BY <2>1, <2>2
  <1>3. \A e \in Observation : e.at \in Nat
    BY DEF Observation
  <1>4. Newest(obs, DOMAIN obs) \in DOMAIN obs
    <2>1. DOMAIN obs \in SUBSET (DOMAIN obs)
      OBVIOUS
    <2> QED
      BY <1>1, <1>2, <1>3, <2>1, NewestMember
  <1>5. obs[Newest(obs, DOMAIN obs)] \in Observation
    BY <1>1, <1>4
  <1>6. \A e \in Observation : e.meta \in Meta
    BY DEF Observation
  <1> QED
    BY <1>4, <1>5, <1>6

LEMMA TypedResolve ==
  ASSUME Typed, NEW p \in Process, Resolve(p)
  PROVE  Typed'
  <1> DEFINE meta == IF fetch[p].solo THEN obs[Newest(obs, DOMAIN obs)].meta ELSE fetch[p].meta
             g == [fetch[p] EXCEPT !.phase = "resolved", !.clock = SourceTime(p), !.meta = meta]
  <1>1. /\ fetch \in [Process -> Fetch] /\ fetch[p] \in Fetch /\ PhaseTyped(p)
        /\ versions \in Seq(Hash) /\ Len(versions) \in Nat /\ obs \in Seq(Observation)
    BY DEF Typed, TypeOK
  <1>2. meta \in Meta
    <2>1. CASE fetch[p].solo
      BY <1>1, <2>1, NewestOfAll DEF PhaseTyped, Typed, RowHasEvidence
    <2>2. CASE ~fetch[p].solo
      BY <1>1, <2>2 DEF Fetch
    <2> QED
      BY <2>1, <2>2
  <1>3. [fetch[p] EXCEPT !.phase = "resolved"] \in Fetch /\ SourceTime(p) \in Nat
    BY <1>1, SourceTimeNat DEF Fetch
  <1>4. /\ fetch' = [fetch EXCEPT ![p] = g]
        /\ UNCHANGED <<resource, current, obs, versions, receipts, jobs, disk, repair,
                       imported, lastRun, now>>
    BY DEF Resolve
  <1> HIDE DEF meta
  <1>5. g \in Fetch
    BY <1>1, <1>2, <1>3, FetchUpdates
  <1>6. g.phase = "resolved" /\ g.solo = fetch[p].solo /\ g.current = fetch[p].current
    BY <1>1 DEF Fetch
  <1> HIDE DEF g
  <1>7. Fits(g)
    BY <1>1, <1>4, <1>6 DEF Fits, PhaseTyped
  <1>8. fetch' \in [Process -> Fetch] /\ \A q \in Process : PhaseTyped(q)'
    BY <1>4, <1>5, <1>7, FetchTyped
  <1> QED
    BY <1>4, <1>8, FetchOnly

LEMMA TypedReadCurrent ==
  ASSUME Typed, NEW p \in Process, ReadCurrent(p)
  PROVE  Typed'
  <1> DEFINE g == [fetch[p] EXCEPT !.phase = "judging", !.current = current]
  <1>1. /\ fetch \in [Process -> Fetch] /\ fetch[p] \in Fetch /\ PhaseTyped(p)
        /\ versions \in Seq(Hash) /\ Len(versions) \in Nat
        /\ current \in 0..Len(versions) /\ current \in Nat
    BY DEF Typed, TypeOK
  <1>2. [fetch[p] EXCEPT !.phase = "judging"] \in Fetch
    BY <1>1 DEF Fetch
  <1>3. /\ fetch' = [fetch EXCEPT ![p] = g]
        /\ UNCHANGED <<resource, current, obs, versions, receipts, jobs, disk, repair,
                       imported, lastRun, now>>
    BY DEF ReadCurrent
  <1>4. g \in Fetch
    BY <1>1, <1>2, FetchUpdates DEF Fetch
  <1>5. g.phase = "judging" /\ g.solo = fetch[p].solo /\ g.current = current
    BY <1>1 DEF Fetch
  <1> HIDE DEF g
  <1>6. Fits(g)
    BY <1>1, <1>3, <1>5 DEF Fits, PhaseTyped
  <1>7. fetch' \in [Process -> Fetch] /\ \A q \in Process : PhaseTyped(q)'
    BY <1>3, <1>4, <1>6, FetchTyped
  <1> QED
    BY <1>3, <1>7, FetchOnly

\* A skip rests on a comparison with the version found current.
LEMMA SkipHasBasis ==
  ASSUME Typed, NEW p \in Process,
         Replayed(p, Basis(fetch[p].current)) \/ Within(fetch[p], Basis(fetch[p].current))
  PROVE  Basis(fetch[p].current) # Unknown
  BY DEF Replayed, Within

LEMMA TypedDecide ==
  ASSUME Typed, NEW p \in Process, Decide(p)
  PROVE  Typed'
  <1> DEFINE basis == Basis(fetch[p].current)
             skip == Replayed(p, basis) \/ Within(fetch[p], basis)
             ph == IF skip THEN "skipping" ELSE "opening"
             t == IF skip THEN basis.verified ELSE 0
             g == [fetch[p] EXCEPT !.phase = ph, !.verified = t]
  <1>1. /\ fetch \in [Process -> Fetch] /\ fetch[p] \in Fetch /\ PhaseTyped(p)
        /\ versions \in Seq(Hash) /\ Len(versions) \in Nat /\ fetch[p].current \in Nat
        /\ fetch[p].current \in 0..Len(versions)
    BY DEF Typed, TypeOK, Fetch, PhaseTyped
  <1>2. skip => fetch[p].current # 0 /\ basis.verified \in Nat
    BY <1>1, BasisKnown, SkipHasBasis
  <1>3. /\ fetch' = [fetch EXCEPT ![p] = g]
        /\ UNCHANGED <<resource, current, obs, versions, receipts, jobs, disk, repair,
                       imported, lastRun, now>>
    BY DEF Decide
  <1> HIDE DEF basis, skip
  <1>4. [fetch[p] EXCEPT !.phase = ph] \in Fetch /\ t \in Nat
    BY <1>1, <1>2 DEF Fetch
  <1>5. ph \in {"skipping", "opening"} /\ (ph = "skipping" => skip)
    OBVIOUS
  <1> HIDE DEF ph, t
  <1>6. g \in Fetch
    BY <1>1, <1>4, FetchUpdates DEF Fetch
  <1>7. g.phase = ph /\ g.solo = fetch[p].solo /\ g.current = fetch[p].current
    BY <1>1 DEF Fetch
  <1> HIDE DEF g
  <1>8. Fits(g)
    BY <1>1, <1>2, <1>3, <1>5, <1>7 DEF Fits, PhaseTyped
  <1>9. fetch' \in [Process -> Fetch] /\ \A q \in Process : PhaseTyped(q)'
    BY <1>3, <1>6, <1>8, FetchTyped
  <1> QED
    BY <1>3, <1>9, FetchOnly

LEMMA TypedRecordSkip ==
  ASSUME Typed, NEW p \in Process, RecordSkip(p)
  PROVE  Typed'
  <1> DEFINE o == Seen(p, fetch[p].clock, fetch[p].meta, "NOT_NEEDED")
             g == [fetch[p] EXCEPT !.phase = "receipting", !.decision = "NOT_NEEDED",
                                   !.version = fetch[p].current]
  <1>1. /\ fetch \in [Process -> Fetch] /\ fetch[p] \in Fetch /\ PhaseTyped(p)
        /\ versions \in Seq(Hash) /\ Len(versions) \in Nat
        /\ fetch[p].clock \in Nat /\ fetch[p].meta \in Meta /\ fetch[p].current \in Nat
    BY DEF Typed, TypeOK, Fetch
  <1>2. o \in Observation
    BY <1>1, SeenTyped DEF Decision
  <1>3. [fetch[p] EXCEPT !.phase = "receipting"] \in Fetch /\ "NOT_NEEDED" \in Decision
    BY <1>1 DEF Fetch, Decision
  <1>4. g \in Fetch
    BY <1>1, <1>3, FetchUpdates
  <1>5. /\ g.phase = "receipting" /\ g.solo = fetch[p].solo /\ g.current = fetch[p].current
        /\ g.version = fetch[p].current
    BY <1>1 DEF Fetch
  <1>6. /\ Observe(o) /\ fetch' = [fetch EXCEPT ![p] = g] /\ fetch[p].phase = "skipping"
        /\ UNCHANGED <<current, versions, receipts, jobs, disk, repair, imported, lastRun, now>>
    BY DEF RecordSkip
  <1> HIDE DEF o, g
  <1>7. resource'.known
    BY <1>2, <1>6, Observing
  <1>8. g.version \in DOMAIN versions
    BY <1>1, <1>5, <1>6 DEF PhaseTyped
  <1>9. Fits(g)
    BY <1>1, <1>5, <1>6, <1>7, <1>8 DEF Fits, PhaseTyped
  <1>10. fetch' \in [Process -> Fetch] /\ \A q \in Process : PhaseTyped(q)'
    BY <1>4, <1>6, <1>9, FetchTyped
  <1> QED
    BY <1>2, <1>6, <1>10, ObserveOnly DEF Typed, TypeOK

LEMMA TypedRediscover ==
  ASSUME Typed, NEW p \in Process, NEW m \in Meta, Rediscover(p, m)
  PROVE  Typed'
  <1> DEFINE o == Seen(p, now, m, "DEFERRED")
             g == [fetch[p] EXCEPT !.phase = "streaming", !.meta = m, !.clock = now,
                                   !.current = 0]
  <1>1. /\ fetch \in [Process -> Fetch] /\ fetch[p] \in Fetch /\ PhaseTyped(p)
        /\ versions \in Seq(Hash) /\ Len(versions) \in Nat /\ now \in Nat
    BY DEF Typed, TypeOK
  <1>2. o \in Observation
    BY <1>1, SeenTyped DEF Decision
  <1>3. [fetch[p] EXCEPT !.phase = "streaming"] \in Fetch
    BY <1>1 DEF Fetch
  <1>4. g \in Fetch
    BY <1>1, <1>3, FetchUpdates
  <1>5. g.phase = "streaming" /\ g.solo = fetch[p].solo /\ g.current = 0
    BY <1>1 DEF Fetch
  <1>6. /\ Observe(o) /\ fetch' = [fetch EXCEPT ![p] = g]
        /\ UNCHANGED <<current, versions, receipts, jobs, disk, repair, imported, lastRun, now>>
    BY DEF Rediscover
  <1> HIDE DEF o, g
  <1>7. resource'.known
    BY <1>2, <1>6, Observing
  <1>8. Fits(g)
    BY <1>1, <1>5, <1>6, <1>7 DEF Fits
  <1>9. fetch' \in [Process -> Fetch] /\ \A q \in Process : PhaseTyped(q)'
    BY <1>4, <1>6, <1>8, FetchTyped
  <1> QED
    BY <1>2, <1>6, <1>9, ObserveOnly DEF Typed, TypeOK

LEMMA TypedOpenStream ==
  ASSUME Typed, NEW p \in Process, OpenStream(p)
  PROVE  Typed'
  <1> DEFINE g == [fetch[p] EXCEPT !.phase = "streaming", !.current = 0]
  <1>1. /\ fetch \in [Process -> Fetch] /\ fetch[p] \in Fetch /\ PhaseTyped(p)
        /\ versions \in Seq(Hash) /\ Len(versions) \in Nat
    BY DEF Typed, TypeOK
  <1>2. g \in Fetch
    BY <1>1 DEF Fetch
  <1>3. g.phase = "streaming" /\ g.solo = fetch[p].solo /\ g.current = 0
    BY <1>1 DEF Fetch
  <1>4. /\ fetch' = [fetch EXCEPT ![p] = g]
        /\ UNCHANGED <<resource, current, obs, versions, receipts, jobs, disk, repair,
                       imported, lastRun, now>>
    BY DEF OpenStream
  <1> HIDE DEF g
  <1>5. Fits(g)
    BY <1>1, <1>3, <1>4 DEF Fits, PhaseTyped
  <1>6. fetch' \in [Process -> Fetch] /\ \A q \in Process : PhaseTyped(q)'
    BY <1>2, <1>4, <1>5, FetchTyped
  <1> QED
    BY <1>4, <1>6, FetchOnly

LEMMA TypedPublishBlob ==
  ASSUME Typed, NEW p \in Process, NEW h \in Hash, PublishBlob(p, h)
  PROVE  Typed'
  <1> DEFINE g == [fetch[p] EXCEPT !.phase = "storing", !.hash = h]
  <1>1. /\ fetch \in [Process -> Fetch] /\ fetch[p] \in Fetch /\ PhaseTyped(p)
        /\ versions \in Seq(Hash) /\ Len(versions) \in Nat
    BY DEF Typed, TypeOK
  <1>2. g \in Fetch
    BY <1>1 DEF Fetch
  <1>3. g.phase = "storing" /\ g.solo = fetch[p].solo /\ g.current = fetch[p].current /\ g.hash = h
    BY <1>1 DEF Fetch
  <1>4. /\ fetch' = [fetch EXCEPT ![p] = g] /\ blobs' = blobs \cup {h}
        /\ UNCHANGED <<resource, current, obs, versions, receipts, jobs, views, pointer, owed,
                       repair, imported, lastRun, now>>
    BY DEF PublishBlob, Published
  <1> HIDE DEF g
  <1>5. Fits(g)
    BY <1>1, <1>3, <1>4 DEF Fits, PhaseTyped
  <1>6. fetch' \in [Process -> Fetch] /\ \A q \in Process : PhaseTyped(q)'
    BY <1>2, <1>4, <1>5, FetchTyped
  <1> QED
    BY <1>4, <1>6 DEF Typed, TypeOK, RowHasEvidence

\* Recording bytes: version v is the one with the hash that was streamed, and
\* o the observation that verified it.
Records(p, v, o) ==
  /\ fetch[p].phase = "storing"
  /\ v \in DOMAIN versions' /\ versions'[v] = fetch[p].hash
  /\ versions' \in Seq(Hash) /\ Len(versions) <= Len(versions')
  /\ \A n \in DOMAIN versions : n \in DOMAIN versions' /\ versions'[n] = versions[n]
  /\ \A n \in DOMAIN versions' : n \in DOMAIN versions \/ n = v
  /\ o \in Observation /\ o.at = fetch[p].clock /\ o.status = "OBSERVED"
  /\ o.decision \in Verified /\ o.version = v
  /\ current' = IF Promoted(o) THEN v ELSE current
  /\ Observe(o)
  /\ fetch' = [fetch EXCEPT ![p] = [fetch[p] EXCEPT
       !.phase = "materializing", !.version = v, !.decision = o.decision,
       !.verified = fetch[p].clock, !.hash = 0]]

LEMMA Recording ==
  ASSUME Typed, NEW p \in Process, RecordVerified(p)
  PROVE  \E v \in Nat, o \in Observation : Records(p, v, o)
  <1> DEFINE f == fetch[p]
             old == {n \in DOMAIN versions : versions[n] = f.hash}
             v == Numbered(old)
             d == IF old = {} THEN "FETCHED" ELSE "REUSED_VERIFIED"
             o == [Seen(p, f.clock, f.meta, d) EXCEPT !.version = v]
  <1>1. /\ fetch \in [Process -> Fetch] /\ f \in Fetch /\ PhaseTyped(p)
        /\ versions \in Seq(Hash) /\ f.clock \in Nat /\ f.meta \in Meta
    BY DEF Typed, TypeOK, Fetch
  <1>2. f.phase = "storing" /\ f.hash \in Hash
    BY <1>1 DEF RecordVerified, PhaseTyped
  <1>3. /\ v \in Nat /\ v \in DOMAIN versions' /\ versions'[v] = f.hash
        /\ versions' \in Seq(Hash) /\ Len(versions) <= Len(versions')
        /\ \A n \in DOMAIN versions : n \in DOMAIN versions' /\ versions'[n] = versions[n]
        /\ \A n \in DOMAIN versions' : n \in DOMAIN versions \/ n = v
    <2>1. CASE old = {}
      <3>1. versions' = Append(versions, f.hash) /\ v = Len(versions) + 1
        BY <2>1 DEF RecordVerified, Numbered
      <3>2. /\ versions' \in Seq(Hash) /\ Len(versions) \in Nat
            /\ Len(versions') = Len(versions) + 1
            /\ DOMAIN versions' = DOMAIN versions \cup {Len(versions) + 1}
            /\ versions'[Len(versions) + 1] = f.hash
            /\ \A n \in DOMAIN versions : versions'[n] = versions[n]
        BY <1>1, <1>2, <3>1, Appended
      <3> HIDE DEF old, v
      <3> QED
        BY <3>1, <3>2
    <2>2. CASE old # {}
      <3>1. versions' = versions /\ v \in old
        BY <2>2 DEF RecordVerified, Numbered
      <3>2. v \in DOMAIN versions /\ versions[v] = f.hash
        BY <3>1
      <3> HIDE DEF old, v
      <3> QED
        BY <1>1, <3>1, <3>2
    <2> QED
      BY <2>1, <2>2
  <1>4. d \in Decision /\ d \in Verified
    BY DEF Decision, Verified
  <1>5. /\ current' = IF Promoted(o) THEN v ELSE current
        /\ Observe(o)
        /\ fetch' = [fetch EXCEPT ![p] = [fetch[p] EXCEPT
             !.phase = "materializing", !.version = v, !.decision = d,
             !.verified = fetch[p].clock, !.hash = 0]]
    BY DEF RecordVerified, NoFetch
  <1> HIDE DEF v, d
  <1>6. o \in Observation
    BY <1>1, <1>3, <1>4, SeenTyped
  <1>7. o.at = f.clock /\ o.status = "OBSERVED" /\ o.decision = d /\ o.version = v
    BY DEF Seen
  <1>8. Records(p, v, o)
    <2> HIDE DEF o
    <2> QED
      BY <1>2, <1>3, <1>4, <1>5, <1>6, <1>7 DEF Records
  <1> QED
    BY <1>3, <1>6, <1>8

LEMMA TypedRecordVerified ==
  ASSUME Typed, NEW p \in Process, RecordVerified(p)
  PROVE  Typed'
  <1>1. PICK v \in Nat, o \in Observation : Records(p, v, o)
    BY Recording
  <1> DEFINE g == [fetch[p] EXCEPT !.phase = "materializing", !.version = v,
                                   !.decision = o.decision, !.verified = fetch[p].clock,
                                   !.hash = 0]
  <1>2. /\ fetch \in [Process -> Fetch] /\ fetch[p] \in Fetch /\ PhaseTyped(p)
        /\ versions \in Seq(Hash) /\ Len(versions) \in Nat /\ fetch[p].clock \in Nat
        /\ fetch[p].meta \in Meta /\ o.decision \in Decision
    BY <1>1 DEF Typed, TypeOK, Fetch, Observation
  <1>3. [fetch[p] EXCEPT !.phase = "materializing"] \in Fetch
    BY <1>2 DEF Fetch
  <1>4. g \in Fetch
    BY <1>2, <1>3, FetchUpdates
  <1>5. /\ g.phase = "materializing" /\ g.solo = fetch[p].solo
        /\ g.current = fetch[p].current /\ g.version = v
    BY <1>2 DEF Fetch
  <1>6. fetch' = [fetch EXCEPT ![p] = g] /\ Observe(o)
    BY <1>1 DEF Records
  <1>7. UNCHANGED <<receipts, jobs, disk, repair, imported, lastRun, now>>
    BY DEF RecordVerified
  <1> HIDE DEF g
  <1>8. resource' \in Resource /\ resource'.known /\ obs' \in Seq(Observation) /\ obs' # <<>>
    BY <1>6, Observing
  <1>9. /\ versions' \in Seq(Hash) /\ Len(versions') \in Nat /\ Len(versions) <= Len(versions')
        /\ DOMAIN versions \subseteq DOMAIN versions' /\ v \in DOMAIN versions'
        /\ 0..Len(versions) \subseteq 0..Len(versions')
    BY <1>1, <1>2 DEF Records
  <1>10. Fits(g)
    BY <1>2, <1>5, <1>8, <1>9 DEF Fits, PhaseTyped
  <1>11. fetch' \in [Process -> Fetch] /\ \A q \in Process : PhaseTyped(q)'
    BY <1>4, <1>6, <1>10, FetchTyped
  <1>12. current' \in 0..Len(versions')
    <2>1. v \in 0..Len(versions') /\ current \in 0..Len(versions')
      BY <1>9 DEF Typed, TypeOK
    <2> QED
      BY <1>1, <2>1 DEF Records
  <1>13. TypeOK'
    BY <1>7, <1>8, <1>9, <1>11, <1>12 DEF Typed, TypeOK, disk
  <1> QED
    BY <1>8, <1>11, <1>13 DEF Typed, RowHasEvidence

LEMMA TypedMaterialize ==
  ASSUME Typed, NEW p \in Process, Materialize(p)
  PROVE  Typed'
  <1> DEFINE g == [fetch[p] EXCEPT !.phase = "pointing"]
  <1>1. /\ fetch \in [Process -> Fetch] /\ fetch[p] \in Fetch /\ PhaseTyped(p)
        /\ versions \in Seq(Hash) /\ Len(versions) \in Nat
    BY DEF Typed, TypeOK
  <1>2. /\ g \in Fetch /\ g.phase = "pointing" /\ g.solo = fetch[p].solo
        /\ g.current = fetch[p].current /\ g.version = fetch[p].version
    BY <1>1 DEF Fetch
  <1>3. /\ fetch[p].phase = "materializing"
        /\ fetch' = [fetch EXCEPT ![p] = g] /\ views' = views \cup {fetch[p].version}
        /\ UNCHANGED <<resource, current, obs, versions, receipts, jobs, blobs, pointer, owed,
                       repair, imported, lastRun, now>>
    BY DEF Materialize
  <1> HIDE DEF g
  <1>4. Fits(g)
    BY <1>1, <1>2, <1>3 DEF Fits, PhaseTyped
  <1>5. fetch' \in [Process -> Fetch] /\ \A q \in Process : PhaseTyped(q)'
    BY <1>2, <1>3, <1>4, FetchTyped
  <1>6. fetch[p].version \in DOMAIN versions
    BY <1>1, <1>3 DEF PhaseTyped
  <1> QED
    BY <1>3, <1>5, <1>6 DEF Typed, TypeOK, RowHasEvidence

\* A fetch that goes on to its receipt keeps its version.
LEMMA ToReceipt ==
  ASSUME Typed, NEW p \in Process, fetch[p].phase \in {"materializing", "pointing"},
         fetch' = [fetch EXCEPT ![p].phase = "receipting"],
         UNCHANGED <<resource, versions>>
  PROVE  /\ fetch' \in [Process -> Fetch] /\ \A q \in Process : PhaseTyped(q)'
         /\ fetch[p].version \in DOMAIN versions
  <1> DEFINE g == [fetch[p] EXCEPT !.phase = "receipting"]
  <1>1. /\ fetch \in [Process -> Fetch] /\ fetch[p] \in Fetch /\ PhaseTyped(p)
        /\ versions \in Seq(Hash) /\ Len(versions) \in Nat
    BY DEF Typed, TypeOK
  <1>2. /\ g \in Fetch /\ g.phase = "receipting" /\ g.solo = fetch[p].solo
        /\ g.current = fetch[p].current /\ g.version = fetch[p].version
    BY <1>1 DEF Fetch
  <1>3. fetch' = [fetch EXCEPT ![p] = g]
    OBVIOUS
  <1> HIDE DEF g
  <1>4. fetch[p].version \in DOMAIN versions
    BY <1>1 DEF PhaseTyped
  <1>5. Fits(g)
    BY <1>1, <1>2, <1>4 DEF Fits, PhaseTyped
  <1> QED
    BY <1>2, <1>3, <1>4, <1>5, FetchTyped

LEMMA TypedPublishPointer ==
  ASSUME Typed, NEW p \in Process, PublishPointer(p)
  PROVE  Typed'
  <1>1. /\ fetch[p].phase \in {"materializing", "pointing"}
        /\ fetch' = [fetch EXCEPT ![p].phase = "receipting"]
        /\ pointer' = Pointed(fetch[p].version)
        /\ UNCHANGED <<resource, current, obs, versions, receipts, jobs, blobs, views, owed,
                       repair, imported, lastRun, now>>
    BY DEF PublishPointer
  <1>2. /\ fetch' \in [Process -> Fetch] /\ \A q \in Process : PhaseTyped(q)'
        /\ fetch[p].version \in DOMAIN versions
    BY <1>1, ToReceipt
  <1>3. pointer' \in 0..Len(versions)
    BY <1>1 DEF Pointed, Typed, TypeOK
  <1> QED
    BY <1>1, <1>2, <1>3 DEF Typed, TypeOK, RowHasEvidence

LEMMA TypedLoseView ==
  ASSUME Typed, NEW p \in Process, LoseView(p)
  PROVE  Typed'
  <1>1. /\ fetch[p].phase \in {"materializing", "pointing"}
        /\ fetch' = [fetch EXCEPT ![p].phase = "receipting"]
        /\ owed' = owed \cup {fetch[p].version}
        /\ UNCHANGED <<resource, current, obs, versions, receipts, jobs, blobs, views, pointer,
                       repair, imported, lastRun, now>>
    BY DEF LoseView
  <1>2. /\ fetch' \in [Process -> Fetch] /\ \A q \in Process : PhaseTyped(q)'
        /\ fetch[p].version \in DOMAIN versions
    BY <1>1, ToReceipt
  <1> QED
    BY <1>1, <1>2 DEF Typed, TypeOK, RowHasEvidence

\* A fetch that is over, or whose process died, is typed.
LEMMA Over ==
  ASSUME Typed, NEW p \in Process, fetch' = [fetch EXCEPT ![p] = NoFetch],
         versions' = versions, resource.known => resource'.known
  PROVE  fetch' \in [Process -> Fetch] /\ \A q \in Process : PhaseTyped(q)'
  <1>1. versions \in Seq(Hash) /\ Len(versions) \in Nat /\ NoFetch \in Fetch
    BY NoFetchTyped DEF Typed, TypeOK
  <1>2. NoFetch.phase = "idle" /\ ~NoFetch.solo /\ NoFetch.current = 0
    BY DEF NoFetch
  <1>3. Fits(NoFetch)
    BY <1>1, <1>2 DEF Fits
  <1> QED
    BY <1>1, <1>3, FetchTyped

LEMMA TypedPersistReceipt ==
  ASSUME Typed, NEW p \in Process, PersistReceipt(p)
  PROVE  Typed'
  <1> DEFINE r == ReceiptOf(fetch[p])
  <1>1. /\ fetch[p].phase = "receipting"
        /\ \/ receipts' = Append(receipts, r) /\ jobs' = jobs \cup {fetch[p].version}
           \/ UNCHANGED <<receipts, jobs>>
        /\ fetch' = [fetch EXCEPT ![p] = NoFetch]
        /\ imported' = imported \cup (Capture \cap {fetch[p].capture})
        /\ UNCHANGED <<resource, current, obs, versions, disk, repair, lastRun, now>>
    BY DEF PersistReceipt, Ended
  <1>2. /\ fetch[p] \in Fetch /\ PhaseTyped(p) /\ versions \in Seq(Hash)
        /\ Len(versions) \in Nat /\ receipts \in Seq(Receipt)
    BY DEF Typed, TypeOK
  <1>3. fetch[p].version \in DOMAIN versions
    BY <1>1, <1>2 DEF PhaseTyped
  <1>4. r \in Receipt
    BY <1>2, <1>3 DEF ReceiptOf, Receipt, Fetch
  <1> HIDE DEF r
  <1>5. receipts' \in Seq(Receipt) /\ jobs' \subseteq DOMAIN versions
    <2>1. Append(receipts, r) \in Seq(Receipt) /\ jobs \subseteq DOMAIN versions
      BY <1>2, <1>4, Appended DEF Typed, TypeOK
    <2> QED
      BY <1>1, <1>2, <1>3, <2>1
  <1>6. fetch' \in [Process -> Fetch] /\ \A q \in Process : PhaseTyped(q)'
    BY <1>1, Over
  <1> QED
    BY <1>1, <1>5, <1>6 DEF Typed, TypeOK, RowHasEvidence, disk

LEMMA TypedFail ==
  ASSUME Typed, NEW p \in Process, Fail(p)
  PROVE  Typed'
  <1> DEFINE o == [Seen(p, fetch[p].clock, fetch[p].meta, "FAILED") EXCEPT !.status = "UNKNOWN"]
  <1>1. /\ Observe(o) \/ UNCHANGED <<resource, obs>>
        /\ fetch' = [fetch EXCEPT ![p] = NoFetch]
        /\ imported' = imported \cup (Capture \cap {fetch[p].capture})
        /\ UNCHANGED <<current, versions, receipts, jobs, disk, repair, lastRun, now>>
    BY DEF Fail, Ended
  <1>2. fetch[p].clock \in Nat /\ fetch[p].meta \in Meta
    BY DEF Typed, TypeOK, Fetch
  <1>3. o \in Observation
    BY <1>2, SeenTyped DEF Decision
  <1> HIDE DEF o
  <1>4. CASE Observe(o)
    <2>1. resource'.known
      BY <1>3, <1>4, Observing
    <2>2. fetch' \in [Process -> Fetch] /\ \A q \in Process : PhaseTyped(q)'
      BY <1>1, <2>1, Over
    <2>3. imported' \subseteq Capture
      BY <1>1 DEF Typed, TypeOK
    <2> QED
      BY <1>1, <1>3, <1>4, <2>2, <2>3, ObserveOnly
  <1>5. CASE UNCHANGED <<resource, obs>>
    <2>1. fetch' \in [Process -> Fetch] /\ \A q \in Process : PhaseTyped(q)'
      BY <1>1, <1>5, Over
    <2> QED
      BY <1>1, <1>5, <2>1 DEF Typed, TypeOK, RowHasEvidence, disk
  <1> QED
    BY <1>1, <1>4, <1>5

LEMMA TypedCrash ==
  ASSUME Typed, NEW p \in Process, Crash(p)
  PROVE  Typed'
  <1>1. /\ fetch' = [fetch EXCEPT ![p] = NoFetch]
        /\ owed' = IF fetch[p].phase \in {"materializing", "pointing"}
                   THEN owed \cup {fetch[p].version} ELSE owed
        /\ UNCHANGED <<resource, current, obs, versions, receipts, jobs, blobs, views, pointer,
                       repair, imported, lastRun, now>>
    BY DEF Crash
  <1>2. fetch' \in [Process -> Fetch] /\ \A q \in Process : PhaseTyped(q)'
    BY <1>1, Over
  <1>3. owed' \subseteq DOMAIN versions
    BY <1>1 DEF Typed, TypeOK, PhaseTyped
  <1> QED
    BY <1>1, <1>2, <1>3 DEF Typed, TypeOK, RowHasEvidence

\* A step that leaves the fetches alone, the versions and whether the row exists.
LEMMA FetchesTyped ==
  ASSUME Typed, UNCHANGED <<fetch, versions>>, resource.known => resource'.known
  PROVE  fetch' \in [Process -> Fetch] /\ \A q \in Process : PhaseTyped(q)'
  BY DEF Typed, TypeOK, PhaseTyped

LEMMA TypedOmit ==
  ASSUME Typed, Omit
  PROVE  Typed'
  <1> DEFINE o == [at |-> now, run |-> lastRun + 1, status |-> "NOT_OBSERVED",
                   avail |-> "MISSING", meta |-> obs[Newest(obs, DOMAIN obs)].meta,
                   decision |-> "DEFERRED", version |-> 0]
  <1>1. /\ resource.known /\ lastRun < MaxRun
        /\ obs' = Append(obs, o) /\ resource' = Omitted(resource, obs', o)
        /\ lastRun' = lastRun + 1
        /\ UNCHANGED <<current, versions, receipts, jobs, disk, fetch, repair, imported, now>>
    BY DEF Omit
  <1>2. /\ obs \in Seq(Observation) /\ resource \in Resource /\ now \in Nat
        /\ lastRun + 1 \in 0..MaxRun /\ lastRun + 1 \in Nat
    BY <1>1, ResourceVaultAssumption DEF Typed, TypeOK
  <1>3. o \in Observation
    <2>1. obs[Newest(obs, DOMAIN obs)].meta \in Meta
      BY <1>1, NewestOfAll
    <2> QED
      BY <1>2, <2>1 DEF Observation, Status, ResourceAvailability, Decision
  <1> HIDE DEF o
  <1>4. obs' \in Seq(Observation) /\ obs' # <<>>
    <2>1. obs' \in Seq(Observation) /\ Len(obs') = Len(obs) + 1 /\ Len(obs) \in Nat
      BY <1>1, <1>2, <1>3, Appended
    <2> QED
      BY <2>1
  <1>5. resource' \in Resource /\ resource'.known
    BY <1>1, <1>2, OmittedKnown
  <1>6. fetch' \in [Process -> Fetch] /\ \A q \in Process : PhaseTyped(q)'
    BY <1>1, <1>5, FetchesTyped
  <1> QED
    BY <1>1, <1>2, <1>4, <1>5, <1>6 DEF Typed, TypeOK, RowHasEvidence, disk

LEMMA TypedRepair ==
  ASSUME Typed, BeginRepair \/ FinishRepair
  PROVE  Typed'
  <1>1. /\ UNCHANGED <<resource, current, obs, versions, receipts, jobs, blobs, fetch, imported,
                       lastRun, now>>
        /\ fetch' \in [Process -> Fetch] /\ \A q \in Process : PhaseTyped(q)'
    BY FetchesTyped DEF BeginRepair, FinishRepair, disk
  <1>2. /\ versions \in Seq(Hash) /\ Len(versions) \in Nat /\ DOMAIN versions = 1..Len(versions)
        /\ repair.upTo \in 0..Len(versions) /\ current \in 0..Len(versions)
        /\ pointer \in 0..Len(versions) /\ repair.current \in 0..Len(versions)
        /\ owed \subseteq DOMAIN versions /\ views \subseteq DOMAIN versions
    BY DEF Typed, TypeOK
  <1>3. /\ views' \subseteq DOMAIN versions /\ owed' \subseteq DOMAIN versions
        /\ pointer' \in 0..Len(versions)
        /\ repair' \in [active : BOOLEAN, upTo : 0..Len(versions), current : 0..Len(versions)]
    <2>1. CASE BeginRepair
      BY <1>2, <2>1 DEF BeginRepair, disk
    <2>2. CASE FinishRepair
      <3>1. /\ views' = views \cup 1..repair.upTo
            /\ pointer' \in {pointer, repair.current}
            /\ owed' \subseteq owed
            /\ repair' = NoRepair
        BY <2>2 DEF FinishRepair, Pointed
      <3>2. 1..repair.upTo \subseteq DOMAIN versions
        BY <1>2
      <3> QED
        BY <1>2, <3>1, <3>2 DEF NoRepair
    <2> QED
      BY <2>1, <2>2
  <1> QED
    BY <1>1, <1>3 DEF Typed, TypeOK, RowHasEvidence

LEMMA TypedTick ==
  ASSUME Typed, Tick \/ UNCHANGED vars
  PROVE  Typed'
  <1>1. /\ UNCHANGED <<resource, current, obs, versions, receipts, jobs, blobs, views, pointer,
                       owed, fetch, repair, imported, lastRun>>
        /\ now' \in Nat
    BY DEF Tick, vars, disk, Typed, TypeOK
  <1>2. fetch' \in [Process -> Fetch] /\ \A q \in Process : PhaseTyped(q)'
    BY <1>1, FetchesTyped
  <1> QED
    BY <1>1, <1>2 DEF Typed, TypeOK, RowHasEvidence

LEMMA TypedStep == Typed /\ [Next]_vars => Typed'
  BY TypedStart, TypedList, TypedResolve, TypedReadCurrent, TypedDecide, TypedRecordSkip,
     TypedRediscover, TypedOpenStream, TypedPublishBlob, TypedRecordVerified, TypedMaterialize,
     TypedPublishPointer, TypedLoseView, TypedPersistReceipt, TypedFail, TypedCrash, TypedOmit,
     TypedRepair, TypedTick DEF Next

LEMMA TypedAlways == Spec => []Typed
  BY TypedInit, TypedStep, PTL DEF Spec

\* Every step keeps the rows, fetches and files of their types.
THEOREM VaultTypeOK == Spec => []TypeOK
  BY TypedAlways, PTL DEF Typed
-----------------------------------------------------------------------------
(***************************************************************************)
(* Files.  Bytes reach the object store before the row that names them,    *)
(* and a version reaches the browse view before the pointer.               *)
(***************************************************************************)
FilesReady(p) ==
  /\ fetch[p].phase = "storing" => fetch[p].hash \in blobs
  /\ fetch[p].phase = "pointing" => fetch[p].version \in views

BytesInv ==
  /\ BytesBehindEverything
  /\ \A p \in Process : FilesReady(p)
  /\ repair.current <= repair.upTo

\* The steps up to the download leave p's fetch before any version.
EarlyStep(p) ==
  \/ \E c \in {Live} \cup {d \in Capture : d.at <= now}, solo \in Solo, verify \in Verify :
       StartRun(p, c, solo, verify)
  \/ \E m \in Meta : List(p, m)
  \/ Resolve(p)
  \/ ReadCurrent(p)
  \/ \E m \in Meta : Rediscover(p, m)
  \/ OpenStream(p)

LEMMA Early ==
  ASSUME Typed, NEW p \in Process, EarlyStep(p)
  PROVE  /\ UNCHANGED <<current, versions, receipts, disk, repair>>
         /\ fetch[p].phase \in {"idle", "listing", "listed", "resolved", "opening"}
         /\ fetch'[p].phase \in {"listing", "listed", "resolved", "judging", "streaming"}
         /\ \A q \in Process : q # p => fetch'[q] = fetch[q]
  <1>1. fetch \in [Process -> Fetch]
    BY DEF Typed, TypeOK
  <1>2. /\ UNCHANGED <<current, versions, receipts, disk, repair>>
        /\ fetch[p].phase \in {"idle", "listing", "listed", "resolved", "opening"}
        /\ \A q \in Process : q # p => fetch'[q] = fetch[q]
    BY <1>1 DEF EarlyStep, StartRun, List, Resolve, ReadCurrent, Rediscover, OpenStream
  <1>3. ASSUME NEW c \in {Live} \cup {d \in Capture : d.at <= now}, NEW solo \in Solo,
               NEW verify \in Verify, StartRun(p, c, solo, verify)
        PROVE  fetch'[p].phase \in {"listing", "listed"}
    <2> DEFINE ph == IF solo THEN "listed" ELSE "listing"
    <2>1. fetch'[p].phase = ph
      BY <1>1, <1>3, Zenon DEF StartRun, NoFetch
    <2> QED
      BY <2>1
  <1>4. ASSUME \/ \E m \in Meta : List(p, m)
               \/ Resolve(p)
               \/ ReadCurrent(p)
        PROVE  fetch'[p].phase \in {"listed", "resolved", "judging"}
    BY <1>1, <1>4 DEF List, Resolve, ReadCurrent, Fetch
  <1>5. ASSUME NEW m \in Meta, Rediscover(p, m)
        PROVE  fetch'[p].phase = "streaming"
    <2> DEFINE g == [fetch[p] EXCEPT !.phase = "streaming", !.meta = m, !.clock = now,
                                     !.current = 0]
    <2>1. fetch' = [fetch EXCEPT ![p] = g]
      BY <1>5 DEF Rediscover
    <2>2. g.phase = "streaming"
      BY <1>1 DEF Fetch
    <2> HIDE DEF g
    <2> QED
      BY <1>1, <2>1, <2>2
  <1>6. ASSUME OpenStream(p)
        PROVE  fetch'[p].phase = "streaming"
    BY <1>1, <1>6 DEF OpenStream, Fetch
  <1> QED
    BY <1>2, <1>3, <1>4, <1>5, <1>6 DEF EarlyStep

\* A step of p that touches no version and no file.
QuietStep(p) ==
  \/ EarlyStep(p)
  \/ Decide(p)
  \/ RecordSkip(p)
  \/ LoseView(p)
  \/ PersistReceipt(p)
  \/ Fail(p)
  \/ Crash(p)

LEMMA Quiet ==
  ASSUME Typed, NEW p \in Process, QuietStep(p)
  PROVE  /\ UNCHANGED <<current, versions, blobs, views, pointer, repair>>
         /\ owed \subseteq owed'
         /\ fetch[p].phase \in {"materializing", "pointing"} => fetch[p].version \in owed'
         /\ fetch'[p].phase \notin {"storing", "materializing", "pointing"}
         /\ \A q \in Process : q # p => fetch'[q] = fetch[q]
  <1>1. fetch \in [Process -> Fetch]
    BY DEF Typed, TypeOK
  <1>2. CASE EarlyStep(p)
    BY <1>2, Early DEF disk
  <1>3. CASE Decide(p) \/ RecordSkip(p)
    BY <1>1, <1>3 DEF Decide, RecordSkip, disk, Fetch
  <1>4. CASE LoseView(p)
    BY <1>1, <1>4 DEF LoseView, Fetch
  <1>5. CASE PersistReceipt(p) \/ Fail(p) \/ Crash(p)
    BY <1>1, <1>5 DEF PersistReceipt, Fail, Crash, Ended, NoFetch, disk
  <1> QED
    BY <1>2, <1>3, <1>4, <1>5 DEF QuietStep

\* What a step does, as far as versions and files go.
LEMMA VaultSteps ==
  ASSUME [Next]_vars
  PROVE  \/ \E p \in Process : \/ QuietStep(p)
                               \/ \E h \in Hash : PublishBlob(p, h)
                               \/ RecordVerified(p)
                               \/ Materialize(p)
                               \/ PublishPointer(p)
         \/ BeginRepair
         \/ FinishRepair
         \/ UNCHANGED <<current, versions, blobs, views, pointer, owed, fetch, repair>>
  BY DEF Next, QuietStep, EarlyStep, Omit, Tick, vars, disk

LEMMA BytesInit == Init => BytesInv
  BY DEF Init, BytesInv, BytesBehindEverything, FilesReady, NoFetch, NoRepair

\* The other fetches' files stay.
LEMMA OthersReady ==
  ASSUME BytesInv, NEW p \in Process, blobs \subseteq blobs', views \subseteq views',
         \A q \in Process : q # p => fetch'[q] = fetch[q],
         FilesReady(p)'
  PROVE  \A q \in Process : FilesReady(q)'
  BY DEF BytesInv, FilesReady

LEMMA BytesStep == Typed /\ BytesInv /\ [Next]_vars => BytesInv'
  <1> SUFFICES ASSUME Typed, BytesInv, [Next]_vars PROVE BytesInv'
    OBVIOUS
  <1>1. /\ fetch \in [Process -> Fetch] /\ versions \in Seq(Hash) /\ Len(versions) \in Nat
        /\ DOMAIN versions = 1..Len(versions)
        /\ repair.upTo \in Nat /\ repair.current \in Nat /\ current \in 0..Len(versions)
    BY DEF Typed, TypeOK
  <1>2. ASSUME NEW p \in Process, QuietStep(p) PROVE BytesInv'
    <2>1. /\ UNCHANGED <<current, versions, blobs, views, pointer, repair>>
          /\ fetch'[p].phase \notin {"storing", "materializing", "pointing"}
          /\ \A q \in Process : q # p => fetch'[q] = fetch[q]
      BY <1>2, Quiet
    <2>2. FilesReady(p)'
      BY <2>1 DEF FilesReady
    <2>3. \A q \in Process : FilesReady(q)'
      BY <2>1, <2>2, OthersReady
    <2> QED
      BY <2>1, <2>3 DEF BytesInv, BytesBehindEverything
  <1>3. ASSUME NEW p \in Process, NEW h \in Hash, PublishBlob(p, h) PROVE BytesInv'
    <2>1. /\ UNCHANGED <<versions, views, pointer, repair>> /\ blobs' = blobs \cup {h}
          /\ \A q \in Process : q # p => fetch'[q] = fetch[q]
      BY <1>1, <1>3 DEF PublishBlob, Published
    <2>2. fetch'[p].phase = "storing" /\ fetch'[p].hash = h
      BY <1>1, <1>3 DEF PublishBlob, Fetch
    <2>3. FilesReady(p)'
      BY <2>1, <2>2 DEF FilesReady
    <2>4. \A q \in Process : FilesReady(q)'
      BY <2>1, <2>3, OthersReady
    <2> QED
      BY <2>1, <2>4 DEF BytesInv, BytesBehindEverything
  <1>4. ASSUME NEW p \in Process, RecordVerified(p) PROVE BytesInv'
    <2>1. PICK v \in Nat, o \in Observation : Records(p, v, o)
      BY <1>4, Recording
    <2>2. /\ UNCHANGED <<blobs, views, pointer, repair>>
          /\ \A q \in Process : q # p => fetch'[q] = fetch[q]
      BY <1>1, <1>4 DEF RecordVerified, disk
    <2>3. fetch'[p].phase = "materializing"
      BY <1>1, <2>1 DEF Records, Fetch
    <2>4. \A q \in Process : FilesReady(q)'
      BY <2>2, <2>3, OthersReady DEF FilesReady
    <2>5. \A n \in DOMAIN versions' : versions'[n] \in blobs
      BY <2>1 DEF Records, BytesInv, BytesBehindEverything, FilesReady
    <2> QED
      BY <2>2, <2>4, <2>5 DEF BytesInv, BytesBehindEverything
  <1>5. ASSUME NEW p \in Process, Materialize(p) PROVE BytesInv'
    <2>1. /\ UNCHANGED <<versions, blobs, pointer, repair>>
          /\ views' = views \cup {fetch[p].version}
          /\ \A q \in Process : q # p => fetch'[q] = fetch[q]
      BY <1>1, <1>5 DEF Materialize
    <2>2. fetch'[p].phase = "pointing" /\ fetch'[p].version = fetch[p].version
      BY <1>1, <1>5 DEF Materialize, Fetch
    <2>3. FilesReady(p)'
      BY <2>1, <2>2 DEF FilesReady
    <2>4. \A q \in Process : FilesReady(q)'
      BY <2>1, <2>3, OthersReady
    <2> QED
      BY <2>1, <2>4 DEF BytesInv, BytesBehindEverything
  <1>6. ASSUME NEW p \in Process, PublishPointer(p) PROVE BytesInv'
    <2>1. /\ UNCHANGED <<versions, blobs, views, repair>>
          /\ fetch[p].phase = "pointing" /\ pointer' \in {pointer, fetch[p].version}
          /\ \A q \in Process : q # p => fetch'[q] = fetch[q]
      BY <1>1, <1>6 DEF PublishPointer, Pointed
    <2>2. fetch'[p].phase = "receipting"
      BY <1>1, <1>6 DEF PublishPointer, Fetch
    <2>3. \A q \in Process : FilesReady(q)'
      BY <2>1, <2>2, OthersReady DEF FilesReady
    <2>4. pointer' \in views \cup {0}
      BY <2>1 DEF BytesInv, BytesBehindEverything, FilesReady
    <2> QED
      BY <2>1, <2>3, <2>4 DEF BytesInv, BytesBehindEverything
  <1>7. CASE BeginRepair
    BY <1>1, <1>7 DEF BeginRepair, BytesInv, BytesBehindEverything, FilesReady, disk
  <1>8. CASE FinishRepair
    <2>1. /\ UNCHANGED <<versions, blobs, fetch>> /\ repair' = NoRepair
          /\ views' = views \cup 1..repair.upTo
          /\ pointer' = pointer \/ (pointer' = repair.current /\ repair.current # 0)
      BY <1>8 DEF FinishRepair, Pointed
    <2>2. pointer' \in views' \cup {0}
      BY <1>1, <2>1 DEF BytesInv, BytesBehindEverything
    <2>3. repair'.current <= repair'.upTo
      BY <2>1 DEF NoRepair
    <2> QED
      BY <2>1, <2>2, <2>3 DEF BytesInv, BytesBehindEverything, FilesReady
  <1>9. CASE UNCHANGED <<current, versions, blobs, views, pointer, owed, fetch, repair>>
    BY <1>9 DEF BytesInv, BytesBehindEverything, FilesReady
  <1> QED
    BY <1>2, <1>3, <1>4, <1>5, <1>6, <1>7, <1>8, <1>9, VaultSteps

LEMMA BytesAlways == Spec => [](Typed /\ BytesInv)
  BY TypedInit, TypedStep, BytesInit, BytesStep, PTL DEF Spec

\* The bytes of every version are in the object store, and the pointer of the
\* browse view leads to a file, whoever dies when (_publish_blob before
\* _record, _materialize_version before _publish_current_if_authoritative).
THEOREM VaultBytes == Spec => []BytesBehindEverything
  BY BytesAlways, PTL DEF BytesInv
-----------------------------------------------------------------------------
(***************************************************************************)
(* The browse view.  That no version is forgotten is inductive, given that *)
(* the file of a version about to be pointed at is there, and that a       *)
(* repair read its current version among those whose files it makes.       *)
(***************************************************************************)
CatchesUp(v) == Shown(v) \/ InFlight(v) \/ v \in owed

LEMMA ViewsInit == Init => ViewsCatchUp
  BY DEF Init, ViewsCatchUp

\* A version stays shown if its file stays and neither current nor the pointer
\* moves; it stays in flight if its fetch is another's.
LEMMA StaysUp ==
  ASSUME NEW p \in Process, \A q \in Process : q # p => fetch'[q] = fetch[q],
         UNCHANGED <<current, pointer>>, views \subseteq views', owed \subseteq owed',
         NEW v, CatchesUp(v),
         /\ fetch[p].phase \in {"materializing", "pointing"}
         /\ fetch[p].version = v
         => CatchesUp(v)'
  PROVE  CatchesUp(v)'
  <1>1. CASE Shown(v)
    BY <1>1 DEF Shown, CatchesUp
  <1>2. CASE v \in owed
    BY <1>2 DEF CatchesUp
  <1>3. CASE InFlight(v)
    <2>1. PICK q \in Process :
            fetch[q].phase \in {"materializing", "pointing"} /\ fetch[q].version = v
      BY <1>3 DEF InFlight
    <2>2. CASE q = p
      BY <2>1, <2>2
    <2>3. CASE q # p
      BY <2>1, <2>3 DEF InFlight, CatchesUp
    <2> QED
      BY <2>2, <2>3
  <1> QED
    BY <1>1, <1>2, <1>3 DEF CatchesUp

LEMMA ViewsStep == Typed /\ BytesInv /\ ViewsCatchUp /\ [Next]_vars => ViewsCatchUp'
  <1> SUFFICES ASSUME Typed, BytesInv, ViewsCatchUp, [Next]_vars,
                      NEW v \in DOMAIN versions'
               PROVE  CatchesUp(v)'
    BY DEF ViewsCatchUp, CatchesUp
  <1>1. /\ fetch \in [Process -> Fetch] /\ versions \in Seq(Hash) /\ Len(versions) \in Nat
        /\ DOMAIN versions = 1..Len(versions) /\ current \in Nat
        /\ repair.upTo \in Nat /\ repair.current \in Nat
    BY DEF Typed, TypeOK
  <1>2. v \in DOMAIN versions => CatchesUp(v)
    BY DEF ViewsCatchUp, CatchesUp
  <1>3. ASSUME NEW p \in Process, QuietStep(p) PROVE CatchesUp(v)'
    <2>1. /\ UNCHANGED <<current, versions, views, pointer>> /\ owed \subseteq owed'
          /\ fetch[p].phase \in {"materializing", "pointing"} => fetch[p].version \in owed'
          /\ \A q \in Process : q # p => fetch'[q] = fetch[q]
      BY <1>3, Quiet
    <2>2. /\ fetch[p].phase \in {"materializing", "pointing"}
          /\ fetch[p].version = v
          => CatchesUp(v)'
      BY <2>1 DEF CatchesUp
    <2> QED
      BY <1>2, <2>1, <2>2, StaysUp
  <1>4. ASSUME NEW p \in Process, NEW h \in Hash, PublishBlob(p, h) PROVE CatchesUp(v)'
    <2>1. /\ UNCHANGED <<current, versions, views, pointer, owed>>
          /\ fetch[p].phase = "streaming"
          /\ \A q \in Process : q # p => fetch'[q] = fetch[q]
      BY <1>1, <1>4 DEF PublishBlob
    <2> QED
      BY <1>2, <2>1, StaysUp
  <1>5. ASSUME NEW p \in Process, RecordVerified(p) PROVE CatchesUp(v)'
    <2>1. PICK n \in Nat, o \in Observation : Records(p, n, o)
      BY <1>5, Recording
    <2>2. /\ UNCHANGED <<views, pointer, owed>>
          /\ \A q \in Process : q # p => fetch'[q] = fetch[q]
      BY <1>1, <1>5 DEF RecordVerified, disk
    <2>3. fetch'[p].phase = "materializing" /\ fetch'[p].version = n
      BY <1>1, <2>1 DEF Records, Fetch
    <2>4. CASE v = n
      BY <2>3, <2>4 DEF InFlight, CatchesUp
    <2>5. CASE v # n
      <3>1. v \in DOMAIN versions /\ fetch[p].phase = "storing"
            /\ current' \in {current, n}
        BY <2>1, <2>5 DEF Records
      <3>2. CASE Shown(v)
        BY <2>2, <2>5, <3>1, <3>2 DEF Shown, CatchesUp
      <3>3. CASE InFlight(v)
        BY <2>2, <3>1, <3>3 DEF InFlight, CatchesUp
      <3>4. CASE v \in owed
        BY <2>2, <3>4 DEF CatchesUp
      <3> QED
        BY <1>2, <3>1, <3>2, <3>3, <3>4 DEF CatchesUp
    <2> QED
      BY <2>4, <2>5
  <1>6. ASSUME NEW p \in Process, Materialize(p) PROVE CatchesUp(v)'
    <2>1. /\ UNCHANGED <<current, versions, pointer, owed>> /\ views \subseteq views'
          /\ \A q \in Process : q # p => fetch'[q] = fetch[q]
      BY <1>1, <1>6 DEF Materialize
    <2>2. fetch'[p].phase = "pointing" /\ fetch'[p].version = fetch[p].version
      BY <1>1, <1>6 DEF Materialize, Fetch
    <2>3. fetch[p].version = v => CatchesUp(v)'
      BY <2>2 DEF InFlight, CatchesUp
    <2> QED
      BY <1>2, <2>1, <2>3, StaysUp
  <1>7. ASSUME NEW p \in Process, PublishPointer(p) PROVE CatchesUp(v)'
    <2>1. /\ UNCHANGED <<current, versions, views, owed>>
          /\ fetch[p].phase = "pointing"
          /\ pointer' = IF current = fetch[p].version THEN current ELSE pointer
          /\ \A q \in Process : q # p => fetch'[q] = fetch[q]
      BY <1>1, <1>7 DEF PublishPointer, Pointed
    <2>2. v \in DOMAIN versions /\ fetch[p].version \in views
      BY <2>1 DEF BytesInv, FilesReady
    <2>3. CASE Shown(v) \/ fetch[p].version = v
      BY <2>1, <2>2, <2>3 DEF Shown, CatchesUp
    <2>4. CASE InFlight(v) /\ fetch[p].version # v
      BY <2>1, <2>4 DEF InFlight, CatchesUp
    <2>5. CASE v \in owed
      BY <2>1, <2>5 DEF CatchesUp
    <2> QED
      BY <1>2, <2>2, <2>3, <2>4, <2>5 DEF CatchesUp
  <1>8. CASE FinishRepair
    <2> DEFINE stale == IF current = repair.current THEN {} ELSE {current}
    <2>1. /\ UNCHANGED <<current, versions, fetch>>
          /\ views' = views \cup 1..repair.upTo
          /\ pointer' = IF repair.current # 0 /\ current = repair.current
                        THEN current ELSE pointer
          /\ owed' = owed \ (1..repair.upTo \ stale)
      BY <1>8 DEF FinishRepair, Pointed
    <2>2. v \in DOMAIN versions /\ v # 0
      BY <1>1, <2>1
    <2>3. CASE Shown(v)
      BY <2>1, <2>2, <2>3 DEF Shown, CatchesUp
    <2>4. CASE InFlight(v)
      BY <2>1, <2>4 DEF InFlight, CatchesUp
    <2>5. CASE v \in owed
      <3>1. CASE v \in owed'
        BY <3>1 DEF CatchesUp
      <3>2. CASE v \notin owed'
        <4>1. v \in 1..repair.upTo /\ v \notin stale
          BY <2>1, <2>5, <3>2
        <4>2. v = current => current = repair.current
          BY <4>1
        <4> QED
          BY <2>1, <2>2, <4>1, <4>2 DEF Shown, CatchesUp
      <3> QED
        BY <3>1, <3>2
    <2> QED
      BY <1>2, <2>2, <2>3, <2>4, <2>5 DEF CatchesUp
  <1>9. CASE BeginRepair \/ UNCHANGED <<current, versions, blobs, views, pointer, owed, fetch,
                                        repair>>
    BY <1>2, <1>9 DEF BeginRepair, disk, CatchesUp, Shown, InFlight
  <1> QED
    BY <1>3, <1>4, <1>5, <1>6, <1>7, <1>8, <1>9, VaultSteps

\* The browse view lacks a version, or points past the current one, only while
\* a fetch is about to publish it or when one died or failed doing so, with
\* any number of fetches and repairs at once (_publish_current_if_authoritative,
\* repair_views).
THEOREM VaultViews == Spec => []ViewsCatchUp
  BY TypedInit, TypedStep, BytesInit, BytesStep, ViewsInit, ViewsStep, PTL DEF Spec
-----------------------------------------------------------------------------
(***************************************************************************)
(* Evidence.  Observations are only added, and those of a version's bytes  *)
(* are sightings.                                                          *)
(***************************************************************************)
\* At most one observation is added; if it is of bytes, it is a sighting.
Observes ==
  \/ UNCHANGED obs
  \/ \E o \in Observation : /\ obs' = Append(obs, o)
                            /\ o.version # 0 => o.status = "OBSERVED"

LEMMA ObserveObserves ==
  ASSUME NEW o \in Observation, Observe(o), o.version = 0 \/ o.status = "OBSERVED"
  PROVE  Observes
  BY DEF Observe, Observes

LEMMA ObsSteps ==
  ASSUME Typed, [Next]_vars
  PROVE  Observes
  <1>1. ASSUME NEW p \in Process, NEW m \in Meta, List(p, m) \/ Rediscover(p, m)
        PROVE  Observes
    <2> DEFINE a == Seen(p, SourceTime(p), m, "DEFERRED")
               b == Seen(p, now, m, "DEFERRED")
    <2>1. Observe(a) \/ Observe(b)
      BY <1>1 DEF List, Rediscover
    <2>2. a \in Observation /\ b \in Observation
      BY SourceTimeNat, SeenTyped DEF Decision, Typed, TypeOK
    <2>3. a.version = 0 /\ b.version = 0
      BY DEF Seen
    <2> HIDE DEF a, b
    <2> QED
      BY <2>1, <2>2, <2>3, ObserveObserves
  <1>2. ASSUME NEW p \in Process, RecordSkip(p) \/ Fail(p)
        PROVE  Observes
    <2> DEFINE a == Seen(p, fetch[p].clock, fetch[p].meta, "NOT_NEEDED")
               b == [Seen(p, fetch[p].clock, fetch[p].meta, "FAILED") EXCEPT !.status = "UNKNOWN"]
    <2>1. Observe(a) \/ Observe(b) \/ UNCHANGED obs
      BY <1>2 DEF RecordSkip, Fail
    <2>2. fetch[p].clock \in Nat /\ fetch[p].meta \in Meta
      BY DEF Typed, TypeOK, Fetch
    <2>3. a \in Observation /\ b \in Observation
      BY <2>2, SeenTyped DEF Decision
    <2>4. a.version = 0 /\ b.version = 0
      BY DEF Seen
    <2> HIDE DEF a, b
    <2> QED
      BY <2>1, <2>3, <2>4, ObserveObserves DEF Observes
  <1>3. ASSUME NEW p \in Process, RecordVerified(p)
        PROVE  Observes
    <2>1. PICK v \in Nat, o \in Observation : Records(p, v, o)
      BY <1>3, Recording
    <2> QED
      BY <2>1, ObserveObserves DEF Records
  <1>4. ASSUME Omit PROVE Observes
    <2> DEFINE o == [at |-> now, run |-> lastRun + 1, status |-> "NOT_OBSERVED",
                     avail |-> "MISSING", meta |-> obs[Newest(obs, DOMAIN obs)].meta,
                     decision |-> "DEFERRED", version |-> 0]
    <2>1. obs' = Append(obs, o) /\ resource.known /\ lastRun < MaxRun
      BY <1>4 DEF Omit
    <2>2. obs[Newest(obs, DOMAIN obs)].meta \in Meta
      BY <2>1, NewestOfAll
    <2>3. now \in Nat /\ lastRun + 1 \in Nat
      BY DEF Typed, TypeOK
    <2>4. o \in Observation /\ o.version = 0
      BY <2>2, <2>3 DEF Observation, Status, ResourceAvailability, Decision
    <2> HIDE DEF o
    <2> QED
      BY <2>1, <2>4 DEF Observes
  <1>5. ASSUME NEW p \in Process,
               \/ \E c \in {Live} \cup {d \in Capture : d.at <= now}, solo \in Solo,
                    verify \in Verify : StartRun(p, c, solo, verify)
               \/ Resolve(p) \/ ReadCurrent(p) \/ Decide(p) \/ OpenStream(p)
               \/ \E h \in Hash : PublishBlob(p, h)
               \/ Materialize(p) \/ PublishPointer(p) \/ LoseView(p)
               \/ PersistReceipt(p) \/ Crash(p)
        PROVE  Observes
    BY <1>5 DEF Observes, StartRun, Resolve, ReadCurrent, Decide, OpenStream, PublishBlob,
                Materialize, PublishPointer, LoseView, PersistReceipt, Crash
  <1>6. ASSUME BeginRepair \/ FinishRepair \/ Tick \/ UNCHANGED vars PROVE Observes
    BY <1>6 DEF Observes, BeginRepair, FinishRepair, Tick, vars
  <1> QED
    BY <1>1, <1>2, <1>3, <1>4, <1>5, <1>6 DEF Next

LEMMA ObsGrow ==
  ASSUME Typed, Observes
  PROVE  \A j \in DOMAIN obs : j \in DOMAIN obs' /\ obs'[j] = obs[j]
  <1>1. ASSUME NEW o \in Observation, obs' = Append(obs, o)
        PROVE  \A j \in DOMAIN obs : j \in DOMAIN obs' /\ obs'[j] = obs[j]
    <2>1. obs \in Seq(Observation)
      BY DEF Typed, TypeOK
    <2> QED
      BY <1>1, <2>1, Appended
  <1> QED
    BY <1>1 DEF Observes

VerifiedSeen == \A i \in DOMAIN obs : obs[i].version # 0 => obs[i].status = "OBSERVED"

LEMMA SeenStep == Typed /\ VerifiedSeen /\ [Next]_vars => VerifiedSeen'
  <1> SUFFICES ASSUME Typed, VerifiedSeen, [Next]_vars PROVE VerifiedSeen'
    OBVIOUS
  <1>1. CASE UNCHANGED obs
    BY <1>1 DEF VerifiedSeen
  <1>2. ASSUME NEW o \in Observation, obs' = Append(obs, o), o.version # 0 => o.status = "OBSERVED"
        PROVE  VerifiedSeen'
    <2>1. /\ DOMAIN obs' = DOMAIN obs \cup {Len(obs) + 1} /\ obs'[Len(obs) + 1] = o
          /\ \A j \in DOMAIN obs : obs'[j] = obs[j]
      BY <1>2, Appended DEF Typed, TypeOK
    <2> QED
      BY <1>2, <2>1 DEF VerifiedSeen
  <1> QED
    BY <1>1, <1>2, ObsSteps DEF Observes

\* Which version is current changes only when bytes are recorded, and then only
\* if no sighting is later.
LEMMA CurrentStep ==
  ASSUME Typed, VerifiedSeen, [Next]_vars, current' # current
  PROVE  \A i \in DOMAIN obs : obs[i].version # 0 => ~After(obs[i], obs'[Len(obs')])
  <1>1. PICK p \in Process : RecordVerified(p)
    <2>1. \A p \in Process : QuietStep(p) => UNCHANGED current
      BY Quiet
    <2> QED
      BY <2>1, VaultSteps DEF PublishBlob, Materialize, PublishPointer, BeginRepair,
                              FinishRepair
  <1>2. PICK v \in Nat, o \in Observation : Records(p, v, o)
    BY <1>1, Recording
  <1>3. Observe(o) /\ Promoted(o)
    BY <1>2 DEF Records
  <1>4. obs'[Len(obs')] = o
    BY <1>3, Observing
  <1>5. ASSUME NEW i \in DOMAIN obs, obs[i].version # 0
        PROVE  ~After(obs[i], o)
    <2>1. i \in Sightings(obs)
      BY <1>5 DEF VerifiedSeen, Sightings
    <2>2. resource.known
      BY <1>5 DEF Typed, TypeOK, RowHasEvidence
    <2> QED
      BY <1>3, <2>1, <2>2 DEF Promoted, IsLatest, NotBefore
  <1> QED
    BY <1>4, <1>5

\* A version never becomes current by a download older than the latest
\* verified bytes, however many fetches overlap and whenever they finish
\* (_ensure_resource under the write lock).
THEOREM VaultCurrent == Spec => CurrentMovesForward
  <1>1. Init => VerifiedSeen
    BY DEF Init, VerifiedSeen
  <1>2. Typed /\ VerifiedSeen /\ [Next]_vars =>
          [current' # current =>
             \A i \in DOMAIN obs : obs[i].version # 0 => ~After(obs[i], obs'[Len(obs')])]_vars
    BY CurrentStep
  <1> QED
    BY <1>1, <1>2, TypedInit, TypedStep, SeenStep, PTL DEF Spec, CurrentMovesForward
-----------------------------------------------------------------------------
(***************************************************************************)
(* Skips.  Every receipt, and every fetch on its way to one, rests on an   *)
(* observation of its version's bytes at the instant it calls verified.    *)
(***************************************************************************)
RestsOn(s, v, t) ==
  \E j \in DOMAIN s : s[j].version = v /\ s[j].decision \in Verified /\ s[j].at = t

ReceiptRests(r) ==
  /\ RestsOn(obs, r.version, r.verified)
  /\ r.decision = "NOT_NEEDED" => r.at - r.verified < Interval

FetchRests(p) ==
  LET f == fetch[p] IN
  /\ f.phase = "skipping" => RestsOn(obs, f.current, f.verified) /\ f.clock - f.verified < Interval
  /\ f.phase \in {"materializing", "pointing", "receipting"} =>
       /\ RestsOn(obs, f.version, f.verified)
       /\ f.decision = "NOT_NEEDED" => f.clock - f.verified < Interval

SkipInv ==
  /\ \A i \in DOMAIN receipts : ReceiptRests(receipts[i])
  /\ \A p \in Process : FetchRests(p)

LEMMA SkipInit == Init => SkipInv
  BY DEF Init, SkipInv, FetchRests, NoFetch

\* What has been verified stays so.
LEMMA RestsStay ==
  ASSUME Typed, [Next]_vars, NEW v, NEW t, RestsOn(obs, v, t)
  PROVE  RestsOn(obs', v, t)
  BY ObsSteps, ObsGrow DEF RestsOn

\* A step of p, with p's fetch and the new receipts at rest, keeps the rest.
LEMMA SkipOthers ==
  ASSUME Typed, SkipInv, [Next]_vars, NEW p \in Process,
         \A q \in Process : q # p => fetch'[q] = fetch[q],
         FetchRests(p)', UNCHANGED receipts
  PROVE  SkipInv'
  <1>1. ASSUME NEW q \in Process, q # p PROVE FetchRests(q)'
    <2>1. fetch'[q] = fetch[q] /\ FetchRests(q)
      BY <1>1 DEF SkipInv
    <2> QED
      BY <2>1, RestsStay DEF FetchRests
  <1>2. ASSUME NEW i \in DOMAIN receipts PROVE ReceiptRests(receipts[i])'
    <2>1. ReceiptRests(receipts[i])
      BY DEF SkipInv
    <2> QED
      BY <2>1, RestsStay DEF ReceiptRests
  <1> QED
    BY <1>1, <1>2 DEF SkipInv

\* A decision to skip rests on the basis it compared with.
LEMMA DecideRests ==
  ASSUME Typed, SkipInv, [Next]_vars, NEW p \in Process, Decide(p)
  PROVE  FetchRests(p)'
  <1> DEFINE basis == Basis(fetch[p].current)
             skip == Replayed(p, basis) \/ Within(fetch[p], basis)
             ph == IF skip THEN "skipping" ELSE "opening"
             t == IF skip THEN basis.verified ELSE 0
             g == [fetch[p] EXCEPT !.phase = ph, !.verified = t]
  <1>1. fetch \in [Process -> Fetch] /\ fetch[p] \in Fetch /\ fetch[p].current \in Nat
        /\ fetch[p].clock \in Nat
    BY DEF Typed, TypeOK, Fetch
  <1>2. fetch' = [fetch EXCEPT ![p] = g] /\ UNCHANGED obs
    BY DEF Decide
  <1>3. ASSUME skip
        PROVE  RestsOn(obs, fetch[p].current, basis.verified)
               /\ fetch[p].clock - basis.verified < Interval
    <2>1. basis # Unknown
      BY <1>3, SkipHasBasis
    <2>2. RestsOn(obs, fetch[p].current, basis.verified) /\ basis.verified \in Nat
      <3>1. \/ \E i \in DOMAIN receipts : /\ receipts[i].version = fetch[p].current
                                          /\ receipts[i].verified = basis.verified
            \/ RestsOn(obs, fetch[p].current, basis.verified)
        BY <1>1, <2>1, BasisKnown DEF RestsOn
      <3>2. basis.verified \in Nat
        BY <1>1, <2>1, BasisKnown
      <3> HIDE DEF basis
      <3>3. ASSUME NEW i \in DOMAIN receipts, receipts[i].version = fetch[p].current,
                   receipts[i].verified = basis.verified
            PROVE  RestsOn(obs, fetch[p].current, basis.verified)
        BY <3>3 DEF SkipInv, ReceiptRests
      <3> QED
        BY <3>1, <3>2, <3>3
    <2>3. basis.verified = fetch[p].clock \/ fetch[p].clock - basis.verified < Interval
      BY <1>3 DEF Replayed, Within
    <2> HIDE DEF basis
    <2> QED
      BY <1>1, <2>2, <2>3, ResourceVaultAssumption
  <1> HIDE DEF basis, skip
  <1>4. /\ g.phase = ph /\ g.verified = t /\ g.current = fetch[p].current
        /\ g.clock = fetch[p].clock
    BY <1>1 DEF Fetch
  <1>5. fetch'[p] = g
    BY <1>1, <1>2
  <1> HIDE DEF g
  <1>6. ph = "skipping" => skip
    OBVIOUS
  <1>7. ph \in {"skipping", "opening"} /\ (skip => t = basis.verified)
    OBVIOUS
  <1> HIDE DEF ph, t
  <1> QED
    BY <1>2, <1>3, <1>4, <1>5, <1>6, <1>7 DEF FetchRests

LEMMA SkipStep == Typed /\ SkipInv /\ [Next]_vars => SkipInv'
  <1> SUFFICES ASSUME Typed, SkipInv, [Next]_vars PROVE SkipInv'
    OBVIOUS
  <1>1. /\ fetch \in [Process -> Fetch] /\ \A p \in Process : fetch[p] \in Fetch
        /\ \A p \in Process : FetchRests(p)
    BY DEF Typed, TypeOK, SkipInv
  <1>2. ASSUME NEW p \in Process, fetch'[p].phase \notin {"skipping", "materializing",
                                                         "pointing", "receipting"}
        PROVE  FetchRests(p)'
    BY <1>2 DEF FetchRests
  <1>3. ASSUME NEW p \in Process, EarlyStep(p)
        PROVE  SkipInv'
    <2>1. /\ UNCHANGED receipts /\ \A q \in Process : q # p => fetch'[q] = fetch[q]
          /\ fetch'[p].phase \in {"listing", "listed", "resolved", "judging", "streaming"}
      BY <1>3, Early
    <2> QED
      BY <1>2, <2>1, SkipOthers
  <1>4. ASSUME NEW p \in Process, Decide(p)
        PROVE  SkipInv'
    <2>1. UNCHANGED receipts /\ \A q \in Process : q # p => fetch'[q] = fetch[q]
      BY <1>1, <1>4 DEF Decide
    <2> QED
      BY <1>4, <2>1, DecideRests, SkipOthers
  <1>5. ASSUME NEW p \in Process, RecordSkip(p)
        PROVE  SkipInv'
    <2> DEFINE g == [fetch[p] EXCEPT !.phase = "receipting", !.decision = "NOT_NEEDED",
                                     !.version = fetch[p].current]
    <2>1. /\ fetch[p].phase = "skipping" /\ fetch' = [fetch EXCEPT ![p] = g]
          /\ UNCHANGED receipts
      BY <1>5 DEF RecordSkip
    <2>2. /\ g.phase = "receipting" /\ g.version = fetch[p].current
          /\ g.verified = fetch[p].verified /\ g.clock = fetch[p].clock
      BY <1>1 DEF Fetch
    <2> HIDE DEF g
    <2>3. fetch'[p] = g /\ \A q \in Process : q # p => fetch'[q] = fetch[q]
      BY <1>1, <2>1
    <2>4. /\ RestsOn(obs', fetch[p].current, fetch[p].verified)
          /\ fetch[p].clock - fetch[p].verified < Interval
      BY <1>1, <2>1, RestsStay DEF FetchRests
    <2>5. FetchRests(p)'
      BY <2>2, <2>3, <2>4 DEF FetchRests
    <2> QED
      BY <2>1, <2>3, <2>5, SkipOthers
  <1>6. ASSUME NEW p \in Process, NEW h \in Hash, PublishBlob(p, h)
        PROVE  SkipInv'
    <2>1. UNCHANGED receipts /\ \A q \in Process : q # p => fetch'[q] = fetch[q]
      BY <1>1, <1>6 DEF PublishBlob
    <2>2. fetch'[p].phase = "storing"
      BY <1>1, <1>6 DEF PublishBlob, Fetch
    <2> QED
      BY <1>2, <2>1, <2>2, SkipOthers
  <1>7. ASSUME NEW p \in Process, RecordVerified(p)
        PROVE  SkipInv'
    <2>1. PICK v \in Nat, o \in Observation : Records(p, v, o)
      BY <1>7, Recording
    <2> DEFINE g == [fetch[p] EXCEPT !.phase = "materializing", !.version = v,
                                     !.decision = o.decision, !.verified = fetch[p].clock,
                                     !.hash = 0]
    <2>2. /\ fetch' = [fetch EXCEPT ![p] = g] /\ Observe(o)
          /\ o.at = fetch[p].clock /\ o.version = v /\ o.decision \in Verified
      BY <2>1 DEF Records
    <2>3. /\ g.phase = "materializing" /\ g.version = v /\ g.decision = o.decision
          /\ g.verified = fetch[p].clock
      BY <1>1 DEF Fetch
    <2> HIDE DEF g
    <2>4. fetch'[p] = g /\ \A q \in Process : q # p => fetch'[q] = fetch[q]
      BY <1>1, <2>2
    <2>5. RestsOn(obs', v, fetch[p].clock)
      BY <2>2, Observing DEF RestsOn
    <2>6. o.decision # "NOT_NEEDED"
      BY <2>2 DEF Verified
    <2>7. FetchRests(p)'
      BY <2>3, <2>4, <2>5, <2>6 DEF FetchRests
    <2>8. UNCHANGED receipts
      BY <1>7 DEF RecordVerified
    <2> QED
      BY <2>4, <2>7, <2>8, SkipOthers
  <1>8. ASSUME NEW p \in Process, Materialize(p) \/ PublishPointer(p) \/ LoseView(p)
        PROVE  SkipInv'
    <2>1. /\ UNCHANGED receipts /\ \A q \in Process : q # p => fetch'[q] = fetch[q]
          /\ fetch[p].phase \in {"materializing", "pointing"}
      BY <1>1, <1>8 DEF Materialize, PublishPointer, LoseView
    <2>2. /\ fetch'[p].phase \in {"pointing", "receipting"}
          /\ fetch'[p].version = fetch[p].version /\ fetch'[p].verified = fetch[p].verified
          /\ fetch'[p].clock = fetch[p].clock /\ fetch'[p].decision = fetch[p].decision
      BY <1>1, <1>8 DEF Materialize, PublishPointer, LoseView, Fetch
    <2>3. /\ RestsOn(obs', fetch[p].version, fetch[p].verified)
          /\ fetch[p].decision = "NOT_NEEDED" => fetch[p].clock - fetch[p].verified < Interval
      BY <1>1, <2>1, RestsStay DEF FetchRests
    <2>4. FetchRests(p)'
      BY <2>2, <2>3 DEF FetchRests
    <2> QED
      BY <2>1, <2>4, SkipOthers
  <1>9. ASSUME NEW p \in Process, Fail(p) \/ Crash(p)
        PROVE  SkipInv'
    <2>1. UNCHANGED receipts /\ \A q \in Process : q # p => fetch'[q] = fetch[q]
      BY <1>1, <1>9 DEF Fail, Crash, Ended
    <2>2. fetch'[p].phase = "idle"
      BY <1>1, <1>9 DEF Fail, Crash, Ended, NoFetch
    <2> QED
      BY <1>2, <2>1, <2>2, SkipOthers
  <1>10. ASSUME NEW p \in Process, PersistReceipt(p)
         PROVE  SkipInv'
    <2> DEFINE r == ReceiptOf(fetch[p])
    <2>1. /\ fetch[p].phase = "receipting" /\ fetch' = [fetch EXCEPT ![p] = NoFetch]
          /\ receipts' = Append(receipts, r) \/ UNCHANGED receipts
          /\ UNCHANGED obs
      BY <1>10 DEF PersistReceipt, Ended
    <2>2. ReceiptRests(r)
      BY <1>1, <2>1 DEF FetchRests, ReceiptRests, ReceiptOf
    <2>3. fetch'[p].phase = "idle" /\ \A q \in Process : q # p => fetch'[q] = fetch[q]
      BY <1>1, <2>1 DEF NoFetch
    <2> HIDE DEF r
    <2>4. ASSUME NEW q \in Process PROVE FetchRests(q)'
      BY <1>1, <2>1, <2>3 DEF FetchRests
    <2>5. ASSUME NEW i \in DOMAIN receipts' PROVE ReceiptRests(receipts'[i])
      <3>1. CASE UNCHANGED receipts
        BY <3>1 DEF SkipInv
      <3>2. CASE receipts' = Append(receipts, r)
        <4>1. /\ DOMAIN receipts' = DOMAIN receipts \cup {Len(receipts) + 1}
              /\ receipts'[Len(receipts) + 1] = r
              /\ \A j \in DOMAIN receipts : receipts'[j] = receipts[j]
          <5>1. receipts \in Seq(Receipt \cup {r})
            BY DEF Typed, TypeOK
          <5> QED
            BY <3>2, <5>1, Appended
        <4> QED
          BY <2>2, <4>1 DEF SkipInv
      <3> QED
        BY <2>1, <3>1, <3>2
    <2>6. ASSUME NEW i \in DOMAIN receipts' PROVE ReceiptRests(receipts[i])'
      BY <2>1, <2>5 DEF ReceiptRests
    <2> QED
      BY <2>4, <2>6 DEF SkipInv
  <1>11. CASE Omit \/ BeginRepair \/ FinishRepair \/ Tick \/ UNCHANGED vars
    <2>1. UNCHANGED <<fetch, receipts>>
      BY <1>11 DEF Omit, BeginRepair, FinishRepair, Tick, vars
    <2>2. ASSUME NEW q \in Process PROVE FetchRests(q)'
      BY <1>1, <2>1, RestsStay DEF FetchRests
    <2>3. ASSUME NEW i \in DOMAIN receipts PROVE ReceiptRests(receipts[i])'
      BY <2>1, RestsStay DEF SkipInv, ReceiptRests
    <2> QED
      BY <2>1, <2>2, <2>3 DEF SkipInv
  <1> QED
    BY <1>3, <1>4, <1>5, <1>6, <1>7, <1>8, <1>9, <1>10, <1>11 DEF Next, EarlyStep

\* Every skip rests on a verification of the version's own bytes less than the
\* verification interval old, whatever other fetches, imports and lost
\* receipts there were (_comparison_basis, _policy_reason).
THEOREM VaultSkips == Spec => []SkipRestsOnVerification
  <1>1. SkipInv => SkipRestsOnVerification
    BY DEF SkipInv, ReceiptRests, RestsOn, SkipRestsOnVerification
  <1> QED
    BY <1>1, TypedInit, TypedStep, SkipInit, SkipStep, PTL DEF Spec
=============================================================================
