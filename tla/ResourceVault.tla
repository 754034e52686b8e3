--------------------------- MODULE ResourceVault ---------------------------
(***************************************************************************)
(* Fetching one resource and keeping its versions (sync/resources.py,      *)
(* storage/resources.py): the decision whether to download, the            *)
(* content-addressed blobs, the version rows, the browse view with its     *)
(* current pointer, and the receipts later decisions rest on.              *)
(*                                                                         *)
(* Several processes fetch the resource, in a run that just listed it or   *)
(* on its own; each step below is one transaction, one file operation or   *)
(* one read, and a process may die between any two.  How the content page  *)
(* is read and how inventories come about is ResourceLifecycle's; here a   *)
(* listing and a complete inventory that omits the resource are a step     *)
(* each, and the item is always ACTIVE.                                    *)
(***************************************************************************)
EXTENDS ResourceEvidence

CONSTANTS
  Process,   \* processes that fetch
  Hash,      \* the bytes the source may serve
  Meta,      \* the metadata fingerprints it may show
  Capture,   \* browser captures that may be imported
  Interval,  \* the verification interval
  Solo,      \* the kinds of fetches: on its own or in a run that lists
  Verify,    \* whether fetches are asked to verify
  Inventory, \* whether complete inventories omit the resource
  Repairs,   \* whether repair_views is called
  MaxRun,    \* bound: synchronization runs
  MaxTime    \* bound: the clock

ASSUME ResourceVaultAssumption ==
  /\ Meta # {}
  /\ Capture \subseteq [at : Nat \ {0}, meta : Meta, hash : Hash]
  /\ \A c, d \in Capture : c.at = d.at => c = d
  /\ Interval \in Nat \ {0}
  /\ Solo \subseteq BOOLEAN
  /\ Verify \subseteq BOOLEAN
  /\ Inventory \in BOOLEAN
  /\ Repairs \in BOOLEAN
  /\ MaxRun \in Nat
  /\ MaxTime \in Nat

VARIABLES
  resource,  \* the row of the resource
  current,   \* its current_version_key, 0 for NULL
  obs,       \* its observations
  versions,  \* versions[n]: the hash of version n
  receipts,  \* its receipts of successful fetches
  jobs,      \* the versions whose jobs are planned
  blobs,     \* the hashes under objects/
  views,     \* the versions with a file in the browse view
  pointer,   \* the version the browse view's "current" names, 0 for none
  owed,      \* history: versions whose publication died or failed
  fetch,     \* fetch[p]: the fetch of process p
  repair,    \* the repair in progress: the versions and the current it read
  imported,  \* the captures that finished runs imported
  lastRun,   \* the largest sync_run_key handed out
  now

disk == <<blobs, views, pointer, owed>>
vars == <<resource, current, obs, versions, receipts, jobs, disk, fetch, repair, imported,
          lastRun, now>>

Decision == {"DEFERRED", "NOT_NEEDED", "FETCHED", "REUSED_VERIFIED", "FAILED"}
Verified == {"FETCHED", "REUSED_VERIFIED"}

\* version: 0 for NULL.
Observation == [at : Nat, run : Nat, status : Status, avail : ResourceAvailability,
                meta : Meta, decision : Decision, version : Nat]
Receipt == [at : Nat, version : Nat \ {0}, meta : Meta, decision : Decision, verified : Nat]

\* What a version is compared with; Unknown when nothing is known of it.
Unknown == [verified |-> 0]

Live == [at |-> 0]

\* clock, meta: the fetch's stamp and metadata.
\* current: the version it found current.  version: the one it observed.
\* hash: the bytes it streamed, 0 for none yet.
Fetch == [phase : {"idle", "listing", "listed", "resolved", "judging", "skipping",
                   "opening", "streaming", "storing", "materializing", "pointing",
                   "receipting"},
          run : Nat, capture : Capture \cup {Live}, solo : BOOLEAN, verify : BOOLEAN,
          clock : Nat, meta : Meta, current : Nat, hash : Hash \cup {0}, version : Nat,
          decision : Decision, verified : Nat]
NoFetch == [phase |-> "idle", run |-> 0, capture |-> Live, solo |-> FALSE, verify |-> FALSE,
            clock |-> 0, meta |-> CHOOSE m \in Meta : TRUE, current |-> 0,
            hash |-> 0, version |-> 0, decision |-> "DEFERRED",
            verified |-> 0]

NoRepair == [active |-> FALSE, upTo |-> 0, current |-> 0]

TypeOK ==
  /\ resource \in Resource
  /\ current \in 0..Len(versions)
  /\ obs \in Seq(Observation)
  /\ versions \in Seq(Hash)
  /\ receipts \in Seq(Receipt)
  /\ jobs \subseteq DOMAIN versions
  /\ blobs \subseteq Hash
  /\ views \subseteq DOMAIN versions
  /\ pointer \in 0..Len(versions)
  /\ owed \subseteq DOMAIN versions
  /\ fetch \in [Process -> Fetch]
  /\ repair \in [active : BOOLEAN, upTo : 0..Len(versions), current : 0..Len(versions)]
  /\ imported \subseteq Capture
  /\ lastRun \in 0..MaxRun
  /\ now \in Nat

Init ==
  /\ resource = NoResource /\ current = 0
  /\ obs = <<>> /\ versions = <<>> /\ receipts = <<>> /\ jobs = {}
  /\ blobs = {} /\ views = {} /\ pointer = 0 /\ owed = {}
  /\ fetch = [p \in Process |-> NoFetch]
  /\ repair = NoRepair
  /\ imported = {} /\ lastRun = 0 /\ now = 1

\* source_observed_at.
SourceTime(p) == IF fetch[p].capture = Live THEN now ELSE fetch[p].capture.at

\* The newest of the observations or receipts S of the sequence s, by instant
\* and key.
Newest(s, S) ==
  CHOOSE i \in S : \A j \in S : s[i].at > s[j].at \/ (s[i].at = s[j].at /\ i >= j)
-----------------------------------------------------------------------------
(***************************************************************************)
(* The start of a run.                                                     *)
(***************************************************************************)
\* A run that lists the resource before it fetches it, or a standalone fetch.
StartRun(p, capture, solo, verify) ==
  /\ fetch[p].phase = "idle"
  /\ solo => resource.known
  /\ lastRun < MaxRun
  /\ lastRun' = lastRun + 1
  /\ fetch' = [fetch EXCEPT ![p] = [NoFetch EXCEPT
       !.phase = IF solo THEN "listed" ELSE "listing", !.run = lastRun + 1,
       !.capture = capture, !.solo = solo, !.verify = verify]]
  /\ UNCHANGED <<resource, current, obs, versions, receipts, jobs, disk, repair, imported, now>>

\* ResourceRepository._record, of an observation without bytes.
Observe(o) ==
  /\ resource' = Ensured(resource, obs, o)
  /\ obs' = Append(obs, o)

Seen(p, at, meta, decision) ==
  [at |-> at, run |-> fetch[p].run, status |-> "OBSERVED", avail |-> "ACTIVE", meta |-> meta,
   decision |-> decision, version |-> 0]

\* _content: the source lists the resource.
List(p, meta) ==
  LET f == fetch[p] IN
  /\ f.phase = "listing"
  /\ f.capture # Live => meta = f.capture.meta
  /\ Observe(Seen(p, SourceTime(p), meta, "DEFERRED"))
  /\ fetch' = [fetch EXCEPT ![p].phase = "listed", ![p].meta = meta]
  /\ UNCHANGED <<current, versions, receipts, jobs, disk, repair, imported, lastRun, now>>

\* fetch: its clock, and for a standalone fetch the metadata last stored.
Resolve(p) ==
  /\ fetch[p].phase = "listed"
  /\ fetch' = [fetch EXCEPT
       ![p].phase = "resolved", ![p].clock = SourceTime(p),
       ![p].meta = IF fetch[p].solo THEN obs[Newest(obs, DOMAIN obs)].meta ELSE @]
  /\ UNCHANGED <<resource, current, obs, versions, receipts, jobs, disk, repair, imported,
                 lastRun, now>>

\* get_current_version.
ReadCurrent(p) ==
  /\ fetch[p].phase = "resolved"
  /\ fetch' = [fetch EXCEPT ![p].phase = "judging", ![p].current = current]
  /\ UNCHANGED <<resource, current, obs, versions, receipts, jobs, disk, repair, imported,
                 lastRun, now>>
-----------------------------------------------------------------------------
(***************************************************************************)
(* The decision.                                                           *)
(***************************************************************************)
\* Mutant: the newest receipt counts, whichever version it is of.
BasisOfAny(v) ==
  IF receipts = <<>> THEN Unknown
  ELSE LET r == receipts[Newest(receipts, DOMAIN receipts)]
       IN [meta |-> r.meta, verified |-> r.verified]

\* _comparison_basis: the newest receipt of version v or, when receipts were
\* lost, the newest observation that verified it.
Basis(v) ==
  LET of == {i \in DOMAIN receipts : receipts[i].version = v}
      seen == {i \in DOMAIN obs : obs[i].version = v /\ obs[i].decision \in Verified}
  IN CASE v # 0 /\ of # {} -> LET r == receipts[Newest(receipts, of)]
                              IN [meta |-> r.meta, verified |-> r.verified]
       [] v # 0 /\ of = {} /\ seen # {} -> LET o == obs[Newest(obs, seen)]
                                           IN [meta |-> o.meta, verified |-> o.at]
       [] OTHER -> Unknown

\* The capture was imported before, and is asked to verify what it verified.
Replayed(p, basis) ==
  LET f == fetch[p] IN
  f.verify /\ basis # Unknown /\ basis.verified = f.clock /\ f.capture \in imported

\* Mutant: the verification interval is ignored.
WithinAlways(f, basis) == f.current # 0 /\ ~f.verify /\ basis # Unknown /\ f.meta = basis.meta

\* _policy_reason: within_verification_interval.
Within(f, basis) ==
  /\ f.current # 0
  /\ ~f.verify
  /\ basis # Unknown
  /\ f.meta = basis.meta
  /\ f.clock - basis.verified < Interval

Decide(p) ==
  LET basis == Basis(fetch[p].current)
      skip == Replayed(p, basis) \/ Within(fetch[p], basis)
  IN
  /\ fetch[p].phase = "judging"
  /\ fetch' = [fetch EXCEPT ![p].phase = IF skip THEN "skipping" ELSE "opening",
                            ![p].verified = IF skip THEN basis.verified ELSE 0]
  /\ UNCHANGED <<resource, current, obs, versions, receipts, jobs, disk, repair, imported,
                 lastRun, now>>

\* The current version is taken to be what the source still serves.
RecordSkip(p) ==
  LET f == fetch[p] IN
  /\ f.phase = "skipping"
  /\ Observe(Seen(p, f.clock, f.meta, "NOT_NEEDED"))
  /\ fetch' = [fetch EXCEPT ![p].phase = "receipting", ![p].decision = "NOT_NEEDED",
                            ![p].version = f.current]
  /\ UNCHANGED <<current, versions, receipts, jobs, disk, repair, imported, lastRun, now>>
-----------------------------------------------------------------------------
(***************************************************************************)
(* The download.                                                           *)
(***************************************************************************)
\* A live standalone fetch rediscovers the resource first, with new metadata,
\* a listing of it, and a new clock.  What was current no longer matters.
Rediscover(p, meta) ==
  LET f == fetch[p] IN
  /\ f.phase = "opening" /\ f.solo /\ f.capture = Live
  /\ Observe(Seen(p, now, meta, "DEFERRED"))
  /\ fetch' = [fetch EXCEPT ![p].phase = "streaming", ![p].meta = meta, ![p].clock = now,
                            ![p].current = 0]
  /\ UNCHANGED <<current, versions, receipts, jobs, disk, repair, imported, lastRun, now>>

OpenStream(p) ==
  /\ fetch[p].phase = "opening" /\ ~(fetch[p].solo /\ fetch[p].capture = Live)
  /\ fetch' = [fetch EXCEPT ![p].phase = "streaming", ![p].current = 0]
  /\ UNCHANGED <<resource, current, obs, versions, receipts, jobs, disk, repair, imported,
                 lastRun, now>>

\* Mutant: the bytes stay in the temporary file.
NotPublished(h) == blobs

\* _publish_blob.
Published(h) == blobs \cup {h}

\* ingest, up to the blob in its content-addressed place.
PublishBlob(p, h) ==
  LET f == fetch[p] IN
  /\ f.phase = "streaming"
  /\ f.capture # Live => h = f.capture.hash
  /\ blobs' = Published(h)
  /\ fetch' = [fetch EXCEPT ![p].phase = "storing", ![p].hash = h]
  /\ UNCHANGED <<resource, current, obs, versions, receipts, jobs, views, pointer, owed,
                 repair, imported, lastRun, now>>

\* Mutant: the version recorded last becomes current.
PromotedAlways(o) == TRUE

\* Mutant: a version is promoted by the number it would have, not the one it has.
NumberedAnew(old) == Len(versions) + 1

\* The version's number: a hash the resource had before keeps its version.
Numbered(old) == IF old = {} THEN Len(versions) + 1 ELSE CHOOSE n \in old : TRUE

\* Whether the version of o becomes current.
Promoted(o) == IsLatest(resource, obs, o)

\* _record, with bytes.
RecordVerified(p) ==
  LET f == fetch[p]
      old == {n \in DOMAIN versions : versions[n] = f.hash}
      v == Numbered(old)
      d == IF old = {} THEN "FETCHED" ELSE "REUSED_VERIFIED"
      o == [Seen(p, f.clock, f.meta, d) EXCEPT !.version = v]
  IN
  /\ f.phase = "storing"
  /\ versions' = IF old = {} THEN Append(versions, f.hash) ELSE versions
  /\ current' = IF Promoted(o) THEN v ELSE current
  /\ Observe(o)
  /\ fetch' = [fetch EXCEPT ![p].phase = "materializing", ![p].version = v,
                            ![p].decision = d, ![p].verified = f.clock,
                            ![p].hash = NoFetch.hash]
  /\ UNCHANGED <<receipts, jobs, disk, repair, imported, lastRun, now>>

\* _materialize_version.
Materialize(p) ==
  /\ fetch[p].phase = "materializing"
  /\ views' = views \cup {fetch[p].version}
  /\ fetch' = [fetch EXCEPT ![p].phase = "pointing"]
  /\ UNCHANGED <<resource, current, obs, versions, receipts, jobs, blobs, pointer, owed,
                 repair, imported, lastRun, now>>

\* Mutant: the pointer is written without looking at the row again.
PointedBlindly(v) == v

\* _publish_current_if_authoritative, under the database's write lock.
Pointed(v) == IF current = v THEN v ELSE pointer

PublishPointer(p) ==
  /\ fetch[p].phase = "pointing"
  /\ pointer' = Pointed(fetch[p].version)
  /\ fetch' = [fetch EXCEPT ![p].phase = "receipting"]
  /\ UNCHANGED <<resource, current, obs, versions, receipts, jobs, blobs, views, owed,
                 repair, imported, lastRun, now>>

\* The view cannot be written; the fetch goes on.
LoseView(p) ==
  /\ fetch[p].phase \in {"materializing", "pointing"}
  /\ owed' = owed \cup {fetch[p].version}
  /\ fetch' = [fetch EXCEPT ![p].phase = "receipting"]
  /\ UNCHANGED <<resource, current, obs, versions, receipts, jobs, blobs, views, pointer,
                 repair, imported, lastRun, now>>
-----------------------------------------------------------------------------
(***************************************************************************)
(* The end of a run.                                                       *)
(***************************************************************************)
Ended(p) ==
  /\ fetch' = [fetch EXCEPT ![p] = NoFetch]
  /\ imported' = imported \cup (Capture \cap {fetch[p].capture})

\* Mutant: a skip counts as a verification.
ReceiptRenewed(f) == [at |-> f.clock, version |-> f.version, meta |-> f.meta,
                      decision |-> f.decision, verified |-> f.clock]

ReceiptOf(f) == [at |-> f.clock, version |-> f.version, meta |-> f.meta,
                 decision |-> f.decision, verified |-> f.verified]

\* _persist_receipt_and_jobs: both or, if the transaction fails, neither.
PersistReceipt(p) ==
  /\ fetch[p].phase = "receipting"
  /\ \/ /\ receipts' = Append(receipts, ReceiptOf(fetch[p]))
        /\ jobs' = jobs \cup {fetch[p].version}
     \/ UNCHANGED <<receipts, jobs>>
  /\ Ended(p)
  /\ UNCHANGED <<resource, current, obs, versions, disk, repair, lastRun, now>>

\* _failed; the failure is an observation, if it can be stored.  Its receipt
\* names no version and no decision reads it.
Fail(p) ==
  LET f == fetch[p] IN
  /\ f.phase \in {"resolved", "judging", "skipping", "opening", "streaming", "storing"}
  /\ \/ Observe([Seen(p, f.clock, f.meta, "FAILED") EXCEPT !.status = "UNKNOWN"])
     \/ UNCHANGED <<resource, obs>>
  /\ Ended(p)
  /\ UNCHANGED <<current, versions, receipts, jobs, disk, repair, lastRun, now>>

\* The process dies, and its run stays RUNNING.
Crash(p) ==
  /\ fetch[p].phase # "idle"
  /\ owed' = IF fetch[p].phase \in {"materializing", "pointing"}
             THEN owed \cup {fetch[p].version} ELSE owed
  /\ fetch' = [fetch EXCEPT ![p] = NoFetch]
  /\ UNCHANGED <<resource, current, obs, versions, receipts, jobs, blobs, views, pointer,
                 repair, imported, lastRun, now>>
-----------------------------------------------------------------------------
\* A complete inventory of yet another run does not list the resource.
Omit ==
  /\ Inventory /\ resource.known /\ lastRun < MaxRun
  /\ LET o == [at |-> now, run |-> lastRun + 1, status |-> "NOT_OBSERVED",
               avail |-> "MISSING", meta |-> obs[Newest(obs, DOMAIN obs)].meta,
               decision |-> "DEFERRED", version |-> 0]
     IN /\ obs' = Append(obs, o)
        /\ resource' = Omitted(resource, obs', o)
  /\ lastRun' = lastRun + 1
  /\ UNCHANGED <<current, versions, receipts, jobs, disk, fetch, repair, imported, now>>

\* repair_views: the rows are read once ...
BeginRepair ==
  /\ Repairs /\ ~repair.active /\ owed # {}
  /\ repair' = [active |-> TRUE, upTo |-> Len(versions), current |-> current]
  /\ UNCHANGED <<resource, current, obs, versions, receipts, jobs, disk, fetch, imported,
                 lastRun, now>>

\* ... and every version's file, and the pointer to the version that was
\* current then if it still is, are made again.
FinishRepair ==
  LET v == repair.current
      stale == IF current = v THEN {} ELSE {current}
  IN
  /\ repair.active
  /\ views' = views \cup 1..repair.upTo
  /\ pointer' = IF v = 0 THEN pointer ELSE Pointed(v)
  /\ owed' = owed \ (1..repair.upTo \ stale)
  /\ repair' = NoRepair
  /\ UNCHANGED <<resource, current, obs, versions, receipts, jobs, blobs, fetch, imported,
                 lastRun, now>>

Tick ==
  /\ now < MaxTime
  /\ now' = now + 1
  /\ UNCHANGED <<resource, current, obs, versions, receipts, jobs, disk, fetch, repair,
                 imported, lastRun>>

Next ==
  \/ \E p \in Process :
       \/ \E c \in {Live} \cup {d \in Capture : d.at <= now}, solo \in Solo, verify \in Verify :
            StartRun(p, c, solo, verify)
       \/ \E m \in Meta : List(p, m)
       \/ Resolve(p)
       \/ ReadCurrent(p)
       \/ Decide(p)
       \/ RecordSkip(p)
       \/ \E m \in Meta : Rediscover(p, m)
       \/ OpenStream(p)
       \/ \E h \in Hash : PublishBlob(p, h)
       \/ RecordVerified(p)
       \/ Materialize(p)
       \/ PublishPointer(p)
       \/ LoseView(p)
       \/ PersistReceipt(p)
       \/ Fail(p)
       \/ Crash(p)
  \/ Omit
  \/ BeginRepair
  \/ FinishRepair
  \/ Tick

Spec == Init /\ [][Next]_vars
-----------------------------------------------------------------------------
\* Whatever dies or fails when: the bytes of every version are in the object
\* store, the browse view shows versions only, and its pointer leads to a file
\* ("update the browse view and current pointer only after commit",
\* docs/architecture/storage.md:97).
BytesBehindEverything ==
  /\ \A n \in DOMAIN versions : versions[n] \in blobs
  /\ pointer \in views \cup {0}

InFlight(v) == \E p \in Process :
  fetch[p].phase \in {"materializing", "pointing"} /\ fetch[p].version = v

Shown(v) == v \in views /\ (v = current => pointer = v)

\* The browse view lacks a version, or points past the current one, only while
\* a fetch is about to publish it or after one died or failed doing so;
\* repair_views pays all debts it could read (_publish_current_if_authoritative).
ViewsCatchUp ==
  \A v \in DOMAIN versions : Shown(v) \/ InFlight(v) \/ v \in owed

\* A download is skipped only for a version whose very bytes were verified less
\* than the verification interval before; skips do not renew the verification,
\* and verifications of other versions do not count ("verification receipts are
\* tied to the authoritative version", capability-ledger.md:81).
SkipRestsOnVerification ==
  \A i \in DOMAIN receipts : receipts[i].decision = "NOT_NEEDED" =>
    /\ receipts[i].at - receipts[i].verified < Interval
    /\ \E j \in DOMAIN obs :
         /\ obs[j].version = receipts[i].version /\ obs[j].decision \in Verified
         /\ obs[j].at = receipts[i].verified

\* A delayed download never takes the place of bytes verified later.
CurrentMovesForward ==
  [][current' # current =>
       \A i \in DOMAIN obs : obs[i].version # 0 => ~After(obs[i], obs'[Len(obs')])]_vars

\* "`current` is a managed pointer to the latest verified version"
\* (docs/architecture/storage.md:60), and the pointer follows current.
CurrentIsLatestVerified ==
  LET verified == {i \in DOMAIN obs : obs[i].version # 0}
  IN verified # {} =>
       \E i \in verified : /\ \A j \in verified : ~After(obs[j], obs[i])
                           /\ obs[i].version = current

\* A resource is ACTIVE when "currently observed"
\* (docs/architecture/data-model.md:135): after an inventory omitted it, only
\* once the source has listed or served it again.
RestoredOnlyWhenSeen ==
  resource.avail = "ACTIVE" =>
    \A i \in DOMAIN obs : obs[i].status = "NOT_OBSERVED" =>
      \E j \in Sightings(obs) : obs[j].decision # "NOT_NEEDED" /\ obs[j].at >= obs[i].at
=============================================================================
