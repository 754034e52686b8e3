# A formal model of ntulearn-skill

ntulearn-skill keeps a private, local mirror of a student's course site: it reads
a source (the live site through a read-only transport, or a browser capture of
it), stores what it saw in one SQLite database and a content-addressed vault of
files, derives texts and events from them by durable local jobs, and answers
queries with a statement of how fresh the answer is.  The program is a Python
package run as a command line or behind an agent adapter, so several *processes*
may work on one database and one vault at once, and any of them may be killed.

This directory holds TLA+ models of its concurrent core, the TLC runs that check
them on small instances, and TLAPS proofs for all instances.  Paths below are
relative to `src/src/ntulearn_skill/` unless they begin with `docs/`.

Two facts of the code shape every model:

* every `Database.transaction()` is `BEGIN IMMEDIATE` on one SQLite file
  (`storage/database.py`), so a transaction is one atomic action and everything
  between two transactions of a process may interleave with other processes;
* the instants of observations, attempts, leases and decisions are read *before*
  the transaction that stores them.  The live source's
  observation time is the clock; a capture's is the instant it was taken, however
  late it is imported (`source_observed_at`).  Evidence thus arrives out of order
  as a rule, and nearly every property below is about that.  One writer whose
  instant is compared with others does the opposite: `reconcile_course` reads it
  *inside* its transaction (`events/reconciliation.py:136`, `:152`) and commits much
  later, so `EventFusion` makes two steps of it.  Parses, representations,
  extractions and classifications read theirs inside too
  (`parsers/repository.py:131`, `events/extraction.py:1625`); nothing modelled
  compares those.


## 1. Inventory

| Part | State it keeps | Operations | Modelled in |
|---|---|---|---|
| Local job queue (`sync/jobs.py`) | rows of `local_job`: status, attempts, lease, token, dependency | plan, recover, claim, execute, finish, retry | `LocalJobs` |
| Sync state and freshness (`sync/state.py`, `sync/freshness.py`, `core/api.py`) | `sync_state`: latest attempt, success and complete marker of a scope | record an attempt; judge; query, refresh, continue by cursor | `ScopeFreshness` |
| Resource lifecycle (`sync/lifecycle.py`, `storage/resources.py`) | the resource's availability and window, its observations; the content item | observe, fail, reconcile an inventory | `ResourceLifecycle` |
| Fetch and vault (`sync/resources.py`, `storage/resources.py`) | versions, `current_version_key`, receipts; blobs, browse view and its pointer on disk | decide, stream, publish, record, materialize, repair | `ResourceVault` |
| Scoped discovery (`sync/discovery.py`) | none beyond a scan | page through courses and content | `SyncRun` |
| Event sources (`sync/event_sources.py`) | none beyond a scan | page through announcements, assessments, schedule, due items | `SyncRun` |
| Engine (`sync/engine.py`, `sync/observability.py`) | the run's progress; `sync_run`, its scopes | quick, course and full sync, fetch, refresh, finish | `SyncRun`; its fetches in `ResourceLifecycle` and `ResourceVault` |
| Repository, database (`storage/repository.py`, `storage/database.py`) | relational rows, newest observation wins | put, get, transaction | in part, by every model |
| Migration (`storage/migration.py`) | `schema_migration`, backups | migrate | no; its effect on the index in `SearchIndex` |
| Parse cache (`parsers/service.py`, `parsers/repository.py`) | immutable parses, chunks, representations | parse a version, append evidence | `SearchIndex` |
| Visual evidence (`parsers/visual.py`) | rendered pages, descriptions of them | prepare, import a bundle | `SearchIndex` |
| Full-text index (`index/fts.py`), search (`search/service.py`) | projected documents, generations, dirty sets | refresh, rebuild, search | `SearchIndex` |
| Event observations (`events/repository.py`) | observations, current entity | observe | `SyncRun` |
| Extraction (`events/extraction.py`) | extraction records, candidates | extract | `EventFusion`, `SearchIndex` |
| Reconciliation, manual decisions (`events/reconciliation.py`, `events/_manual.py`) | sources, claims, events, projections, decisions | reconcile a course, resolve a field or a source's event | `EventFusion` |
| Classification (`extractors/classification.py`) | runs, candidates, selections | classify, select | no: no operation of the program calls it |
| Source adapters, captures, transport (`client/`) | none (a capture is a fixed bundle) | translate, validate, read | as the source's possible answers |
| Document parsers (`parsers/pdf.py`, `docx.py`) | none | convert | no |
| CLI, agent adapter, presentation (`cli/`, `integrations/`, rest of `core/`) | none | parse arguments, dispatch, present | no |

**How they interact.**  A synchronization run belongs to one process.  It reads
the source page by page through discovery and the event sources, each page's
items stored in transactions of their own; it fetches the resources it listed,
which records versions and plans jobs; it works through the queue; and only then,
in `_finish`, it records the result of every scope (`sync_state`) and applies the
inventories (`lifecycle.reconcile`).  Between the reading and the recording lie
downloads, jobs and other processes' runs.  A query reads the database without a
run, judges freshness, and may start a refresh in the middle.

**What is hard, and what makes each part correct.**

* *Queue.*  A worker may outlive its lease, be killed at any point, or run with
  older components than the job's identity names.  Correct when claims exclude
  each other, a claim is lost only after its lease, attempts are bounded, jobs
  follow their dependencies, artifacts match identities, and every job ends.
* *Freshness.*  Results of runs and replays of captures reach the row in any
  order; a query reads in three steps.  Correct when the row depends on what was
  recorded, never on the order; when "current" hides no later failure; and when
  an answer, and every page of it, shows one state of the database.
* *Lifecycle.*  Sightings, failed fetches and omissions carry the instant they
  speak of and arrive late.  Correct when the newest evidence decides, when a
  failure decides nothing, and when only a complete inventory of an accessible
  parent makes a resource missing.
* *Vault.*  Four stores (blobs, rows, view, receipts) are written one after the
  other by several processes that may die in between, and later downloads are
  skipped on the strength of earlier ones.  Correct when bytes are behind every
  version, the view catches up, late downloads do not displace newer bytes, and a
  skip rests on a recent verification of the version it keeps.
* *Runs.*  A source may page as it likes, repeat items, come back to a cursor,
  claim less than everything, and fail at any point; a run has many scopes and
  one fate.  Correct when COMPLETE means that everything announced was read and
  stored, when rows show the newest sighting in any order of storing, and when
  the status of a run tells what became of everything it was asked for.
* *Index.*  Every transaction projects again what its triggers marked.  Correct
  when that equals a rebuild, when racing parsers agree on one row, when text
  once found stays findable, and when complete coverage hides nothing.
* *Events.*  Evidence is extracted, bound and weighed again and again while a
  user decides.  Correct when a decision shows until something replaces it for
  cause, when it never hides what a later reconciliation finds, and when reusing a
  run leaves nothing stale.  What a reconciliation finds that is under way when the
  user decides is the hard case, and there the code fails (section 4).

The hazards, one by one and at their lines, are in `PROJECT.json`, with the
properties that would catch each going wrong.


## 2. Modules

| Module | Contents |
|---|---|
| `JobLedger` | what the queue promises: starts within a budget, done once, after its dependency |
| `LocalJobs` | the queue as it is implemented; refines `JobLedger` |
| `LocalJobsProofs` | its theorems |
| `ScopeFreshness` | the sync state of one scope, runs that record into it, queries that rely on it |
| `ScopeFreshnessProofs` | theorems about the recording runs and the queries |
| `ResourceEvidence` | how `_ensure_resource` and `record_not_observed` weigh an observation; shared |
| `ResourceEvidenceProofs` | lemmas about it, for the proofs of both its users |
| `ResourceLifecycle` | runs, fetches and inventories around one resource |
| `ResourceLifecycleProofs` | its theorems |
| `ResourceVault` | fetches, versions and the view of one resource |
| `ResourceVaultProofs` | its theorems |
| `SyncRun` | engine runs: the paging of every scope, event observations, what is recorded |
| `SyncRunProofs` | its theorems |
| `SearchIndex` | versions, parses, descriptions, extractions and the index over them |
| `SearchIndexProofs` | theorems about the parse cache, the index and imports |
| `EventFusion` | extractions, reconciliations and manual decisions of one course |
| `EventFusionProofs` | its theorems |
| `...MC` | instances for TLC: symmetry, and sets of requests, requirements, captures or drafts |

`ResourceLifecycle` and `ResourceVault` look at the same row from two sides and
share the rule that updates it.  The first takes a fetch as a single observation
and details inventories; the second takes listing and omission as a step each and
details the fetch.  `SyncRun` has the reading of pages that both take for granted
and records attempts that `ScopeFreshness` judges; its jobs are one step, being
`LocalJobs`'s.  An extraction is a row in `SearchIndex`, where its claim is either
bound or not, and `EventFusion` says which.

### LocalJobs

`job[j]` is the row of job `j`, where a job is what `input_identity` hashes: an
input, a kind, and the releases of the components on the path to it (`Path`).
`proc[p]` is a process in the loop of `LocalJobRunner.run`: planning, recovering
expired rows, claiming, executing, finishing, one transaction each.  Executing
is outside any transaction.  Points where the model keeps what the code does:

* the run reads its clock once, so late claims get leases counted from the start
  of the run and may be expired when they are taken (`proc[p].clock`);
* a token is the attempt number: the code compares a fresh uuid, and only with
  the token of the same row;
* empty `job_keys` recover and claim nothing; rows of superseded releases are
  touched by runs over the whole queue only;
* nothing retries a FAILED job by itself: `retry_failed` is called by hosts.

Equal identities of different inputs (a hash collision) are not modelled.  Keys
matter by their order only; a plan takes a block of four.

### ScopeFreshness

One scope (a provider, course and data kind).  `data` is the observation time of
a representative object, kept newest by the `put_` operations; a stamp is the
pair (`observed_at`, run key), `observed_at` being read when the reading of the
scope *ends*.  Runs of all processes record an outcome, coverage and stamp in any
order; replays of captures carry older stamps and ties.  A query loads its items,
reads its clock, reads the freshness row, and accepts, refreshes or refuses by
its requirement; a listing returns a cursor that is refused when the database
revision has changed.  The engine never passes `configured_max_age`, so
`REFRESH_IF_STALE` is modelled without it.  `Paginated` is TRUE for every query
but `get_library_status`, which alone sends no revision.

### ResourceLifecycle

One content item with one resource.  A run lists the item (or reads it as
unavailable), fetches or fails, and at its end applies its inventory if it read
all of it; a standalone fetch of a live source rediscovers the item first.
`Abandon` is both a crash and `_finish_failed`, which leave the inventory
unapplied.  The statuses `UNAVAILABLE` and `REMOVED_CONFIRMED` are never written
by the code and removal candidates are read by no decision; both are left out.

### ResourceVault

One resource, its item always ACTIVE.  A fetch goes through its phases: clock and
metadata, `get_current_version`, the decision, the stream, the blob, the version
row, the view, the pointer, the receipt and jobs; it may fail or die between any
two, and publishing the view may fail and let the fetch go on.  `owed` is history:
the versions whose publication died or failed, which `repair_views` pays.  Of the
receipts, those of failed fetches are left out (no decision reads them).  A
capture counts as replayed when an earlier *finished* run imported it.  Nothing
under `src/src` calls `repair_views`; hosts and tests do.

### SyncRun

Every run goes through the same `Steps` in one order and does those its request
wants (`Wanted`, `From`): `sync_all` lists the courses and then, from "content" on,
takes the accepted ones one after the other (`NextCourse`); a run over one course
reads its availability and its scopes; a refresh has a single scope.
`work[r].reader` is `_Progress`: a page is any sequence of items of the scope, with
any coverage and any next cursor (`Pages`).  Courses and content items are stored
item by item (`StoreItem`); event records are stamped, then stored one by one, so
two runs interleave between the two.  `Refused` and `Merged` keep apart the two rules the code has for the coverage
of pages.  `owed` is history: pages, folders and items announced and not yet read
or stored.  At its end a run records scope by scope, each result and then its
attempt, and only then its status.

Left out: `DiscoverySync.run`, which only tests call; `max_assessments`, whose
default of 10 000 no caller changes; fetching without discovery, which no
operation asks for (`FetchesDiscover`; through the Python API
`quick_sync(include_content=False, fetch_resources=True)` would report `resources`
COMPLETE having read nothing).  A page that claims FAILED cannot be built
(`Page.__post_init__`), so such an answer is an error.  A refresh of assessments
never is COMPLETE, since it has no inventory.

### SearchIndex

Rows of one store: versions, parses, the rendered page and its descriptions,
extractions and their claims, and the documents the index holds of them.  Every
action ends with `Refresh`, the last thing `Database.transaction` does before it
commits: the courses whose triggers fired are projected again, and every course
when the database was migrated and never projected.  A document carries its
course's title, the current version of its resource and the status of its parse,
so that one kept too long differs from what a rebuild writes.  The import of
visual evidence is four transactions and may stop between any two (`GiveUp`).

### EventFusion

One course and one temporal field.  A record of an extraction, its candidate, its
event source and its source claim share a key; an event is named by the candidate
that anchored it.  What the rules may draw from an input is a menu (`Drafts`): an
announcement, a second one that moves it, and a document about the same or
another assessment.  `Matched` binds candidates to events in the code's order,
ordinary ones, changes, and what is still open; `Recomputed` weighs the claims of
an event: groups of agreeing values, the dated explicit change, the conflict, the
manual decision.  A reconciliation whose input hash is recorded is reused.

*Instants and the write lock.* A reconciliation takes the lock, finds its input
hash new and reads its instant (`BeginReconcile`); it commits (`ReconcileCourse`),
or fails or dies (`RollBack`). Its claims carry its instant (`source[k].created`).
While it is open nobody else writes, but a user may ask for a decision:
`BeginResolve` reads `decidedAt` without the lock and then waits (`ResolveField`
needs `reconciling = Idle`). `Displaced` compares the two instants as the code
does. `clock` moves with every request, so that two reads of it are never equal
unless the reconciliation was open first, and then the claim is not newer, as in
the code; real clocks of microseconds are taken neither to tie nor to go back.
What the user could see (`seen`) and which reconciliation was open (`during`) is
kept in the request and the decision for the properties only: no guard reads it. A
wait longer than the busy timeout (five seconds) stores nothing, which is a
request that is never resolved. A run that is reused, and the reads of extraction,
are one step: their instants order nothing.

Left out are the changes `CANCELLATION` and `VENUE_CHANGE` and values of week
precision (`DraftsTyped`).


## 3. Runs

Every run is exhaustive for its bounds.

| Run | Properties | Bounds |
|---|---|---|
| `jobs_race` | TypeOK, RowsCoherent, OneHolder, LostOnlyAfterExpiry, LeasesHonoured, LedgerRefined, JobsSettle | two processes, one chain of two jobs, two attempts each, one crash, leases of one tick |
| `jobs_releases` | DependenciesFirst, ArtifactsPinned | one process, the four jobs of a version, two parser releases, one crash |
| `freshness_queries` | TypeOK, MarkersOrderFree, CompleteIsStored, CurrentHidesNothing, AnswersServeTheirSnapshot, PagesAgree, SatisfiedMeansFresh | two processes, one of which queries, four requirements, two runs, three instants, two pages |
| `lifecycle_runs` | TypeOK, AvailabilityFollowsEvidence, MissingMeansOmitted | two processes, two runs, three instants; captures, standalone fetches, an item that may be unavailable |
| `vault_fetches` | TypeOK, BytesBehindEverything, ViewsCatchUp, CurrentMovesForward | two processes, three runs, two contents, two instants |
| `vault_replays` | SkipRestsOnVerification | one process, three runs, a capture, two contents and two fingerprints, standalone fetches, repairs, omissions |
| `events_decisions` | TypeOK, ManualHonoured, LaterEvidenceReopens, ReusedRunIsCurrent, SupersedesAcyclic, DecisionsLapseForCause | three inputs about one assessment, three extraction records, two manual decisions |
| `events_waits` | UnseenEvidenceReopens, violated | as `events_decisions` |
| `index_writers` | TypeOK, IndexHoldsProjection, CompleteHidesNothing, OneReusableParse, TextStaysSearchable, ImportIsProjected | two processes, one resource, two parses of two contracts, one description, two extractions, and two versions or changes of title in all |
| `sync_scopes` | TypeOK, CompleteReadEverything, CurrentIsNewest, RunTellsTheTruth | five requests, see below; pages of at most two items, one cursor, two instants |
| `sync_aborts` | FailedScopesAppear, violated | a run over one course whose content inventory may fail |
| `sync_pages` | PagesFollowed, violated | a refresh of due items from a source without errors |

Which properties a run checks differs where two runs of a model would check the
same: `SkipRestsOnVerification` needs captures and omissions, `ViewsCatchUp` two
processes.  What a small side of an instance cannot show is shown by
the theorem alone: a write to another course than the one marked (`index_writers`
has one course), several processes in `jobs_releases` and `vault_replays`, and
inputs about a second assessment (`events_decisions` has one; the first larger
instance below has two).

**The requests of `sync_scopes`.**  A run over all courses, with content and
schedule, two of which may be listed; a run over one course with availability,
content, assessments and fetches, and every flaw; a refresh of due items with
every flaw; and two refreshes of announcements at once, both live or one of a
capture.  They are alternatives (`Requests`), since the product of two full runs
says no more: they meet only in the rows of observations.  A `Flaw` names what
may go wrong: pages that claim less, invalid or no items, no capability or session, errors of
the source, of fetches, jobs and storage, and the death of the process.  Pages of
two items hold a duplicate and its original, or a folder and its child; the limit
of pages and of nodes is met exactly and exceeded.

**Larger instances**, run once and not part of the project: `EventFusion` with two
assessments and two decisions, all properties of its passing run (2 421 040
states); `SearchIndex` with two
descriptions and one version (705 561), and with two descriptions and two
versions but no change of title (1 507 473).  No property failed.

**Why the bounds are enough to be of interest.**  The hazards are races of two
parties over one row: an old claim and its successor, a late recording and the
newer one it must not undo, a download and the one that overtakes it.  Two
processes exhibit each.  Two instants distinguish old from new and equal stamps
occur as well; three put something between.  The lease and the verification
interval are one tick, so each is met both held and expired.  Three runs in the
vault let a version be current, be displaced and come back.  `MaxRun`, `MaxTime`,
`MaxPage`, `MaxAttempts`, `MaxCrashes`, `MaxRelease`, `MaxRecord`, `MaxDecision`,
`MaxSync`, `MaxParse`, `MaxNote`, `MaxExtraction`, `MaxItems` and `Asker` are the bounds.
They are guards of the actions that consume them; none is a constraint on states.

**Deadlock.**  It is checked for the queue, whose clock may always advance and
whose runs repeat, and for `SyncRun`, where only `Rest` stutters, and only when
every run is over or its process dead: that no deadlock is found says that every
run comes to an end.  The other models stop when their bounds are used
up, so their cfgs say `CHECK_DEADLOCK FALSE`.

**Symmetry** is over processes, and over contents in the vault run without a
capture; neither is used with a liveness property.

### Fairness

Only `JobsSettle` needs it (`FairSpec` in `LocalJobs`).

* The clock advances, a synchronization is eventually started, and a process that
  is running takes its next step (weak fairness of `Tick`, `StartSession`,
  `RunStep`).  The user is told to run synchronizations again
  (docs/usage.md:320-325), and nothing in the runner waits.
* Sessions end and, being repeated, rediscover and plan every input again (strong
  fairness of `EndSession` and `Plan`): a sync plans for whatever it observes.

A job FAILED for good, jobs behind one, and jobs of a release that is no longer
installed count as settled: the code does not come back to them on its own.


## 4. Findings

Each is a run that ends in a violation; `PROJECT.json` quotes the text it
contradicts.

* `sync_aborts` (`sync/engine.py:566`).  A content inventory that ends FAILED (no
  session, or an error on its first page) is handed to the event sources, which
  raise `ValueError` for such a coverage before anything else.  The run ends as
  an engine error: nothing it read of any course is recorded, the failed scope
  included, although docs say that failed scopes appear in the result.
* `sync_pages` (`sync/event_sources.py:438`).  A second page of UNKNOWN coverage
  is refused as a protocol error, while the adapter claims UNKNOWN of every page
  of due items (`client/ntulearn.py:618`): of a longer list only the first page is
  stored.  Discovery, which has the same rule in other words, accepts such pages.
* `events_waits` (`events/reconciliation.py:1476`).  A user asks for a decision
  while a reconciliation holds the write lock.  Its claims are stamped with an
  instant read inside its transaction, before the decision's, and become visible
  after it; since `created_at > decided_at` is false for them, a claim that
  contradicts the decision, and that its user could not see, is set aside for as
  long as both are current.  docs/usage.md:268 says that a later incompatible
  current claim reopens the field.  `LaterEvidenceReopens` says what does hold:
  only claims of the reconciliation that was open then are hidden so.

### Divergences without a run of their own

These properties are defined in the modules, quote a document, and are violated;
adding the definition to the `INVARIANTS` of the cfg named shows it.

* `OmissionsHaveAccessibleParent` (`ResourceLifecycleRuns.cfg`;
  `sync/lifecycle.py:100`, docs/development/capability-ledger.md:88).  Whether the
  parent is accessible is read when the inventory is applied, at the end of the
  run.  If another run stored the item as accessible in between, an inventory that
  could not look into the item marks its resources MISSING.
* `RestoredOnlyWhenSeen` (`ResourceVaultReplays.cfg` with `Interval = 2`;
  `sync/resources.py:176`, docs/architecture/data-model.md:135).  A standalone fetch
  that decides to skip the download records a sighting with its own clock: a
  MISSING resource becomes ACTIVE, which is to mean "currently observed", without
  the source having been asked.
* `CurrentIsLatestVerified` (`ResourceVaultFetches.cfg`; `storage/resources.py:738`,
  docs/architecture/storage.md:60).  A verified download becomes current only if
  no observation, *not even a bare listing*, is newer.  Another process that lists
  the resource during the download keeps the bytes from becoming current.
* `IndexCommitsWithSource` (`SearchIndexWriters.cfg`; `events/extraction.py:436`,
  `index/fts.py:417`, docs/architecture/storage.md:125).  A new extraction record
  retires the claims of the earlier one of its version, but marks no course: the
  index keeps their documents until the next write to the course.
  `IndexHoldsProjection` is what does hold.

### Other observations

* A run that lists an item twice with the same content keeps the first instant in
  its row (`events/repository.py:319`); an observation of another run between the
  two may then displace what was seen last.  `CurrentIsNewest` excepts such items.
* A claim that is stored unresolved before a decision, and bound to the event
  after it, does not reopen the decision: what counts is when it was stored.
* Importing visual evidence for an older parse makes the extraction of that parse
  the one in effect, while searches show the text of the latest usable parse.
* `get_library_status` alone sends no database revision, so its counts and its
  freshness may come from different states.
* An inventory is stamped when its scan ends; a sighting by another run after the
  inventory read the page, but before it ended, is overridden by the omission.


## 5. Proofs

`LocalJobsProofs` proves, for every set of inputs and processes and every value
of the bounds, from `LocalJobsAssumption` and `NoJobAssumption`:

| Theorem | Statement |
|---|---|
| `TypeCorrect` | `Spec => []TypeOK` |
| `RowsStayCoherent` | `Spec => []RowsCoherent` |
| `DependenciesComeFirst` | `Spec => []DependenciesFirst` |
| `MutualExclusion` | `Spec => []OneHolder` |
| `LossIsExpiry` | `Spec => []LostOnlyAfterExpiry` |
| `ArtifactsStayPinned` | `Spec => []ArtifactsPinned` |
| `ClaimsAreHonoured` | `Spec => LeasesHonoured` |
| `QueueImplementsLedger` | `Spec => LedgerRefined` |
| `Invariance` | `Spec => []IndInv` |

**The argument for the queue.**  None of the properties is inductive.  `OneHolder` needs that no
two processes work under the same claim (`ClaimsDistinct`), which needs that a
row's token is that of its latest attempt (`ClaimsInFlight`): a new claim raises
`attempts` and so takes a token above every older one.  `LostOnlyAfterExpiry`
needs that a held row's lease was counted from its claimant's clock, and that no
clock is ahead of `now`: a row leaves a claim either by recovery, whose test
against a clock not ahead of `now` means the lease is over, or by a finish with
the same token, hence of the same process.  `DependenciesFirst` rests on the order
of keys within a plan (`Rank`) and on SUCCEEDED rows never changing.
`ArtifactsPinned` follows the pinned release through the task a process carries
from execution to finish.  `IndInv` is the conjunction; the proof that a step
preserves it has a step for each action and, below it, for each conjunct the
action can disturb.  The refinement maps the starts of a job to its attempts.

`ScopeFreshnessProofs` proves of the sync state and its queries, for every set of
processes and every number of runs, instants and pages, from the assumption on the
constants (`MaxTime` is at least 1):

| Theorem | Statement |
|---|---|
| `MarkersAreOrderFree` | `Spec => []MarkersOrderFree` |
| `CompleteScopesAreStored` | `Spec => []CompleteIsStored` |
| `CurrentScopesHideNothing` | `Spec => []CurrentHidesNothing` |
| `ScopeInvariance` | `Spec => []ScopeInv` |
| `ScopeTypeOK` | `Spec => []TypeOK` |
| `ScopePagesAgree` | `Spec => []PagesAgree` |
| `AnswersAreOfTheirSnapshot` | `Spec => []AnswersServeTheirSnapshot`, given `Paginated` |
| `SatisfiedAnswersAreFresh` | `Spec => []SatisfiedMeansFresh`, given `Paginated` |

**The argument for the sync state.**  `UpsertedMarkers` is the heart: an upsert
keeps every marker the latest of the attempts it stands for, *provided the new
attempt has a stamp of its own*.  Two attempts with one stamp and different
coverage would make the row depend on their order.  So `MarkersOrderFree` is not
inductive; `RunsDistinct` adds that keys are handed out once, that the runs under
way have different ones, and that a run with a pending result has recorded nothing
under its key.  `ReadsStored` carries what a run has read to the moment it records
it.  `CurrentHidesNothing` then follows without time: the status looks at the
latest attempt, and the markers say that it is the latest.

For queries, `QueryInv` says how what a query holds fits the row and the data of
this moment (`Fits`): a query that pages and finds the revision unchanged
has loaded exactly what is stored.  `AllServe` then says of the past what
`CompleteIsStored` says of the present: the snapshot a query judged had been
recorded, and the data it loaded is no older than that snapshot.  It is the revision sent along
that joins the two reads, which is why the two theorems on answers assume
`Paginated`: without it (`get_library_status`) nothing does.

`SearchIndexProofs` proves, for every number of processes, resources, versions,
parses, descriptions and extractions:

| Theorem | Statement |
|---|---|
| `ParsesAreShared` | `Spec => []OneReusableParse` |
| `IndexTypeOK` | `Spec => []TypeOK` |
| `IndexIsProjected` | `Spec => []IndexHoldsProjection` |
| `CompleteSearchesHideNothing` | `Spec => []CompleteHidesNothing` |
| `FoundTextStays` | `Spec => TextStaysSearchable` |
| `ImportsAreProjected` | `Spec => ImportIsProjected` |

**The argument for the index.**  The cache is read long before the result is
stored, so `OneReusableParse` rests on the test in the storing transaction
(`Taken`) alone and on parses being only appended.  `IndexHoldsProjection` is
incremental maintenance: for every action that writes, either the course is among
those its triggers mark, and is projected again, or each kind of document projects
as before (`ProjectionKept`, from one lemma for each kind).  Every writer has a
lemma that it does one or the other; the extraction that retires an earlier one,
the divergence noted in section 4, does so only up to retired claims.
`TextStaysSearchable` needs that a usable parse is displaced by usable ones only.
`ImportIsProjected` is about four transactions with others in between; `ImportInv`
says that an extraction of the imported description or of a newer one exists
(`Serves`), and after the third transaction that its claim does.

`ResourceLifecycleProofs` and `ResourceVaultProofs` share the lemmas of
`ResourceEvidenceProofs`: there is always one newest observation (`NewestExists`,
by a least element of a set of naturals), and recording one either leaves the row
alone or makes it say what the new one says.  Both are for every number of
processes, runs, captures and instants, the vault also for every set of contents
and fingerprints.  Beyond the types of the constants they assume that there is some
metadata (`Meta # {}`), which the type of a fetch needs, and that two captures were
not taken at one instant.

| Theorem | Statement |
|---|---|
| `LifecycleTypeOK` | `Spec => []TypeOK` |
| `LifecycleEvidence` | `Spec => []AvailabilityFollowsEvidence` |
| `LifecycleMissing` | `Spec => []MissingMeansOmitted` |
| `LifecycleWindow` | `Spec => []WindowSpansSightings` |
| `LifecycleItem` | `Spec => []ItemFollowsReadings` |
| `VaultTypeOK` | `Spec => []TypeOK` |
| `VaultBytes` | `Spec => []BytesBehindEverything` |
| `VaultViews` | `Spec => []ViewsCatchUp` |
| `VaultCurrent` | `Spec => CurrentMovesForward` |
| `VaultSkips` | `Spec => []SkipRestsOnVerification` |

**The argument for the lifecycle.**  The row is a fold of the observations in the
order of their recording; that it says what the newest authoritative one says,
whatever that order, is `Follows`, and `FollowsStep` is one step of it.  "Newest" is
by instant, then by run, then by key: the code compares instants and runs only, and
the key decides the ties because what is recorded last is not older.  `Ready` says
that a run which applies an inventory without the resource has that inventory,
complete, on record: a run that fetches has seen the resource.

**The argument for the vault.**  `BytesInv` follows the bytes of a fetch through
its phases (`FilesReady`): the blob exists from the moment it is published, which
is before any row names it.  `ViewsCatchUp` is inductive on top of it: every step
that moves the current version leaves a fetch in flight or a debt.
`CurrentMovesForward` is a step property: only `RecordVerified` moves the current
version, and its test reads the observations of that instant.  For
`SkipRestsOnVerification`, `SkipInv` carries the ground of a skip (`RestsOn`: a
receipt of the version's own bytes, young enough by the clock that was read) from the
decision over the transaction to the receipt; the receipt of a skip repeats the
instant it rests on, so that a chain of skips does not grow old unnoticed.

`SyncRunProofs` proves, for all requests, trees of content, pages of any size and
any number of runs, from `BoundsTyped`, `KindsTyped`, `RequestsTyped` and
`NamesApart`:

| Theorem | Statement |
|---|---|
| `RunTypeOK` | `Spec => []TypeOK` |
| `RunCompleteReadEverything` | `Spec => []CompleteReadEverything` |
| `RunCurrentIsNewest` | `Spec => []CurrentIsNewest` |
| `RunTruth` | `Spec => []RunTellsTheTruth` |

**The argument for runs.**  `Fits` types a reader: it holds what its scope lists.
`Honest` is the invariant of paging: the pages announced and not yet read are those
at the cursor and at the folders still to visit (`Frontier`), and the items owed
are those still pending, unless the coverage or the cause says that something was
left out.  Each operation of the reader has a lemma that it goes from a fitting,
honest reader to one (`Goes`), whatever the page.  So a reader that ends COMPLETE
has nothing announced left, and `ReadInv` carries that to the recorded result.
`CurrentInv` adds to `CurrentIsNewest` that no row is newer than the latest
sighting of its thing: instants are read before the transaction, so nothing can be
said of the order of storing.  `RunInv` accounts for
what was asked: every scope of every course asked for is behind the run (`Told`),
or the course is ahead (`left`), or it is the current one and the scope is at or after its
step (`Covered`); the exception is a course that was not found (`GaveUp`).  When
nothing is ahead any more, everything asked is told, and `Ends` says that the
status of the run agrees with what was told.  The first wanted step and the newest
observation exist by well-founded minimum, without recursion.

`EventFusionProofs` proves, for all inputs, contexts, stamps and drafts and any
number of records and decisions, from `RowBounds`, `InputTables`, `DraftsTyped` and
`LocalValuesTyped`:

| Theorem | Statement |
|---|---|
| `EventsTypeOK` | `Spec => []TypeOK` |
| `ManualAlwaysHonoured` | `Spec => []ManualHonoured` |
| `LaterEvidenceAlwaysReopens` | `Spec => []LaterEvidenceReopens` |
| `DecisionsEndForCause` | `Spec => DecisionsLapseForCause` |
| `SupersessionNeverCycles` | `Spec => []SupersedesAcyclic` |
| `ReusedRunsAreCurrent` | `Spec => []ReusedRunIsCurrent` |

**The argument for events.**  `Typed` says what the rows owe each other: what is
bound stays bound and to an event there is, a decision is on a claim of its own
event or on its own value, and so is a pending request.  Binding
is proved on books: each candidate takes a sound book to a sound one (`Sound`), and
the three passes over the keys are a function whose existence is proved first
(`BooksExist`).  Every step either decides nothing (`Quiet`) or is one recomputation
(`Recomputes`), and `Judges` says which decisions that one ends.  `Timely` relates
the instants: a decision or request is older than the clock, the claims its user
saw are no newer than it, and any other claim no newer than it is of the
reconciliation that was open then.  It needs the transaction under way as well: if
its instant is not later than a request's, it is the one the request names.  From
`Judges` and `Timely` follow `LaterEvidenceReopens`, since a claim that does not
displace a decision is no newer than it, and `DecisionsLapseForCause`, since one
that does is newer and so neither seen nor of that reconciliation.  `Shown` adds what an event shows and that every supersession
link goes down in `Height`, twice the date plus the precision: a successor is newer
than the claims of the other groups, and in its own group newer or more precise
than every change that it does not agree with.  A cycle would have no lowest claim.

`ReusedRunIsCurrent` is the deepest.  It is not inductive, because a hash can come
back: a decision that lapses at once leaves the hash of an earlier run.
`ReuseInv` says that as long as the current extractions are those of any recorded
run, either every event is as a recomputation would leave it (`Fresh`) or an
identity of a current source has been decided that no recorded run knows
(`NewlyIdentified`), in which case the hash is a new one.  A decision on one event
keeps the others fresh by `Local`: what an event shows depends on its own claims,
the rows on it and the current sources that resemble it.  Only binding a current source
changes which sources resemble another event, and that is the second case.  An
extraction makes a set of current extractions that no recorded run has, and old
ones do not come back.

**Only model-checked.**  `JobsSettle` (liveness under fairness is beyond the
prover), and the three violated properties, of which a counterexample is the
point.  Every other property that a passing run checks is a theorem, the two on
answers given `Paginated`.


## 6. Not modelled

* Conversions: parsing of PDF and DOCX, rules that read dates from prose, payload
  translation, ranking, presentation, paths and file names.
* The transport's and the captures' validation: pure functions of one request or
  one manifest.
* Sizes, quotas and the computation of hashes; a content is an element of `Hash`.
* A failing SQLite or file system beyond "the transaction did not happen" and
  "the view could not be written".
* Migration: all pending migrations run in one exclusive transaction after a
  backup, a single step without a state between.
* Classification and `apply_selective_fallback`: no operation calls them.
* The scope coverage of a search, which repeats the latest recorded results.
* Removal candidates, warnings, counts and audit rows, which no decision reads.


## 7. Plan

1. Done: the queue with its proofs; freshness; lifecycle; vault; runs; the index;
   events.
2. Proofs done: every invariant and action property of every passing run, and the
   refinement of the queue.
3. Left: the five hazards listed without a property that a run checks.  Three are
   divergences told in section 4 (the parent's availability at the end of a run;
   items listed twice; skips that restore a resource).  In the other two (a scan that spans the start of a query,
   omissions lost in a crash) no document says what should hold.
