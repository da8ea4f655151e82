# Market Aligner: specification and proofs

Market Aligner collects vacancies from public boards, assesses them for a
profile, researches employers and hands selected vacancies to an application
component. It is a set of short-lived command-line processes over two SQLite
databases and a tree of files. There is no daemon and no lock on the data root:
what keeps two processes apart is SQLite transactions, conditional updates,
leases and content hashes. That is what this directory models. It holds TLA+
modules, the TLC configurations that check small instances of them, and proofs
that the TLA+ proof system checks for every value of the constants.

Paths below are relative to `src/src/market_aligner/`.

## 1. Inventory

| component | state it keeps | operations | hard behaviour | correct when |
|---|---|---|---|---|
| vacancy refresh (`collectors/engine.py` `refresh_vacancy`, `state/vacancies.py` `vacancy_refreshes`, `service/api.py`) | journal rows, content objects, cache file, receipt files | call and replay, begin, start fetch, record, object ready, seal, materialize, write receipt | replay by another process at any point, death at any point, late answers, a source that answers for something else | one official fetch per operation, bytes durable before they are needed, commit is a compare-and-swap, receipts sealed, replay finishes the work |
| collector cycle (`Collector.run`, `cycle`, `migrate_existing`) | `postings`, `source_state`, raw cache, the process's queue | import, discover, fetch, `store_raw`, `_save_raw`, `record_error` | death between two writes, failing saves, polling intervals against pending rows, imports of old caches | row and cache agree, discovered vacancies are fetched in the end |
| both on one data root | as above | as above | unconditional writes of the one between two transactions of the other | a committed refresh is not undone, a commit never overwrites what it did not expect |
| assessment store and research queue (`research/store.py`, `research/worker.py`, `assessment/opportunity.py`) | assessments, promotions, queue rows with leases, dossiers, evidence, events | score, gate, promote, claim, complete, fail, requeue | decisions that change while a worker holds a lease, expired leases, requeue of completed work | only passed vacancies are researched, a dossier comes from the lease holder, the queue never wedges |
| processing leases (`state/vacancies.py` `processing_jobs`, `service/processing.py`) | one row per profile, track, vacancy, authority, content, configuration | promote, claim, complete, fail, reuse, report | content that changes while it is processed, expired leases, restarted workers | a result belongs to the content it names, finished work is not repeated |
| journal migration and quarantine (`state/vacancies.py` `JobDatabase.__init__`, `_migrate_vacancy_refresh_schema`, `_migrate_processing_identity`) | archived journal, quarantine rows, earlier results | open: archive, carry over or quarantine, verify, relabel results | an earlier row whose fetch outcome is unknown, statements that commit on their own, two processes that open at once | no earlier operation is fetched again, every later opening accepts what refreshes made of the carried rows |
| fetch control (`collectors/fetch_control.py`) | attempts per resource and policy | decide, record | escalation across engines, blocked and challenge outcomes (no caller outside its tests) | bounded attempts, no escalation past policy |
| observability outbox (`state/observability.py`) | traces, spans, events, outbox rows | enqueue, claim, ack, fail, requeue | expired leases, retries, dead letters (no caller outside its tests) | at-least-once, nothing acknowledged by a former holder |
| application handoff (`applications/*.py`) | sealed promotions, envelopes, bundles | promote, produce, write bundle | results, contents and scores that change between the reads of a promotion, or between promotion and handoff | a promotion is a result of the content it names, an envelope carries the score that was promoted |
| deterministic assessment (`assessment/*.py`) and normalisation (`normalisation/*.py`) | none | scoring, eligibility, viability, deduplication | boundary values, ties | total and order-independent results |
| profiles, semantic gateway, research provider, reports, adapters, command line | files, external processes, the web | | | input or output of the above |
| JAA production queue and attempts (in `src/internal/jaa/career_automation`: `production_runner.py`, `production_queue.py`, `production_attempt.py`) | attempt directories, checkpoint ledger | build queue, create or resume an attempt, record, prefill, close, checkpoint | death between any two files, runners that overlap, several job keys of one posting | an incomplete attempt is resumed, a click or a terminal outcome bars every later attempt |
| JAA application archive, release gate, submit executor (`application_archive.py`, `candidate_release_gate.py`, `production_ats_executor.py`, `browser_executor.py`) | archive events, release tokens, click intents | issue, supersede, finalize, consume, record intent, click, reconcile | a token checked in one transaction and consumed in another, a click whose outcome is unknown | at most one click, on record before it happens |
| rest of the internal application subsystem (`src/internal/jaa`) | its own databases and evidence archives | admission, preparation, witnesses, outcomes | separately certified | |

How they interact: the collector writes `postings` and the raw cache; a refresh
reads both and writes both; `processing_jobs` references `postings` by content;
an assessment promotion binds a processing result; the research queue is fed by
the opportunity gate or a promotion and may be requeued from a refresh receipt;
the handoff reads assessments, promotions, dossiers and evidence.

`PROJECT.json` lists every component with its status and every hazard of the
code with the properties that cover it.

## 2. Modules

| module | models | state |
|---|---|---|
| `Postings` | the tables and files that collector and refresh share | `posting`, `cache` |
| `VacancyRefresh` | one refresh call per process, one action per transaction, file operation or network call | `journal`, `objects`, `receipts`, `pc`, locals `request`, `tr`, `raw`; history `fetches` |
| `CollectorCycle` | one collector process: import, cycle, death | `polled`, `at`, `todo`, `due`, `queue`, `job`, `response` |
| `Collection` | `VacancyRefresh` and `CollectorCycle` over the same `Postings` | history `concurrent` |
| `JournalMigration` | `JobDatabase.__init__` on a database of an earlier version, and what refreshes make of the journal afterwards | `kind`, `old`, `table`, `archived`, `entry`, `quarantine`, `results`, `aside`; locals `step`, `window`; histories `relabelled`, `asked`, `troubled` |
| `DataRoot` | `JournalMigration` and `CollectorCycle`: a data root from its first opening by this version on | |
| `Processing` | runs of `ProcessingService.process` over `processing_jobs` and the assessment scores | `collected`, `posting`, `row`, `score`, `lock`, `report`; locals `pc`, `config`, `snapshot`, `rows`, `shard`, `result` |
| `AssessmentPromotion` | promotion and handoff of what `Processing` completes | `receipts`, `promotion`, `handoffs`; locals `at`, `held` |
| `RefreshLedger` | what refreshes promise their caller: the abstract specification that `VacancyRefresh` implements | `stage`, `context`, `asked`, `answer`, `receipt`, `current`, `told` |
| `ResearchQueue` | the assessment store, the opportunity gate, the research queue and its workers | `assessment`, `promotion`, `gate`, `row`, `event`, `dossier`, `evidence`, `archive`; locals `pc`, `task`, `made` |
| `Submission` | the production runner of the application subsystem: queue, attempt archive, checkpoints, release token, click | `attempt`, `started`, `completed`, `tornLedger`, `token`, `superseded`; locals `pc`, `run`; histories `clicks`, `kills`, `overlapped` |
| `Applications` | what runners promise about a candidate's applications: the abstract specification that `Submission` implements | `vacancyOf`, `released`, `permit`, `intended`, `clicks`, `verdict` |
| `VacancyRefreshProofs`, `RefreshLedgerProofs`, `CollectorCycleProofs`, `CollectionProofs`, `DataRootProofs`, `ProcessingProofs`, `ResearchQueueProofs`, `SubmissionProofs` | theorems | |
| `MCVacancyRefresh`, `MCCollection`, `MCDataRoot`, `MCProcessing`, `MCAssessmentPromotion`, `MCResearchQueue`, `MCSubmission` | instances for TLC | |

In every module content hashes stand for their content (no collisions) and time
is left out: whatever waits for an instant (a lease that expires, a queue row
that becomes available) may find that it has come.

### Vacancy refresh

A process of `VacancyRefresh` is one run of `market-aligner refresh-vacancy`.
Its `pc` is the next transaction or file operation of `Collector.refresh_vacancy`.
`tr[p]` is the local `transition`, a snapshot of the journal row which the code
reloads after each transaction (`Reload`), and `raw[p]` the bytes in hand.
`BEGIN IMMEDIATE` methods are one action (`Begin`, `Seal`). Methods that SELECT
and then UPDATE with a guard in the WHERE clause and test the row count, or do
nothing further with the row, are one action too, because the update decides
(`StartFetch`, `MarkIndeterminate`, `MarkObjectReady`).
`record_vacancy_refresh_fetch` is two (`ReadForRecord`, `RecordFetch`): it reads
in autocommit, updates conditionally and ignores the row count, so a late answer
may find the operation already indeterminate. A raise of any kind and a killed
process are the same thing, `Leave`; `Crash` may happen at every point.

A raw response is a record of vacancy key, content identity and `fetched_at`.
A content object is its content, so "written with the wrong name" does not
arise. The URL, the posting date, the wording of errors and receipts, board
configuration and the legacy content identity are left out; each extra refusal
of the code that depends on them is a raise, which `Crash` covers. The
validation of journal rows, objects and receipts against tampering
(`_validate_refresh_transition`, `_verify_refresh_objects`) holds in every state
the program itself produces and appears only where it depends on state, as
`ObjectsVerified`.

### The ledger of refreshes

`RefreshLedger` has no processes, deaths, objects or cache files. An operation
is admitted over the response it may replace, asks the official source at most
once, and either takes the place of that response in one step, under one
receipt, or stays unknown for good. The refinement mapping is in
`VacancyRefresh`: `StageOf` reads the stage off the status of the journal row,
`JournalContext`, `JournalAnswer` and `JournalReceipt` its columns, `StoredResponse`
the posting, `fetches` is `asked` and the receipt files are what callers were
told. Object files, snapshots, cache writes and deaths are stutters; the fetch
and its record are `Ask` and `Answer`; the seal is `Commit`. With collectors on the
same data root the mapping leads to `SharedLedgerSpec`, whose `Overwrite` is a
writer that takes no part in the journal.

### Collector cycle

A collector handles completions in its main thread one at a time. Discovery and
fetch threads only produce values, so a response that waits in the pool is
chosen when it is taken. The rows of a discovered board are upserted in one step
(the code uses a transaction per row); no other action depends on a partly
upserted board.

### Journal migration and data root

Every process opens the database before it does anything else, and the opening
migrates what it finds. Outside of a transaction a statement commits on its own,
so each one is an action: `CreateSchema`, `Inspect`, `Rename`, `Create`,
`Validate`, `InspectResults`, `RenameResults`, `CreateResults`. The first INSERT
begins a transaction that ends with the opening. `Fill` is therefore the whole
rest of an opening that has a row to carry over or to quarantine, and
`CopyResults` the copy with its DROP; its argument says whether the results fit
under the reserved digest, which they always do unless results of a current
configuration had been put aside too (`relabelled`). A statement that fails ends
the opening (`GotoIf`), which the next call starts anew.

`old` is the journal that the earlier version left, one of `Journals`; `exact`
says whether a row can be represented in the current schema. `Disposed` is
`_validate_legacy_dispositions` for one archived row and `Progressions` its table
of what a row may have become. A database has the journal of one earlier version
(`kind`).

After the opening a refresh is reduced to what it does to the status of the
journal (`BeginRefresh`, `StartFetch`, `RecordFetch`, `FetchFails`, `Replay`); the
seal, which also writes the posting, is in `VacancyRefresh`. In `DataRoot` a
process that collects does so with the database open and no fetch of a refresh
under way (`Idle`); `Collapse` is its death.

### Processing

A worker of `Processing` is one run of `ProcessingService.process` for one
profile, track, authority and scope. `Start` and `Promote` are the two halves of
`promote_fetched_from`, the read transaction on the collector's database and the
write transaction on the other; `collected` holds what `store_raw` and
`record_error` leave in the former, `posting` what is in the latter. `Claim` is
`claim_fetched_for_processing`; its argument `expired` is the set of leases whose
time has run out, and `MaxOvertakes` bounds those that run out while their owner
is still at work. A key of `row` is vacancy, content and configuration, as in the
primary key of the table. `Evaluate` stands for extraction, policies and
alignment with the reuse of an older result: a result is the vacancy, which
remembers the content it was read from, and the axes, which are absent when the
policies do not include the vacancy. `Score` (`upsert_score`, in the other
database) and `Complete` are two steps, `Raises` and `Fail` are the `except`
branch, and whatever is raised outside of it ends the run as a killed process
would (`Leave`). The report is read and written under one `BEGIN IMMEDIATE`
(`ReadForReport`, `WriteReport`, `lock`).

Left out: the board filter, `max_total` and the single-vacancy scope; the receipt
of the copy and the counts, which nothing reads back; a collector that uses the
processing database itself, in which case nothing is copied.

### Promotion and handoff

`AssessmentPromotion` adds to the runs of `Processing` the processes that select
a vacancy for application. A receipt of a run is its configuration and the rows
it found, since its `state_sha256` is compared with the rows of now.
`promote_current_processing_assessment` is four steps, because it reads results,
then row and content, then the score, each in a transaction of its own and in two
databases, before `promote_processing_gate` seals the promotion in one
transaction (`ReadResults`, `ReadCurrent`, `CheckScore`, `Seal`). `held[p]` is the
binding that it assembles. Every failed check raises (`Abandon`).

`produce_handoff` reads the assessment and the promotion in two transactions. A
promotion never changes once it is there, so `Produce` is one step. An envelope is
its score and the promotion it rests on.

Left out: the decision of the opportunity gate, which is in `ResearchQueue` and
only makes `Seal` and `Produce` refuse; the priority of the research row, which is
there, too; the file of the promotion's receipt, whose bytes the row holds; the
manifest of evidence that the caller supplies; the bundle of
`production_handoff.py`.

### Assessment store and research queue

Each transaction of `AssessmentStore` is one action. The gate is two
(`ReadForGate`, then `GatePass`, `GateAborts` or `GateReject`), because
`apply_gate` decides on an assessment that it read in an earlier transaction.
The two triggers that guard the queue are `CanAdmit` and the choice of `Admitted`.
A worker of `run_one` claims (`Claim`), asks its provider (`Research`,
`ResearchLegacy`, `ProviderFails`), and completes or fails; `task[w]` is the
`ResearchTask` it was given and stays what it was at the claim. A dossier is
what it is bound to: the facts of the vacancy and the refresh of the task.
`archive` says which dossiers have their files, which `LoseArchive` takes away.
`event[t][r]` is the prior dossier of an admitted refresh, the row of
`employer_research_refresh_events`. `Identity` maps processes to the worker ids
that an operator gives them; the instances use distinct ids.

Left out: `enqueue_research`, which nothing calls and which is refused for every
vacancy that has its row already; the priority order of the queue; replays and
receipts that do not verify, which change nothing.

### Submission

A runner is one `execute_next`. The archive is a tree of create-only files
without a lock and the gate a SQLite database, so each file and each
transaction is a step of its own, and two runners may interleave at any of them.
A record of `attempt` is an attempt directory: `records` and `prefill` count
the events that it has so far, `release` is the prepared manifest and its receipt,
`intent` the durable click intent, `outcome` the terminal manifest. `Refuse`
is a call that raises, `Crash` a process that dies and may leave the temporary
file of an event behind, which makes the ledger of that attempt (`torn`) or of
the checkpoints (`tornLedger`) unreadable: the queue then refuses to be built.
`Plan` is `build_ascending_queue` over the archive; `Ready` excludes what was
clicked, closed or quarantined under any job key of the posting. `Issue` supersedes an
unconsumed token in one transaction, `Consume` consumes it in another, and what
happens in between is what `Valid` has to notice.

`Applications` says the same without runners, files, tokens that are superseded,
deaths and restarts: a vacancy has one permit, which is taken for one package;
one attempt of it declares its intent; that attempt clicks at most once, with
the documents of the permit; verdicts are given once and borne out by the click.
`ImplementsApplications` maps an attempt without a receipt to one that is not
released, and a token that is not consumed to a permit that is not taken. Six
actions (`Create`, `WriteReceipt`, `Consume`, `RecordIntent`, `Click`, `Close`)
are steps of the applications, and all others, `Crash` included, stutter.

Left out: contents of documents, forms and witnesses (a package is its
identity and the set of its documents), the reconciliation of earlier intents
inside the executor (the runner never reaches it, see below), and every preflight
check that depends on nothing that another step changes: each is a `Refuse`.

## 3. Runs

| run | instance | shows |
|---|---|---|
| `refresh` | 2 processes, 2 operations on one of 2 vacancies, one identity reused with another context, 2 contents, 2 time stamps, 2 deaths | at most one official fetch, one active operation, durable bytes, repairable cache, a row holds a response of its own vacancy, refreshes implement the ledger (so the journal only advances and receipts are sealed) |
| `refresh_live` | 2 processes, 2 operations, 1 death, fairness | admitted operations settle, committed ones get a receipt, the cache converges; the invariant of the proofs, of which the type invariant is a part |
| `cycle` | 2 processes, of which one may collect, over each earlier journal of at most 1 operation; 1 death of an opener, 1 of the collector, 2 boards, 2 vacancies, failing saves, fairness | openings accept what earlier ones and refreshes left, no earlier fetch is repeated, earlier results are found; row and cache agree, what was discovered is fetched |
| `collection` | 2 collectors (1 death), which may or may not overlap, 2 refresh processes, 2 operations, 1 vacancy | refreshes implement the ledger that they share with collectors; while collectors do not overlap, a committed refresh is not undone |
| `processing` | 2 workers, 1 promoter, 2 configurations, 1 vacancy with 2 contents, 2 alignments, 1 lease that expires early | a result is of the content it names, included results are scored, completed rows stay; a promotion is a result of the content it names, an envelope carries the promoted score |
| `processing_live` | 2 workers, 2 vacancies in one shard, 1 death, fairness | every current content is completed in the end, no report loses a current result |
| `processing_score` (violation) | 2 workers, 1 vacancy, 2 alignments, 1 lease that expires early | the score of a late worker stays although its completion was refused |
| `research` | 2 workers, 1 vacancy with 2 facts, a passing and a failing score, a direct refresh and one that continues it, 1 fault (a death or a lease that expires early), fairness | evidence, bridge and state of a row belong together, a refresh is bound once, no lease stays for ever |
| `research_gate` (violation) | 2 workers, 1 vacancy, 1 death, 1 early expiry | a rejected vacancy is researched |
| `research_requeue` (violation) | the same | a requeued row that no claim can take |
| `submission` | 2 runners, 2 attempts, 2 job keys of one posting, 2 packages, 1 death | one click, provable from the record; runners implement the applications (so nothing on record is taken back); an interrupted attempt is resumable or terminal |
| `submission_email` (violation) | 1 runner, 1 vacancy, no death | a confirmation e-mail without a confirmation page is not recorded |

Why these bounds are enough: every hazard of these protocols needs at most two
actors on one row (the owner of a step and one who overtakes it), one second
operation that supersedes the first, and one death of each. In the refresh two
contents tell "as expected" from "changed" and two stamps tell two fetches of
the same content apart; a second vacancy matters only for a source that answers
for the wrong one and starts unknown. In processing a second content is a page
that changes between claim and completion (contents may return, so it is no
counter), a second configuration is what a result is reused for, and two
vacancies make a shard in which one fails and the other does not. In the
research queue vacancies do not meet, so one is enough; two refreshes are one
that starts from the promoted content and one that continues it. A limit that
cuts a shard short (`ShardSize` smaller than what is available) occurs in no run;
the proofs cover it. In a submission two attempts and two packages are the
second try that must not happen and the replacement of a token that somebody
holds. `MaxCrashes`, `MaxKills`, `MaxFaults` and `MaxOvertakes` bound deaths and
early expiries; the proofs do not depend on their values.

Five instances are cut by a state constraint, which leaves the cases below and
their prefixes. `OneOverlap` (`collection`): collectors overlap, or a second
operation begins, or a second process refreshes. `MigrateOrCollect` (`cycle`):
two processes open a data root of an earlier version and refresh, or a collector
is alone on one without operations. `ProcessOrPromote` (`processing`): until there
is a receipt pages do not vanish and alignments do not differ, and afterwards there
is one configuration and runs do not overlap. `OneKindOfTrouble` (`research`):
facts change with at most one refresh, or a second refresh follows, or there are faults. `OneKeyOrOneRunner`
(`submission`): runners overlap on one job key and replace its token once, or
runners that do not overlap meet both. A constraint cuts states and not actions, so `LeaseIsResolved` and
`DiscoveredIsFetched` are checked over the behaviours that stay inside; the safety
properties of all five that matter across these cases are proved without the constraint.

Deadlock is checked in every run but those of `Submission`: a refresh process can
always be called again, a page can always change, an assessment can always be
scored again. The production runner really stops: when every posting is
quarantined or the archive is unreadable there is nothing it may do.

### Findings

Four runs state what the repository says of itself and find that the code does
otherwise.

- `processing_score`: `process` stores the score before `complete_processing`
  checks the lease. A worker that has lost its lease overwrites the score of the
  vacancy that another worker completes; the row is never claimed again, and the
  promotion of that result stops with "assessment differs from processing result".
- `research_gate`: a reject removes the queue row only while it is `queued`. A
  leased row comes back when its worker fails or its lease expires, and
  `claim_research` does not look at the decision.
- `research_requeue`: `refresh_completed_research_if_needed` keeps
  `refresh_event_id` when it requeues. The event's prior dossier has been
  replaced by the completion, so every later claim of the row raises.
- `submission_email`: when the confirmation page does not appear the executor
  records `indeterminate`, although its own reconciliation may have accepted a
  confirmation e-mail. `finalize_terminal` refuses the contradiction, no terminal
  manifest is written, and the posting is excluded as clicked from then on.

Seen while modelling `AssessmentPromotion`, without a run of their own:

- The content may change after `ReadCurrent`, and the row's successor may be
  completed, before the promotion is sealed. "Stale or non-current state fails
  closed" (`applications/assessment_promotion.py` 100) is true of what each read
  sees. What holds at the seal and ever after is `PromotionIsOfItsContent`.
- A vacancy is promoted once. When its content, its result or the receipt of the
  run has changed since, a second promotion raises "processing promotion
  conflicts with sealed prior promotion" for ever, and once another score is
  stored the handoff refuses, too.

Seen while modelling `Submission`, without a run of their own:

- A process that dies inside `_atomic_create` leaves a temporary file that
  makes the archive, or the checkpoint ledger, unreadable for every later
  runner, until an operator removes it. The subsystem fails closed; it does not
  resume.
- A second runner may block or abandon the attempt whose click is under way; the
  terminal manifest then denies a click that happened (`DeniedIsNotClicked` says
  so only for runners that do not overlap).
- The executor's branch that reconciles a prior intent cannot be reached through
  the runner, whose authority is issued anew for each call.
- A manifest can be superseded only once; going back and forth between two
  packages ends in a refusal (`superseded`).

Seen while modelling `JournalMigration`, without a run of their own:

- A process that dies between the statement that renames the journal and the
  commit that fills the new one, or that overlaps another there, leaves an archive whose
  rows are neither carried over nor in quarantine. Every later opening raises:
  the data root fails closed until an operator repairs it (`OpenedStaysValid`
  says that nothing gets past it).
- The results have no such check. A process that dies between
  `ALTER TABLE processing_jobs RENAME` and the copy leaves them in
  `processing_jobs_v1`, and the next opening finds an empty current table and
  goes on; a second process that inspected the table before the copy puts
  current results aside as if they were earlier ones. The docstring of
  `_migrate_processing_identity` (`state/vacancies.py` 1340-1346) says that
  earlier rows remain available. `EarlierResultsAreFound` holds where no opening
  is interrupted or overlaps another (`troubled`).

Seen while reading the outbox: `requeue_dead` with a `max_attempts` that is not
above the attempts already made (`state/observability.py` 1153-1182) leaves a
message queued that no claim will take.

### Fairness

Refresh: a running process takes its next step (`WF(Step(p))`); the operator
replays an operation again and again (`SF(Call(p, q))`), which is what the
operation identity is for. Nothing forces a fetch to succeed.

Collector: a collector is started again (`WF(Run)`) and works its cycle
(`WF(Import \/ Cycle)`); each vacancy stays listed, and neither discovery, fetch
nor store fails for ever (the `SF` terms): without these the page may simply be
gone. On a data root the collector is also started until it has the database
open, and its fetches for refreshes end (`RootFairness`; HTTP calls time out).

Processing: a run takes its next step although others hold the write lock now
and then (`SF(Work(w))`: the connection waits for the lock up to 30 seconds),
runs are started again and again for each configuration, leases of dead
workers run out before a later claim (`SF(ClaimAbandoned(w))`), and from some
time on nothing raises: a semantic worker that fails for ever completes nothing.

Research: a worker that runs finishes its call (`WF(Work(w))`), and workers
keep being run for each task (`SF` of its claim). The provider may fail for ever.

Deaths are bounded, so they need no fairness.

### What holds only while collectors do not overlap

`RefreshedStaysRefreshed` holds while no two collectors have been at work at
once (`concurrent`) and `CacheAgreesWithRow` with one collector; both are proved
under that condition. `store_raw`, `record_error` and the import write
unconditionally, so two collectors on one data root may overwrite or demote a
refreshed row; nothing in the code forbids that and no document promises
otherwise.

## 4. Proofs

`VacancyRefreshProofs` proves, for any sets of operations, processes, vacancies
and contents: type correctness, `RefreshInv`, and from it `OfficialFetchCount`,
`OneActiveRefresh`, `ResponsesAreDurable`, `ReceiptsAreSealed`,
`CacheIsRepairable`, `RowsHoldOwnResponse`, and the action properties
`JournalOnlyAdvances` and `CommitReplacesExpected`.

The promises are not inductive. `RefreshInv` adds what a process may rely on
while others run between its steps: a journalled row is well formed (`RowOK`,
`OwnReceipt`); the fetch window of an operation has a single occupant, who has
not fetched yet; and each running call's snapshot `tr[p]` is an ancestor of the
row (`Follows`), so a snapshot that says "fetched" guarantees that the row still
has those bytes (`CallOK`). The proof has one lemma per action.

`RefreshLedgerProofs` proves that every behaviour of `RefreshSpec` is one of
`LedgerSpec` under the mapping (`RefreshImplementsLedger`), with one step
simulation per action. It needs one fact that `RefreshInv` lacks: an operation
past the fetch has a response in its row (`FetchedHasResponse`).

`CollectorCycleProofs` proves the typing of any number of collectors, and
`CacheAgreesWithRow` for a single one (`OneCollector`). The invariant says what a
collector's position allows (`WorkOK`): once the import is over every file has
its row, and what the collector queues, fetches and stores has neither a response
nor a file, so the only row that may lack its file is the one about to be saved.

`CollectionProofs` shows that collectors preserve `RefreshInv` (they touch only
postings and cache) and refreshes preserve the collectors' typing, and concludes
the promises of `VacancyRefreshProofs` for `CollectionSpec`, with any number of
collectors. It also proves the refinement `ImplementsSharedLedger`, and
`RefreshedStaysRefreshed`: while collectors have not overlapped, every one of
them works as `WorkOK` says, and a collector only stores for vacancies that have
no file; those of the journal have one (`JournalledHaveFiles`).

`DataRootProofs` proves that `RootSpec` implements `CollectorSpec` and
`MigrationSpec`, each with the other's steps as stutters, and from that
`RootTypeOK`, `OpenedStaysValid`, `InFlightIsNotRefetched`,
`EarlierResultsAreFound` and, for one collector, `CacheAgreesWithRow`. The
migration needs an invariant about every point at which a process may die or be
overtaken: rows exist only after the archive, and before it no operation does
(`ArchivedFirst`, `EmptyBefore`); whoever is past the renaming is the only one
that may fill the journal, since the renaming succeeds once (`OpenerOK`); and an
operation whose fetch is waited for is one that this version started
(`WindowOK`, `AskedOK`). The results need `ResultsInv`, which says where they are
while no opening has been disturbed.

`ProcessingProofs` proves all safety properties of the passing processing runs:
`ProcessingTypeOK`, `ResultIsOfItsContent`, `CompletedIsScored`,
`CompletedIsFinal` and `ReportsKeepResults`. The invariant adds what a worker
carries between its transactions: a worker about to complete has a result of the
content its key names (`CarriesOwnResult`) and has stored a score for it
(`CarriesScored`); who is about to write a report holds the lock, so the rows it
read are still the current ones (`ReportsUnderLock`).

The module also proves `PromotionTypeOK`, `PromotionIsOfItsContent` and
`HandoffIsOfPromoted` for any number of promoters and workers, without the
constraint of the run, and that promotions add nothing to what runs do
(`PromotionKeepsProcessing`). The argument is that what a promoter has in hand
binds a completed result (`HeldBinds`) and completed rows stay, so nothing that
happens between its reads can undo it; the row that `ReadCurrent` reads is of the
content it reads with it (`ResultIsOfItsContent`), hence that of the result in hand.

`ResearchQueueProofs` proves `TypeOK`, `EvidenceIsOfStoredDossier`,
`BridgePendingOrDone`, `ResearchedIsCompleted` and `RefreshBoundOnce`. The
invariant says of each task that row, dossier, evidence and admitted refreshes
belong together (`TaskOK`) and of each worker that what it remembers of its task
still binds (`WorkerOK`): in particular a worker that holds the lease holds it
for the refresh that the row has now. That last part needs
`DistinctIdentities`, a hypothesis of `BridgeSound` and of no other theorem: with
two processes of one worker id the store cannot tell the owner of the lease from
the one before.

`SubmissionProofs` proves `SubmissionTypeOK`, `ClickedOnce`, `ClickIsProvable`,
`CheckpointsFollowArchive` and `RecordIsFinal`, with any number of runners,
attempts and deaths and without the constraint of the run. Nothing locks an
attempt, so the argument is about the token: a runner between consumption and
click is the only one of its vacancy there (`Holding`), and no attempt of that
vacancy has been clicked. A consumed token is never replaced, so no second runner
gets to that point. This is `SubmissionInv`; four more invariants are inductive
relative to it.

- `CancelledInv`, for the first half of `DeniedIsNotClicked`: whoever cancels a
  click holds the token and has not clicked, so the token stays consumed, nobody
  holds it, and the vacancy is never clicked.
- `SoloInv`, for `OneAttemptPerPosting` and the rest of `DeniedIsNotClicked`: while
  runners do not overlap, at most one is not idle, so what it planned stays
  true. A runner that is about to create an attempt found no other of the posting
  that is incomplete or intended (`Barring`), and one on its way to the intent has
  an attempt without an intent and without an outcome (`SoloRunnerOK`).
- `TidyInv`, for `NothingIsLeftHalfDone`: without deaths and overlaps an attempt is
  what a call may leave behind (`Tidy`), or the one runner at work on it is at a
  point where it still owes a record (`Owing`); a consumed token has an attempt
  with an intent, or one that is about to have it (`ConsumedFor`).
- `IntentInv`, for the refinement: the intent of a vacancy is the only one, has its
  receipt and its consumed token, and bars every runner from declaring another;
  outcomes that claim a click belong to a clicked attempt.

`Refinement` proves `ImplementsApplications` from `SubmissionInv`,
`CancelledInv` and `IntentInv`: steps that keep the public part of every attempt
and every consumed token stutter (`SamePublic`), and there is one simulation for
each of the six steps that do not.

Assumptions: those stated with the constants (`NoRawAssumption`,
`RefreshAssumption`, `CycleAssumption`, `MigrationAssumption`, `CollectorsOpen`,
`ProcessingAssumption`, `PromotionAssumption`, `ResearchAssumption`,
`SubmissionAssumption`), that is,
sentinels differ from values, requests and earlier journals are well typed,
collectors are among the processes that open the database, and bounds are numbers.

Every safety property of a passing run, invariant, action property or
refinement, is a theorem. Only model-checked are the liveness properties
(fairness and ENABLED are outside the prover's reach): `LeaseIsResolved`,
`DiscoveredIsFetched`, `EveryOperationSettles`, `CommittedIsAnswered`,
`CacheConverges`, `CurrentIsProcessed`.

## 5. Plan and what is not modelled

Next, in this order:

1. The bundle of `production_handoff.py` and the admission of a handoff by the
   application subsystem, between `AssessmentPromotion` and `Submission`.
2. The decisions of `ResearchQueue` in `AssessmentPromotion`: the two share the
   assessment and the promotion, and each has now its own view of them.
3. `Outbox`, `FetchControl` and the durable circuit breaker, once a process of the
   program uses them: today `state/observability.py`,
   `collectors/fetch_control.py` and `durable_circuit_store.py` have no caller
   outside their tests.
4. Pure algorithms as operators checked against reference definitions: score
   composition, eligibility, viability, deduplication.

Proofs: an abstract specification of the research queue (one dossier and one
bridge per task, whoever holds the lease) and its refinement; lease safety of
the outbox.

Not planned: the adapters of the boards, the semantic gateway, the research
provider's archive format, reports and the command line, which are input and
output, and the certified parts of the application subsystem beyond its queue
(admission, preparation, witnesses, status evidence): most of that code validates
documents and drives external services, and keeps little state that a second
step could find changed.
