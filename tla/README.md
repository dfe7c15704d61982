# ParseCore in TLA+

This directory models ParseCore (`src/parsecore`): how work enters it, how it is
scheduled and executed concurrently, what it stores and publishes, and the
functions that turn pages into blocks, blocks into knowledge units, rows and
records, and all of it into answers.  TLC checks the models on small instances;
TLAPS proves, for every instance, what matters most of the queue, the inline
runner, the catalog runs, the cache, the planning of parts and the runs of a
document.  Paths below are relative to `src/parsecore/` unless they begin with `docs/`.

## The system and its parts

A host submits documents through the HTTP API (`asgi.py`, `api_routes.py`).
`ParseRuntime` (`runtime.py`) keeps a row per job in the job store
(`stores.py`, SQLite or PostgreSQL), parses the file (`parsers.py`), builds
blocks, chunks and embeddings, writes them to the store and to the index, and
derives document views.  Jobs are executed either in the API process by a thread
pool (`execution_mode = "inline"`) or by separate worker processes that poll the
store (`"queue-worker"`).  A large PDF is cut into page ranges, each parsed by a
job of its own; their artifacts are merged into a parent document.  A catalog
run is a separate path: a ledger on disk, processes that extract the rows of
page ranges, an audit and a manifest.

| Part | State it keeps | Operations | What is hard |
|---|---|---|---|
| Job queue and claims (`runtime.py`, `stores.py`, `worker.py`) | `parse_jobs`: state, claim token, attempt count, lease, next attempt, dead letter; blocks, chunks, index rows, views | `start`, `claim_next_job`, `claim_job`, `recover_timed_out_jobs`, `execute`, `cancel_job`, retry and dead letter | late workers, recovery racing completion, crashes between statements, part limits undone after the fact |
| Inline runner (`asgi.py`) | `inflight`, `queued_job_ids`, the executor's queue, one lock | `submit`, `plan_pdf_parts`, `rerun_pdf_part`, `cancel_job`, `cancel_pdf_part`, `_job_done`, `shutdown` | callbacks that run in the caller, checks without the lock, refill from callbacks |
| Partitioned parents (`runtime.py`) | the parent row, part rows, merged artifacts, `index_manifest.part_index`, `_pdf_part_jobs_cache` | `start_pdf_part_jobs`, `rerun_pdf_part`, `cancel_pdf_part`, `partition_parts_for_document`, `refresh_partitioned_parent` | every executor refreshes the same parent, in many statements, without a lock |
| Document views and prefix replacement (`stores.py`) | rows with positions in three tables | `_replace_document_view_rows`, `replace_blocks_by_prefix`, full saves | position arithmetic under a primary key, refreshes that die half way |
| Page planning (`pdf_parts.py`) | none | `plan_pdf_parts` | boundaries |
| Submission (`api_routes.py`, `runtime.py`) | uploaded files, rows | handlers, `_check_quota_limit`, deletion of files | check then act across processes, files that jobs still need |
| Events and telemetry (`runtime.py`) | the list of recent events, counters; the history of searches | `record_event`, `quota_usage`, `tenant_dashboard`, `runtime_metrics`, `batch_reindex` | threads that record at once; sums that must agree |
| Parse cache (`parsers.py`) | cache entries, flights under way | lookup, lead, wait, evict | single flight with failing leaders |
| Reading PDF, Word, Excel, Markdown (`parsers.py`) | OCR results per page | native text, layout pass, OCR, columns, paragraphs, tables, figures, roles | heuristics that move text and must lose none |
| Knowledge IR (`ir.py`) | none | hierarchy, continuity, coverage, comparison of runs | several passes over what earlier ones left |
| Embedding, search, rerank (`embeddings.py`, `rerank.py`, `runtime.py`) | none | batches with retry, search of a layer, rerank | partial failure of a remote service |
| Catalog runs (`catalog_runs.py`, `private_files.py`) | a ledger and part files on disk | initialise, select, execute, recover, audit, finalise | kills between two writes, concurrent writers |
| Catalog extractors (`catalog_extractors/`) | none | sections, columns, rows of ruled and unruled pages | words that belong to a neighbour's row or cell |
| Payloads (`api_payloads.py`, `parts.py`, `quality.py`, `ocr_trace.py`) | none | quality gate, advice, records, reader, pages, attention lists | many projections of one document that must agree |
| Exports (`exports.py`, `export_jobs.py`) | none | data sets, packages, five formats | what a format cannot hold |

How they interact.  The API and the workers share only the job store and the
index.  In inline mode the pool threads call `ParseRuntime.execute` in the API
process and share the runner's lists and the cache of part jobs; the runner is
called back by the futures.  `execute` of a part ends with a refresh of the
parent, which reads the rows and artifacts of all its parts.  `claim_next_job`
begins with a recovery of expired claims, so every polling worker is also the
supervisor of the others.  The parsers are called by `execute` in any of these
threads and share the parse cache.  Everything in the payloads reads one
snapshot of a document and keeps nothing.

The properties that make each part correct: a claim belongs to one worker, a
late worker does no more than bounded damage, settled jobs stay settled, jobs
settle (queue); limits hold, no job is started twice or forgotten (runner);
parent state, artifacts and manifest agree with the parts (parents); parts stay
in one piece and the index is not ahead (views); ranges tile the document
(planning); the quota is passed by a bounded amount and files live as long as
their jobs (submission); one parse per key (cache); no text is lost or shown
twice (parsers, extractors, reader); counts, lists and files that describe one
document describe the same one (payloads, exports, telemetry); what the ledger
says survives a kill (catalog).

## Modules

State machines, one action per statement of the code that reads or writes
something shared:

| Module | Content |
|---|---|
| `JobQueue` | the queue: `run_once` of the workers, cancellation, timeouts, crashes |
| `LeasedJobs` | what the queue promises, in five actions; `JobQueue` holds the refinement mapping |
| `JobQueueProofs` | types, claims, stale writes, cancellation, settled jobs, whole artifacts, the part limit and the refinement of `LeasedJobs`, proved |
| `RunHistory` | the runs of one document: what parses, rechunks and reembeds leave in the store, and what each is compared with |
| `RunHistoryProofs` | what the runs of one document leave is whole and compared with the run named, proved |
| `InlineRunner` | `BackgroundParseRunner` with its executor, lock and callbacks |
| `InlineRunnerProofs` | both limits, no job started twice or left waiting, cancellation, proved |
| `PartitionedParent` | the parent of a partitioned PDF and its refreshes |
| `ParentProofs` | only parts that are done are merged and counted; after a first run the parent agrees with its parts; one executor merges the newest run, proved |
| `DocumentStore` | a refresh in the tables of the store: parts replaced in place, positions, autocommit of Postgres, death between statements |
| `DocumentStoreProofs` | parts stay together, nothing vanishes, the views hold the last runs, the index is not ahead, proved |
| `Submission` | handlers, quota, uploaded files, several API processes |
| `ParseCache` | the LRU and the single flight |
| `ParseCacheProofs` | the single flight, the bound of the cache and the truth of its entries, for any number of threads, proved |
| `PdfPages` | native text, selective layout pass, OCR and its page cache, over several parses of a document |
| `CatalogRun` | the ledger, attempts, kills, recovery, audit, finalisation |
| `CatalogRunProofs` | the ledger is backed by the disk, the manifest is audited, done parts stay done, proved |
| `EventLog` | `EventAggregator` with threads that record at once |
| `PartPlan` | `plan_pdf_parts`, one part per step |
| `IntakeProofs` | how documents come in: the tiling of every page range, and files live as long as the jobs of `Submission`, proved |

Functions of data, written as operators; an initial state is an input, the only
step answers, and the invariants are asked of the answer (`MCInputs`):

| Module | Content | Evaluated by |
|---|---|---|
| `PdfText`, `PdfBlocks`, `OfficeText` | headers and footers, paragraphs and their six passes; the blocks of a PDF; Word, Excel and Markdown | `MCDocuments` |
| `PageOcr`, `Figures` | columns, OCR lines, paragraphs refined by position; images, captions, logos, roles | `MCDocuments` |
| `KnowledgeUnits`, `Retrieval`, `CatalogAudit` | IR; embedding, search, rerank; the decisions of catalog runs | `MCDocuments` |
| `CatalogRows` | the rows of a catalog's page and the windows of its parts | `MCReports` |
| `QualityAdvice`, `RecordsView`, `ReaderView`, `PageView`, `Exports` | the answers about one document | `MCAnswers` |
| `Telemetry`, `IndexManifest`, `ProviderRoutes` | the answers about all jobs; the manifest of a document in parts and the chunks of `NullIndex`; the route plan over providers and the parser that follows from it; the profile of a parse | `MCReports`; profiles by `MCAnswers` |

`MCServices`, `MCParents`, `MCQueues` and `MCLive` put several instances into
one run: `scenario` says which of them a behaviour belongs to.  A module that
one of them extends has its own variables, which stay as they are in the other
scenarios; the instances share variables under the names they give them.
Definitions whose name begins with `Bad` are deliberately wrong variants of the definition after them;
nothing uses them.  They record that a property does depend on the code being as
it is.

### How state and actions correspond to the code

`JobQueue`: variables of the row are the columns of `parse_jobs`; `pc` of a
worker names the statement of `run_once` / `claim_next_job` / `execute` it is
about to run, and its other locals carry the values the code holds across
statements.  A lease is the boolean `expired`, a backoff the boolean `delayed`;
time is nondeterministic.  An artifact is represented by its origin, the job and
the attempt that parsed it, which is all that coherence can tell apart.
`_ensure_active_claim` followed by a write is two steps, as in the code; a
conditional `UPDATE` of the store is one.  `ExecuteRaises` lets every statement
of the `try` raise, with the two paths of the `except` branches.

`RunHistory`: a run is a job with its attempts; its statements are the ones of
`execute` between which another run of the document may come.  Blocks are
represented by the attempt that parsed them, chunks and index by the attempt
that made them and by what they were made of.  A job is claimed whenever it is
pending, since claims are `JobQueue`'s subject; the run that a manifest names
and the blocks it has compared with are two fields of the index.

`InlineRunner`: the API is one thread (the event loop), the pool has the threads
of the executor; `lock` is the non-reentrant `threading.Lock`.  `Future` and
`ThreadPoolExecutor` are modelled from how `asgi.py` uses them: `cancel` and
`add_done_callback` run callbacks in the calling thread when the future is
already over.  A thread that waits for the lock it holds is at `hung` for good.

`PartitionedParent`: an artifact is the number of the run that made it.  Each
statement of `refresh_partitioned_parent` that reads or writes shared state is a
step.  Part jobs follow the queue protocol in a coarser form: a claim is taken
from a worker only when it has died.  What a refresh does inside the tables is
`DocumentStore`'s, what it writes into the manifest `IndexManifest`'s.

`DocumentStore`: `blocks` stands for the tables of blocks and chunks, `views` and
`pages` for `document_views`, whose positions are a primary key: lines and records,
whose ids begin with the part's prefix, and pages, which are matched by the range
of pages that the part owns.  A run may have no row for a page of its part.
`memory` is the same sequence of calls on `InMemoryJobStore`, for the lines.
`Autocommit` is the Postgres store, which commits each statement.

`Submission`: a handler runs on the event loop of its process, so one request at
a time is between its statements; other processes and the workers run meanwhile.

`ParseCache`: every block of code under `_parse_cache_lock` is a step; the host
may replace a file between any two.

`CatalogRun`: a call holds the ledger in memory and writes all of it after each
change, first to a temporary file, then by a rename; either may be the last
thing it does.  The processes of its pool outlive it.  A task may also raise before
it has made a directory, and a shutdown drops the tasks that no process has begun.
The audit's copy of the ledger is kept where its report is complete, the only
case in which the code compares it.

`EventLog`: nothing locks the aggregator, so that appending, reading the length,
removing the oldest, reading and writing a counter are steps of their own.

In the functions a text, a box or a row has only what the code's decisions
depend on: a line its class, a block its type and pages, a word its place on a
grid.  Regular expressions are inputs: a text comes with the set of patterns
that match it.

## Runs

| Run | Instance | Shows |
|---|---|---|
| `queue_core` | 2 workers, 2 part jobs, limit 1, 2 attempts, leases run out, 3 claims of a job, one crash while one job is submitted | exclusive claims, bounded attempts, token and state agree, at most one artifact overwritten by an attempt that lost its claim, settled jobs stay settled, and the refinement of `LeasedJobs`; of first claims no more execute than the limit allows |
| `queue_more` | 3 workers, 3 parts, limit 2; 2 workers, 3 parts, limit 1; and one document with a parse and two rechunks, a worker that may crash, a canceller, timeouts | with one part more than the limit and no retry the limit holds; with two more it need not, but the parts that execute under their first claim keep it; blocks, chunks and index are published together; a cancellation is never undone |
| `live` | a queue with 2 workers and one crash; a runner with 3 jobs, limits 2 and 1; a cache with 2 threads and failing parses | under fairness: a pending job settles as long as one worker stays up, an accepted job leaves the runner, every request to the cache returns |
| `parents` | 3 threads with 3 parts; 2 threads with 2 parts, failures, cancellations and reads; 1 thread with 2 parts, failures and reruns; one queue worker with a crash, with 1 part that is run again and with 2 parts; a runner with 4 jobs, three of them parts of two documents, 2 pool threads, limits 2 and 1, one part that may be cancelled; and the answers about one document | concurrent refreshes keep state and artifacts right at rest, in inline mode the parent is not done early and in queue mode does not stay so, one executor merges nothing older than the newest finished run; back pressure, no job handed over twice, no startable job left waiting, cancelled jobs stay cancelled; advice, lists, reader, pages, exports agree with the document |
| `services` | cache, plan, PDF pages, store (SQLite, Postgres, parts of two pages), submission (both modes), event log, three runs of a document (one by one with a retry, two at a time); catalog pages; reports and routes | one parse per key, bounded and true cache; ranges tile; OCR where it is needed and nowhere else; parts in one piece; quota overrun bounded; files live as long as jobs; the list of events is the latest; rows of catalog pages get their words; reports add up; manifests say what is indexed and name the run they differ from; blocks, chunks and index are of one run again after a run that has been alone; jobs and their retries get the parser of their route |
| `catalog` | 2 processes, 2 parts, 2 calls, one kill | the ledger matches the disk, a manifest is audited, no call is stuck, done parts stay done |
| `documents` | functions over all small inputs | text of PDF, Word, Excel, Markdown is kept; blocks complete; columns, OCR lines and figures; audit exact; retrieval sound, searches of blocks and tasks find the best; knowledge units sound |
| `queue_stale` (violation) | 2 workers, 1 job | a late attempt can mix artifacts of two attempts in a finished document |
| `inline_cancel` (violation) | 3 plain jobs | `cancel_job` can wait for its own lock and is never recorded |
| `parent_manifest` (violation) | 2 threads, 2 parts | two refreshes lose a manifest entry |
| `views_collide` (violation) | 3 runs of 2 parts | a part that grows moves rows onto rows that have not moved |
| `advice_rerun` (violation) | all inputs of the advice | the rerun advised for warning parts reruns nothing |

Bounds and why they are enough.  Every hazard of the state machines is a race
of at most two executors and one call of the host, or of three parts that share
a limit; two workers (three where a limit of two must be exceeded), two or three
jobs and one crash contain each of them.  Two attempts distinguish a retry from
the last attempt.  `MaxClaims`, `MaxCrashes`, `CrashLoad` (a worker
may die while at most that many jobs have been submitted), `MaxRuns`,
`MaxCalls`, `MaxFaults`, `MaxRecorded` appear in guards only and are named in
the modules; `CrashLoad` is 1 in `queue_core`, 2 for the rechunks, and no
restriction elsewhere.  The functions look at neighbours: two or three lines,
blocks, units or rows show each of their rules and the interplay of two, and the
lists of inputs go up to the length at which each rule of a function has fired.
Thresholds of the code that count things (lines of a header, items of a batch,
members of a cache) are constants with small values.  Symmetry is used over pool
threads, workers and the processes of a catalog run where a run has no liveness
property.

`CHECK_DEADLOCK FALSE` is used where the system may stop: the process may be
shut down, a thread may really hang, the finite set of jobs or calls ends, and a
function has one step.  The queue runs are checked for deadlock.

## Fairness

`JobQueue!FairSpec`: weak fairness of the statements of a worker, since a live
process keeps executing, and of the passing of time.  Nothing is assumed of
restarts; `PendingJobsSettle` therefore asks for one worker that stays up.
`InlineRunner!RunnerFairSpec`: every pool thread keeps running, a parse terminates,
and a thread that waits for the lock gets it if it is free again and again
(strong fairness).  `ParseCache!FairSpec`: a thread that is not waiting keeps
executing.  Calls of the host are never fair.

## Proofs

`JobQueueProofs` proves for any number of workers, jobs, documents, attempts
and crashes:

- `TypeCorrect`: `Spec => []TypeOK`.
- `ClaimsSound`: `Spec => []ClaimsAreSound`, which says that a row has a token
  exactly while its state is active, that two workers never hold the claim of
  the same job, that attempts never exceed `MaxAttempts` plus the claims
  given back, and that the parts which execute under their first claim respect the
  part limit (`FirstClaimsAreLimited`, a theorem of its own).
- `StaleDamage`: `Spec => []StaleDamageBounded`, that is, an attempt that has lost
  its claim overwrites at most one artifact.
- `CancelIsForGood`: `Spec => CancelledStaysCancelled`, also while a worker ends or
  fails the job.
- `OnlyCancelUnsettles` and `SettledForGood`: a settled job is changed by a late
  `cancel_job` and by nothing else, so `Spec => SettledIsFinal` where nobody
  cancels (`Cancellers = {}`, the hypothesis of the theorem).

The first conjunct of `ClaimsAreSound` is inductive with the types, because each
update that changes one of the two columns changes the other.  None of the
others is inductive alone.  Tokens must be known to be fresh (a new one differs
from every token that a worker or a listed recovery still remembers), and the
attempts of a claimable job must be below the maximum, which follows from the way
an attempt ends.  For the stale writes, `StaleInv` says that a write without a
claim is made only in the window between a check of the claim and the next
conditional update, and that the worker does not return to the beginning of that
window.  `CancelInv` says that a cancelled row is failed and that no conditional
update fits it.  For `FirstClaimsAreLimited`, `PartInv` says that parts are claimed for the first time
in the order of their rows (`OrderInv`), that whoever lists a part lists the older
ones that nobody has claimed yet (`CandInv`), and that whoever executes a part under its first claim
has fewer than the limit of such parts ahead of it (`LimitInv`): each of them saw
the older ones when it looked a second time.  There is no hypothesis about the
number of parts, workers or attempts.  The limit for all parts that execute is not
proved, for it is false, as told below.  The strengthenings are stated as named
conjuncts before they are used, and each has one lemma per action that can disturb it.  The only
assumptions are the named ones of `JobQueue` about its constants.

Two more theorems have hypotheses about the deployment, because TLC finds their
property violated without them:

- `LoneWorkerPublishesTogether`: `Spec => PublishedTogether` for one worker process
  (`LoneWorker`) and any jobs but reruns of the embeddings (`NoEmbeddingRerun`).
  `PublishInv` follows what the worker holds in memory and what is stored through
  the statements of `execute`; leases, failures between two writes and crashes
  leave it, since the next attempt begins with its own blocks or with those it reads.
- `DoneIsWholeWithoutTimeouts`: `Spec => []DoneIsCoherent` for any number of workers
  where nothing times out and each document has one parse (`OneParseEach`), with
  retries, cancellations and crashes.  `QuietInv` says that no recovery has
  anything to do, `SoleInv` that a job has one worker at a time, which has to be
  told from the claim, for a crashed worker leaves an active row that nobody
  claims again; `CoherentInv` adds what that worker has written.  The run
  `queue_stale` shows the same invariant violated with timeouts.

Its last part proves `QueueKeepsPromise`: where nobody cancels, every
behaviour of `JobQueue` is one of `LeasedJobs` under the refinement mapping
`ImplementsLeasedJobs`, for any number of workers, jobs and crashes.
`PunctualQueueKeepsPromise` proves it with cancellers for the specification whose
steps are those of the queue except `LateCancel`, the write of `cancel_job` to a
row that has been settled since it was read: this is the only step of the queue
that `LeasedJobs` does not allow.  Each action maps to one action of `LeasedJobs`
or to a stutter.  That needs, beyond the invariants, that a free token is in no
row, what a canceller has read, and which worker may still act on a row
(`FreeInv`, `CancelTargetInv`, `PromiseInv`).

`ParentProofs` proves `ParentCountsDone` (`Spec => [](TypeOK /\ OnlyDoneCounts)`)
for any number of executors, parts, reruns and crashes, in both execution modes,
whether parts fail, are cancelled or are read.  No process holds a lock while it
refreshes the parent, so what it writes at the end rests on what it listed at the
beginning.  `ParentInv` therefore follows each value from the rows to the parent:
a part counts once a job of it was done (`Counted`; in queue mode also when that job
was cancelled afterwards, since `cancel_pdf_part` writes over any state), at most one
row changes in a step and none ceases to count (`OneRow`), and every listing, cache
entry, artifact and manifest entry that a process holds is of a part that counts
(`ListedCounts`, `ReadCounts`, `StoredCounts`), so stale ones do no harm.  That a
parent which is done has all of its parts is true in inline mode only, and needs
three things more: nobody executes or refreshes before the call has created the
jobs of all parts (`NobodyIsEarly`), no stale listing empties the cache of a part
(`NoneIsMissing`), and a part that is being cancelled is not started
(`CancelledWaits`).  The last one also gives `DoneIsKept`: in inline mode a part
that is done stays done.  `ParentInv` was model-checked for both modes first.  The
theorems rest on `PartsAssumption` and `ProcsAssumption`.

Its second part proves what that leaves open, `FirstRunAgrees`
(`Spec => []RefreshesAgree`: at rest the parent's row is what its parts add up to,
and of every part that is done the latest run is merged), for any number of parts
and of concurrent executors.  The hypothesis `FirstRun` is the first
run of a document in inline mode: `MaxRuns = 1`, no part fails or is cancelled, and
nobody reads the parts meanwhile.  It cannot be dropped: for each of its conjuncts TLC
finds a behaviour without it in which the property fails, since an executor that
listed the rows before a rerun, a failure or a read of the parts replaced a cache
entry refreshes with what it saw then.  (Some of them need three executors of three
parts, which is why the run `parents` checks it with as many.)
`FirstInv` says why it is enough.  Until the planning call has returned nothing is
done, so its own refresh merges nothing (`NothingIsStarted`).  Every part has one
executor (`OneEach`), and whatever is missing of a part that is done is what this
executor has still to do (`PartOK`, `ExecutorOK`).  Once the cache has all parts as
done, either the parent is done or someone who will see it has still to read the rows
or to write the parent (`ParentIsTold`); a refresh that was computed from an older
list writes nothing, because "partial" is what it has read of the parent.

Its third part is about what comes after the first run, `SoleExecutorMergesNewest`
(`Spec => ExecutorMergesNewest`): whatever the executor puts into the parent, by the
incremental refresh after a part or by the full one after a failure, is of the newest
finished run of that part.  Parts fail and are run again any number of times, and
the API creates reruns, cancels parts, lists them, refills the cache and refreshes the parent at
any moment.  The hypothesis `OneExecutor` is inline mode with one executor per document, as
`max_active_parts_per_doc = 1` gives; with two, a delayed refresh of the
older run writes over the newer merge.  `SoleInv` says that the runs of a part begin
in their order (`InOrder`), that what a part has stored is of the last run that has
begun, if that is done (`DocOK`), and that a cache entry "done" is of that run too, or of one
that is overtaken by the run at work, whose executor is not merging then (`CacheOK`).
So what the executor collects is finished and newest when it collects it and still
when it writes it (`GotOK`).  For the API's own refreshes the claim is false, as told below.

`InlineRunnerProofs` proves, for any number of jobs, documents and threads and
for any limits, what the run `parents` checks of it: `RunnerLimits`
(`Spec => []LimitsHold`, with the types), `RunnerHandsOverOnce`, `RunnerWorks`
(`Spec => []WorkConserving`) and `RunnerCancelsForGood`.  `HandInv` says that a job
is in one place only: still to be submitted, in `queued_job_ids`, in the
executor, or with one thread.  `LockInv` says that a thread that starts jobs has
the lock, and `WorkInv` that nothing queued could start as long as no callback
has it, which is why a refill may stop at the first failure.  The limits
follow because a job is started only where they were looked at under the same
hold of the lock.  `RunnerAssumption` says that the limits are natural numbers,
that parts are jobs and that threads can be told apart.

`DocumentStoreProofs` proves what refreshes leave in the tables, for any parts, any
number of runs and runs of any size (`StoreConstants`: part numbers are integers).
`StoreIndexNotAhead` (`Spec => []IndexIsNotAhead`) holds for any number of threads on
both databases, also where refreshes die.  `StoreInv` says for it that the blocks of a
part are what the statements of its refresh have left so far, that runs are numbered
as they end, and that the index has the last run of a part only if the blocks have it;
a step changes the rows of its own part only, wherever it moves the others.
The other three assume that refreshes do not overlap (`Alone`); with two threads
TLC finds blocks of two parts at one position, as told below.
`StorePartsStayTogether` (`Spec => []PartsStayTogether`) is about both databases.
`TogetherInv` adds to the property that the rows of a part are numbered from one: a
part is then a stretch without gaps, so that no part reaches over the hole that
another one has left (`ShiftingMakesRoom`), the count of its rows is the length
of the stretch (`BoundsAreExact`), and after an UPDATE there is room for the INSERT.  A
crash between two statements leaves a gap, which does no harm.  With SQLite's
transactions (`~Autocommit`; on Postgres TLC finds counterexamples),
`StoreNoPartVanishes` (`Spec => NoPartVanishes`) and `StoreViewsAreLast`
(`Spec => []ViewsAreLast`) follow the views as well: a replacement that collides
changes nothing, and all views are then made again from the blocks, of which the
SELECT lists every row once (`InOrderIsAll`: each row has its rank, and there are as
many ranks as rows).  The run `services` checks the same formulas, as conjuncts of
`PartsTogether`, `ViewsCurrent` and `PartsNeverVanish`, since it reads the module through
instances.

`CatalogRunProofs` proves, for any number of parts, processes, calls and faults:
`LedgerIsBacked` (`Spec => []LedgerMatchesDisk`), `ManifestSound`
(`Spec => []ManifestIsAudited`) and `DoneIsForGood` (`Spec => DoneStaysDone`).  The
processes of a pool outlive a call that was killed, so that their writes may meet
those of a later call.  The invariant says that a running task is the only one
with its directory, which no other has completed, that complete directories never
change, and that numbers of calls are unique, so that the tasks of a killed call
write to directories of their own.  Calls that have not overlapped are one at a
time, and the ledger of the one that runs knows each attempt that was used.  The
only assumption is `CatalogAssumption`.

`IntakeProofs` proves `PlanIsSound` for documents, ranges and targets of any
size: `PlanSpec => [](PlanTypeOK /\ PlanTiles)`, that is, the parts planned so far
cover the range without gap or overlap, none is longer than its target or planned past the end of the
range, and when planning ends every page belongs to exactly one part.  The owner
of a page is not inductive.  `PlanInv` adds that the parts are in order, that each page before
the next start has an owner, and that every part ends before that start; two
owners of one page would then be out of order.  It rests on `PlanAssumption`.

It also proves `FilesLiveLongEnough` for any number of API processes, requests and
retries, in both execution modes: `SubmitSpec => [](SubmitTypeOK /\
FilesOutliveTheirJobs /\ TransientsAreOwned)`, the part of `SubmissionsHold` that
is about files.  That a job has its file is not inductive, since the handler that
deletes a file does not look at jobs.  `IntakeInv` says whose file it may be: an id
names one file, and only the inline mode has transient ones (`IdsAreUnique`); a
handler that is not idle has the file of its request, and from the claim on, its
row (`RequestsHaveFiles`); no two synchronous requests share a file
(`FilesAreOwn`), so that two handlers do not share a row either; and a row that has
not ended has an uploaded file, or a handler that is executing it and deletes the
file only afterwards (`RowsHaveFiles`).  The hypotheses are that the bound on files
is a number and that at least one attempt is allowed (`Bounds`).

`ParseCacheProofs` proves, for any number of threads, files, versions, options
and calls, `SingleFlight` (`Spec => []FlightsAreShared`) and `CacheTells`
(`Spec => [](TypeOK /\ EntriesAreTrue)`).  For the first, `CacheInv` says that calls of
different threads have different numbers, that a thread between
`_acquire_parse_flight` and `_finish_parse_flight` owns the flight under its key,
that each flight under a key has such an owner, and that a waiter waits for one of
these or for a flight that is over.  For the second, `ContentInv` adds what a call
knows at each of its statements: as long as no file is replaced under a request,
the keys it computes, whenever it reads the source again, and the blocks it
parses are of the bytes that the source has (`KnowsItsSource`).  A waiter is told
the truth only because the flight that it joins is still open (`FlightsAreOpen`)
and its owner has the same key (`WaitersShareKeys`).  Removing, appending and
trimming keep one entry per key (`OthersAreOther`, `EntryAdded`, `Trimmed`), which
is also why the bound holds although a lookup appends.  Both theorems rest on
`CallsAssumption`, `VersionsAssumption` and `EntriesAssumption`.

`RunHistoryProofs` proves `RunsAreWhole` for any number of jobs of a document,
of attempts and of jobs at once: `RunSpec => [](RunTypeOK /\ RunsAreSound)`,
that is, while no job runs, blocks, chunks and index come from one parse and one
rerun of it, unless jobs have overlapped, or an attempt has died between its
writes, since a parse or a rerun of the chunks ran alone (`RunsLeaveOneWhole`), and
the difference in a manifest is to the run that it names, if its attempt started
under that condition and the newest done job is the one done last
(`DiffIsToTheRunNamed`).  Between the statements of a job nothing is whole, so
`RunInv` says what holds at each of them: while nothing has overlapped the one job that runs is alone
(`CleanIsAlone`, `AloneIsAlone`); a job that is alone holds what it has stored
(`HasStored`), except that a rerun of the embeddings, which keeps the chunks, is
only as good as what it found; and a job leaves whole what it found whole until
its first write that differs (`HasFound`), which is why an attempt that dies
before it does no harm.  The job that is named as the previous run is a greatest
number of a set, whose existence is a well-founded minimum (`Greatest`).  For the
difference, `DiffInv` follows the stored blocks: on a clean store they are those
of the job done last, until the next job writes others (`CurrentAtRest`,
`CurrentAtFirst`), so that an attempt which starts then finds the blocks of the
job it names, and keeps them through later jobs, since a job that is done does not
change (`RowsCompare`, `IndexCompares`).  `DiffInv` needs `RunInv`: that what is
stored at the end of a job is its own is `HasStored`.  Both rest on
`RunAssumption`.

Only model-checked:

- all liveness, since fairness is outside the prover's reach, and
  `CallIsNeverStuck`, which is about ENABLED;
- the list of events, and that `InMemoryJobStore` has the views of `DocumentStore`
  (a `SelectSeq`);
- the quota of `Submission`, which is a sum over rows, and the functions of data:
  they are folds over sequences, and what a fold computes for every input is an
  induction over data, which is out of reach too.

## What the models say about the code

Each run marked "violation" checks a statement of the documentation or of a
comment against the code and ends in a counterexample; `PROJECT.json` quotes the
line.  While modelling, further behaviours were seen that no run asserts.

Scheduling and storage:

- `cancel_job` of the runtime may turn a job that has just been done into a
  failed one, so `SettledIsFinal` is checked without a canceller.
- A part that loses the race for the part limit keeps the increment of its
  attempt count and can be dead-lettered after fewer executed attempts than
  `max_attempts`.  With retries, the part limit can be exceeded: the oldest
  claims are kept, and a retried older part displaces nobody who executes.  Two
  parts above the limit suffice without any retry: with limit 1 the second part is
  given back while the first runs; the first ends and the third, claimed
  meanwhile, passes the check; a fourth worker with an old list of candidates then
  claims the second, which is older, and passes as well.
- Two workers that recover the same row: the loser's `stale_claim` ends its
  process.  A worker that dies after marking a part done leaves the parent as it
  was.
- Two jobs of one document that overlap leave blocks, chunks and index of
  different runs, until a parse or a rerun of the chunks runs alone; a rerun of
  the embeddings writes the blocks it has read back over newer ones.  After a parse
  that failed between its blocks and its chunks, a rerun of the embeddings is done
  with new blocks and the chunks of an older parse, even with one worker.
- The API's full refresh after a rerun or a cancellation may put an older run back
  into the parent, even with one executor.  The executor's late `_remember_pdf_part_job` of
  run 1 (`runtime.py` 767, 2198) replaces the cache entry of the rerun; an API call about
  another part collects run 1 from it, and saves it after run 2 was merged.  The same
  refresh may take a part away, since the comparison that precedes it counts the parts.
- In queue mode with two parts, all parts may be done and the parent "partial" for
  good, or without the artifacts of one of them: each refresh wrote what it had
  read before the other part was done.
- A retry compares its knowledge units with those that its own first attempt
  has stored, so that what the document has gained counts as unchanged; the run
  that the manifest names is the newest of the done jobs by creation, not the one
  that ended last.
- `submit` may refuse a job whose row it has already created.
- With `NumParts` above one in queue mode the parent may become done before the
  last part job is inserted; it does not stay so (`EarlyDoneEnds`, with one worker
  that does not die).  A read of the parts during an inline run may put
  stale rows into the cache, and the next refresh skips a finished part.
- Two refreshes of one parent in two threads read the last position before
  their transactions begin, so that blocks of two parts can get equal positions;
  `DocumentStore` is run with one thread, and three of its four theorems assume it.
- The pages view keeps rows of earlier runs: a replacement deletes the rows from
  the first to the last page for which the new run has some, so that a page before
  or behind these which a rerun does not report any more keeps its old row until the
  next full save.
- Reindexing a part doubles its page offset (`runtime.py` 682-688, 2282-2310);
  rechunking, reembedding or reindexing a partitioned document raises
  `pdf_parent_not_executable`, and `batch_reindex` then ends without a report
  of the documents it has started.
- The incremental manifest never updates the semantic roles of the layer
  `high_precision` and keeps roles that a rerun has removed.  After a restart
  `NullIndex` is empty and parts that have not been refreshed since count
  nothing until a full refresh.
- `index_metrics` counts parts as documents and the merged manifest of their
  parent as well.
- A document that is not partitioned has one unit in its quality projection, which
  cannot be rerun (`rerun_supported`), so that no rerun of parts is advised for it.
- `_check_quota_limit` and the handler that catches its error both record
  `quota_exceeded`, so that `parse_quota_exceeded_total` counts each refused
  request twice.  `EventAggregator` has no lock: counts are lost and a counter
  can go back.
- Searches kept in memory are not cut to the window that is asked for; cancelled
  parts count as failed jobs; the quota's window is that of the last change.

- The provider that an execution has chosen is kept in the options of the job,
  which retries and reruns copy.  When its parser is gone they fail, even where
  `fallback_to_default` is on or routing has been switched off.  Without an
  eligible provider the default parser is used, even where the fallback is off.
  `include_disabled` adds providers to the plan and makes none of them eligible.

Reading and understanding documents:

- A line over the middle of a two-column page is read in both columns; a caption
  may be claimed by two stacked figures; `1) ...` is a section in a PDF and a
  list item in Word.
- Headings of Word files are TITLE blocks and appear neither in the text of
  pages nor in logical pages.
- `build_knowledge_unit_diff` reports moved duplicates as removed and added with
  confidence 1.0; a page may list units that are not embedded and give no reason.
- A part of a catalog run does not get the last row and section of its
  predecessor (`catalog_runs.py` 753-766): a merged cell or a title that begins
  before its context pages is lost without a signal.  A review of an omission in
  a row whose holder is inherited fails the whole part.

Answers:

- The quality recorded when a job is done has the gate of the later projection
  but may name another action, where the reading order has low confidence and
  figures, chunks or vectors are missing as well.
- Hidden tables are shown by the reader; stage timings are summed per block;
  exports of pages and lines do not fall back to blocks as records do.
- Blocks of one score are found in the order of their ids as strings, the tenth
  before the second; a search for tasks looks at `max(3 * limit, 10)` blocks and
  may miss tasks behind them.
- A quality gate `local_rerun` may come with another recommended action;
  merged actions of one endpoint keep only the first one's parameters;
  `retry_with_ocr` may be advised where OCR has failed.
- Records are listed in another order from stored rows than from blocks;
  `record_boundary_uncertain` is never set; generated headers may repeat.
- The handlers of exports never pass the page range and signal that `exports.py`
  can filter by.  SQLite refuses column names that differ by case and openpyxl
  refuses control characters, which nothing catches; an export job with an
  empty `include` writes an empty package.
- p90 of few durations may lie below nine tenths of them (half-even rounding).

## Plan

In this order: two threads in `DocumentStore`; the parsers of the optional
libraries.

## Not modelled

The wording of payloads and their schemas, HTTP itself, configuration files and
wiring (`config.py`, `bootstrap.py`, `payload_schemas.py`), health checks, the
command line and the tools around the service (`tools/`), which call the same
functions.  What PDF, Word, Excel and OCR libraries return is an input.  Remote
providers answer as the code that calls them allows.  SQL text, migrations and
connection handling are left out; where the PostgreSQL store differs in what can
be seen, by committing each statement, `DocumentStore` has both.
