# eval-platform, specified and checked

A TLA+ project for the RAG evaluation platform in `src/`: modules for the parts
whose order of steps matters and for the computations people rely on, TLC runs on
small instances, and TLAPS proofs for every instance. Names follow the source; every definition that stands for code is
listed with its lines in `PROJECT.json` ("map").

## 1. The system

An evaluation *run* executes every *case* of a dataset against a corpus: retrieve
chunks, generate an answer, judge it, and attribute what went wrong. Three programs
share one PostgreSQL database (and Qdrant for vectors, and a model provider):

| program | what it does | how it talks to the others |
|---|---|---|
| `server/` (Go, Gin) | catalogue (projects, corpora, documents, datasets, cases), submission of runs, reports, A/B comparison, annotations, human gold scores, accounts | writes `runs`, `jobs`, `job_items` in one transaction; reads what the worker writes; `POST /jobs/reclaim` |
| `worker/` (Python) | claims jobs, indexes corpora, executes cases, checkpoints results, aggregates metrics | polls `jobs` with `FOR UPDATE SKIP LOCKED`; no call between server and worker |
| `web/` (Vue) | the user interface | HTTP only; polls `GET /runs/:id/progress` |

### Components, their state and what makes them correct

| component | state | operations | correct when | hard because |
|---|---|---|---|---|
| evaluation queue (`worker/app/queue.py`, `eval/queue_runner.py`, `cli/worker.py`, `server/internal/store/queue.go`) | `runs`, `jobs`, `job_items`, `case_results`; in a worker: the job, the batch, the counts it read, the stop flag | submit, claim, execute, checkpoint, fail, release, finish, reclaim | each case is executed to an end once, and the run reports exactly that | several workers, crashes, stop signals, late heartbeats, transactions with gaps between them |
| user accounts (`server/internal/auth`, `store/user.go`) | `users` | register, create, update, delete, log in, authenticate | somebody can always administrate; a disabled account is out at once | checks and writes are separate statements |
| index (`worker/app/retrieval`) | Qdrant collections, `chunk_hash` | build, search, map gold anchors | a search sees the whole corpus under the run's chunking | a build that dies half-way leaves a collection that exists |
| judge and its cache (`worker/app/judge`) | `judge_cache` | claims, rubric, cache read and write | the same question is judged once and the same way | parallel misses, invalid entries |
| attribution and metrics (`worker/app/eval/attribution.py`, `metrics/`) | none | pure functions | priorities, thresholds, averages | boundaries, missing values |
| comparison and closure (`server/internal/eval/ab.go`, `closure.go`, their handlers) | none | read two runs, the annotations and the results in up to five statements; compute | what is called fixed is repaired; the two reports agree | results, labels and scopes are written meanwhile; missing judgements |
| calibration (`server/internal/eval/calibration.go`) | none | pure functions over gold rows and judgements | agreement measures mean what they say | degenerate tables, no opinion on one side |
| snapshots and hashes (`server/internal/eval/snapshot.go`, `worker/app/eval/snapshot.py`) | `runs.config_snapshot`, `config_hash` | build, canonicalise, hash | Go and Python agree | two implementations |
| annotations, human gold (`server/internal/http`, `store`) | `annotations`, `human_gold_scores` | create, move along the workflow, score | only legal transitions, no lost score | read, check, then write |
| catalogue (`server/internal/store`, `http`) | `projects`, `corpora`, `documents`, `datasets`, `cases` | create, import, upload, delete with cascades, submit a run | an answer says what was stored; a run's data stays within a project | statements of imports, deletes and submissions interleave |
| pipeline profiles (`http/pipeline_profiles.go`, `web/src/utils/profile.ts`) | `pipeline_profiles` | create, update, preview, load into a form, submit | a template means the same later; a preview is what the submission stores | two paths to one resolution; zero against absent |
| web | session, polled progress, forms | render, poll, submit | shows what the server says | conversions between form, template, snapshot |
| model client, tokens, routing, schema, scripts | none of their own | - | - | - |

## 2. Modules

| module | models | extends or instantiates |
|---|---|---|
| `Evaluation` | what a run promises: each case is settled once, a run concludes once, success means every case is done | - |
| `EvalQueue` | the queue and its workers, one action per transaction | `Evaluation` (refinement) |
| `EvalQueueInv`, `EvalQueueProofs` | its inductive invariants; theorems | `EvalQueue` |
| `JobTransactions` | the transactions of one job statement by statement: row locks, waits, READ COMMITTED | - |
| `JobTransactionsProofs` | theorems about them | `JobTransactions` |
| `Attribution` | metrics and flags of one executed case | - |
| `Wilcoxon`, `WilcoxonSamples`, `WilcoxonProofs` | the exact signed-rank test; samples that grow pair by pair; the theorem | - ; `Wilcoxon` |
| `CountingProofs` | lemmas about finite sets, sums over them, and induction | - |
| `Compare` | the comparison of two sides | `Wilcoxon` |
| `AnnotationStatus` | the state machine of an annotation | - |
| `Closure` | the closure report of two sides | `Compare`, `AnnotationStatus` |
| `RunReports`, `RunReportsProofs` | both reports, read while workers, the labelling command and annotators write; theorems | `Closure`; `Attribution` |
| `Requests` | a field a request leaves out, and `COALESCE` | - |
| `Annotations` | POST, PATCH and DELETE of annotations as requests that interleave | `AnnotationStatus` |
| `Calibration` | agreement of the judge and of people | - |
| `HumanGold` | gold scores, and the calibration of what is stored | `Calibration`, `Compare` |
| `Submission` | from a form or a request through templates and previews to a stored snapshot | - |
| `Catalogue`, `CatalogueProofs` | corpora, datasets, documents, cases, imports, cascades, the creation of a run; theorems | - |
| `Index` | collections of the vector store: builds, crashes, searches, look-ups | - |
| `UserAdmin` | accounts and the requests that manage them | - |
| `PeopleProofs` | theorems about gold scores and calibration, configurations, annotations, accounts | `MCPeople`, `CountingProofs` |
| `JudgeCache` | the two stages of a judgement around the table `judge_cache` | - |
| `StoresProofs` | theorems about the judge's cache and the index, and the types of all four stores | `MCStores`, `CatalogueProofs`, `JobTransactionsProofs` |
| `MCEvalQueue`, `MCRunReports`, `MCAnnotations`, `MCUserAdmin` | instances of one module for TLC | that module |
| `MCPeople` | five parts behind the pages, for one run | `UserAdmin`, `Annotations`, `HumanGold`, `Submission`, `WilcoxonSamples` |
| `MCStores` | four parts that write shared stores, for one run | `JudgeCache`, `Catalogue`, `Index`, `JobTransactions` |

### How `EvalQueue` corresponds to the code

Variables of the database are columns: `jobStatus` is `jobs.status`, `item` is
`job_items.status`, `retry` is `retry_count`, `results` the rows of `case_results`,
`metrics` is `runs.metrics` reduced to the set of cases it was computed from, and
`fresh` is `jobs.heartbeat_at` compared with the stale timeout. Timestamps have no
other use in the queue. `progress` is `jobs.progress`, kept as the statuses it was
counted from.

Variables of a worker are what `execute_job` remembers between transactions: where
it stands (`pc`), the job, the rest of the claimed batch, the counts `job_progress`
returned (`seen`), the rows the aggregation read (`agg`) and `_stop_requested`.

An action is a transaction of `queue.py` with the code around it, up to the next
transaction. Actions of one worker follow `execute_job`:

```
ClaimNextJob/ClaimJobById -> RejectConfig            (finish_job: failed)
                          -> ResumeItems             (release_running_items)
                             -> IndexFails           (finish_job: failed)
                             -> IndexReady -> loop:
       ClaimItems -> Heartbeat -> CompleteItem | RetryItem | DropItem | AbortItem ...
       LoopEnds -> ReadProgress -> FinishJob -> AggregateMetrics -> UpdateMetrics
       AbortItem -> AbortReleases -> AbortFinishes -> AggregateMetrics -> UpdateMetrics
       ReleaseJob (a stop was requested)
```

`reclaim_stale_jobs` is `POST /jobs/reclaim` and `--reclaim-once`, which anybody may
call at any time; `PollReclaims` is the same transaction from an idle worker.
`RequeueByHand` is the operator the comment at `queue_runner.py:322-325` speaks of.
`Crash` is any end of a worker process, by a signal or an exception that
`run_forever` does not catch; `Start` is its restart.

What is abstracted: the work on a case is one choice among the four ways in which
it can end; items of a batch are settled in any order; the index is ready or not
(`IndexReady`, `IndexFails`); `job_progress` is reduced to the set of statuses that
occur, all the verdict looks at; the three reads of the aggregation are one.
`complete_item` failing and being turned into `fail_item` is `RetryItem`.
`release_items` is left out: `_remaining_batch` makes its argument always empty.
`DropItem` (a case that is gone) is kept as the code has it, although the foreign
keys delete an item together with its case.

### How `JobTransactions` corresponds to the code

Here a statement is a step. `item`, `jobStatus` and `progress` are what is committed;
`tx` holds for each process its transaction: the rows its statement has still to visit
(`todo`), what it has written and locked (`writes`), what `PROGRESS_SQL` counted
(`seen`), and whether it locks the job row. `executing` and `held` are what executors
remember.

| action | code |
|---|---|
| `ClaimJob`, `claim_job_items` | one statement each, with `SKIP LOCKED`: nobody waits; the claimed batch |
| `Settle` | `complete_item` or `fail_item` begins: the item, then the count, then the job row |
| `reclaim_stale_jobs`, `finish_job` | the job row first (`SELECT ... FOR UPDATE`), then its running items; the verdict, one statement |
| `Scan`, `WriteItem`, `CountItems`, `WriteProgress`, `Commit` | the statements; a row another transaction has written is waited for, and its status looked at again |
| `ProcessCrash` | the process ends, by itself or as the victim of a deadlock, and its transaction is rolled back |

Nothing distinguishes a live job from a stale one: a reclaim may come at any time, as
in `late`.

### How `RunReports` corresponds to the code

`results`, `scope`, `judged` and `phase` are `case_results`, `runs.metrics.attribution.scope`,
the judge section of the snapshot and the run's status, for a baseline and a candidate.
`report` holds what a handler has read. Each run has a `top_k` of its own, and each process
that writes flags, a worker or the labelling command, its own yardstick: the ratio
and the line it was started with (`Yardsticks`). The `rules` of a row are a history
of what its flags were asked with; the database keeps the thresholds of the last writer only, for the
whole run, and no report reads them.

| action | code |
|---|---|
| `CompleteItem`, `FinishJob`, `AggregateMetrics` | the worker stores a result with the flags of the rules, ends the job, writes the metrics with the scope |
| `apply_plan` | `cli/attribution.py` on a finished run: flags in one transaction, the scope in the next |
| `Annotate` | an annotation moves along the state machine |
| `ReadBaselineRun` ... `ReadCandidateCases` | the statements of GET `/compare` and `/closure`, in the order of the handlers |

The bodies of the answers, `Compared` and `Closed`, are computed from `report` by
`ComputeAB` (`eval/ab.go`) and `ComputeClosure` (`eval/closure.go`), which follow
these functions: pairing by qid, transitions of flags, strata by category and by flag,
metric samples, warnings; verdict, evidence, eligibility and advice. Fractions are
integers in units of `1/Scale`, means are sums, and lists are sets or functions: their
order is layout. The rules behind the flags (`Attribution`) are those of
`eval/attribution.py`, over the metrics of `metrics/retrieval.py`.

### How `Annotations` corresponds to the code

`rows` is the table `annotations`, one row or none for each (run, case) pair, with
its id, status and reason; comment and assignee are written by the same `COALESCE`
as the reason and are left out. `carried` is what a handler of
`server/internal/http/annotations.go` keeps between its statements: the bound fields
and the `existing` row.

| action | code |
|---|---|
| `PostAnnotation`, `PatchAnnotation` | the POST and PATCH handlers up to the write: read, check the transition, answer 409 or 404 |
| `UpdateAnnotation`, `CreateAnnotation` | the statement that writes, with the answer to either handler; the unique key decides between inserts, and the foreign keys refuse an insert for a run or a case that is gone (404) |
| `DeleteAnnotation` | the DELETE handler, one statement |
| `DeleteRunCase` | the run or the case is deleted (`livePairs` are those that exist), and its annotation with it |

Between the two actions of a request any other request may come.

### How `HumanGold` corresponds to the code

`gold` is `human_gold_scores` of one run by its unique key (case, annotator), `results`
the metrics and judgements the worker stores. A report reads at most `ReadLimits` of them
(500 in the code), the lowest recall first (`ListRunCaseResults`). `UpsertGold`, `UpdateGold` and `DeleteGold` are the handlers, one
statement each; `given` is a history of what people last said. `Calibrated(limit)` is the body
of the calibration report in every state, computed as `ComputeCalibration` of
`eval/calibration.go` does: binary and score agreement, Cohen's kappa, agreement among
annotators, the disagreements up to the limit. A kappa is a pair of integers, so that
its equality with 0 and 1 is exact.

### How `Submission` corresponds to the code

`server` holds the defaults of the running server, `template` a row of
`pipeline_profiles`, `run` the last run submitted. Operators are the conversions:
`resolveChunkingRequest`, `resolveTopK`, `resolveGenerationRequest` and
`resolveJudgeRequest` (`http/runs.go`), `configFromBody` (`http/pipeline_profiles.go`), `BuildSnapshot` and `Fingerprint`
(`eval/snapshot.go`), and those of the pages (`profile.ts`, `rerun.ts`). Actions:
`Restart` (with other environment variables), `CreatePipelineProfile`,
`UpdatePipelineProfile`, `SaveForm`, `DeletePipelineProfile`, `Submit`,
`SubmitTemplate`, `Rerun`. A text field and a pointer field stand for all of their
kind in a section. The hash is taken to be one to one.

### How `Catalogue` corresponds to the code

Tables are sets of rows. A request `req[c]` runs through the statements of
`ImportValidCases` (`store/case.go`), `CreateDocuments` (`store/document.go`) or
`CreateRunWithJob` (`store/queue.go`); its uncommitted rows (`own`) are seen by others only
through the wait for an equal unique key, and a unique violation aborts the transaction
as PostgreSQL does, whatever the loop of the code does next. Single statements
(creations, renamings, deletions with their cascades) are actions of their own; a delete
waits for uncommitted rows that refer to what it deletes. `DeadlockDetected` ends one of
two transactions that wait for each other.

### How `Index` corresponds to the code

`collections` maps a name to points. A build of `indexer.py` asks whether the collection is
there (`ensure_collection`) and then, in calls of their own, drops it if it is to be created
anew (`delete_collection`), creates it if it is missing (`create_collection`) or asks for
its vector size (`vector_size`); then come `list_documents`, `upsert_chunks` batch by batch
and `BuildDone`. Others act between these calls: to create what is there by now, or to use
what has been dropped, raises, and the build fails with its job (`BuildFails`). `StartJob`
builds only if the collection is missing (`queue_runner.py:337`), `StartBuild` from the
command line always does. `WorkerCrash` may come in between, and `WithdrawDocument` and
`UploadDocument` too. `Search` stores the ids it found; without a collection the query raises
and the item fails (`SearchFails`). `CaseContext` is what `http/run_context.go` shows of the
ids later. A chunk is the triple of
text, cutting and index; which points a search finds is any choice.

### How `UserAdmin` corresponds to the code

`users` holds role and disabled flag of each account; names, addresses and password
hashes are written together with them and decide nothing. A request of
`server/internal/auth/service.go` is `Arrives` (the middleware finds its sender an
active administrator), `ReadTarget` (`GetUser` and the checks on it), `CountAdmins`
(`CountActiveAdmins`, if the target is an active administrator who would be lost) and
`WriteTarget`. `Register`/`Registers` are the check for the first account and its
insert. Between any two of these steps any other request may take one. `crossed` is a
history: it says whether two requests that take something away from different accounts
have been between their reads and their writes at the same time.

### How `JudgeCache` corresponds to the code

A thread is a call of `judge_case` (`worker/app/judge/builtin.py`) from an item of the
queue runner: `LookupClaims`, `AskClaims` or `ClaimsInvalid` up to `Retries` times,
`PutClaims`, then the same for the rubric, whose key holds the summary of the claims
(rubric prompt v2). `put` is `INSERT ... ON CONFLICT (cache_key) DO NOTHING`. The
model is external: it may answer something else every time. Either stage may find an
entry that no longer validates (`Damaged`, `DamagedRubrics`, `Broken`): `builtin.py` treats it
as a miss and cannot replace it. `Crash` loses all the thread holds but nothing it stored.

## 3. Runs

| run | instance | what it shows |
|---|---|---|
| `crashes` (`QueueCrashes.cfg`) | 2 workers, 2 jobs of 2 cases, batches of 1, 2 attempts, 2 faults, timely heartbeats, hand requeues; 2.0 million states | the queue's safety under crashes, stops, reclaim and resumption; `EvalQueue` implements `Evaluation` |
| `late` (`QueueLate.cfg`) | 2 workers, 1 job of 2 cases, batches of 2, 1 fault, heartbeats expire at any time, fairness; 1.0 million | what is left when two workers execute one job; every submitted job ends |
| `reports` (`Reports.cfg`) | 2 runs of 2 cases that search 1 and 2 deep, 1 case annotated (open, fixed), 2 outcomes of a case, 2 yardsticks, 1 write between the reads of a report; 1.2 million | what the reports call fixed, and that they agree |
| `people` (`People.cfg`) | accounts: 2 requests, 2 accounts; annotations: 2 requests, 1 case; gold: 2 cases, 2 annotators, 4 results, 1 or 500 of them read; submission: 3 server settings, 40 bodies, 12 forms; samples: up to 6 pairs; 0.7 million in all | five parts behind the pages |
| `stores` (`Stores.cfg`) | judge: 2 threads, 2 payloads (one with broken claims, one with broken rubrics), 3 answers, 1 retry; catalogue: 2 requests, 2 edits; index: 2 workers, 1 document of 2 chunks, 2 cuttings, 1 re-upload; job: 2 processes, 2 items; 2.9 million in all | four parts that two processes write at once |
| `live_reclaim`, `false_success`, `annotations_reopen`, `users_race`, `unjudged_fixed`, `import_conflict`, `template_topk` | as above or smaller | disagreements between the code and its comments (section 5) |

`people` and `stores` put parts side by side that share no state. The first state says
which part a behaviour is about (`part`) and the others stay as they begin, so the
states are those of the parts added up, not multiplied, and a property of a part is
checked in all states of that part.

Bounds of the queue. `MaxFaults` bounds crashes and stop signals: two are enough to
crash during an execution and again during, or stop, the resumption. Two jobs are
needed for the lowest-id rule and for a worker that moves on to another job; two cases
in batches of one leave a rest to resume, and a batch of two in `late` is one that is
interrupted halfway. Two attempts separate "retry" from "dead letter". Two workers are
enough for every race over one job. The theorems of section 6 need none of these bounds.

Bounds of the reports. Two cases are one that is annotated and one that is not, in two
categories (one of them missing). Of the two outcomes one finds its evidence at once and helps
little, which is bad by one of the two yardsticks only; the other makes things up and finds its
evidence second, which is a miss for the baseline and late for the candidate by one of them.
So each yardstick, either depth, and a judgement or its absence decide a flag somewhere. A
run may be judged or not, labelled by the worker, later, or never, and by several yardsticks.
People set two statuses, one that counts as open and one that may be closed. A single write
(`MaxOverlap`) between reads is enough to mix two moments; before the report is asked for
writes are unbounded.
`MaxCompareCases` (500 in the code) is 2: runs at the limit, none beyond it.

Bounds of the others. Two requests on one case are every race of check and write:
each reads one row and writes it once. `MaxAnnotations = 2` lets an annotation be deleted
and created anew between the two; `ListLimit = 1` is the edge of the list (500 in the
code). Two accounts (`MaxId`) are two administrators who act on each other, three in
`users_race`; the theorem `AdminAlways` is for any number. Two cases and two annotators give every sign of agreement, missing opinions on
either side, and a disagreement beyond the limit (`MaxDisagreements = 1`); with one result read of two
(`ReadLimits`) a case is scored by people, judged, and not read. Bodies leave
out or send everything, are mixtures, or have one reason to be refused each (`MaxTopK`,
`MaxTemperature` are the limits of the code, made small). Six pairs have ties, zeros and
one-sided samples (differences of -3, -2, 0 and 1, two of which differ in size on one
side); the code's exact test, and the theorem, go up to 25. Two threads make a parallel miss,
and three answers show that more verdicts than threads would have been possible. Two
requests and two edits (`MaxEdits`) of the catalogue are any two of an import, an upload
and a submission with a deletion or a renaming between any two of their statements.
`UpsertBatch = 1` puts a crash between two batches; `TopK = 2` retrieves a whole
collection. Two processes and two items are the smallest cycle of waits, and two items
settled at once the smallest lost count.

`CHECK_DEADLOCK FALSE` is used where the system stops: when all jobs are done and
faults are used up (an idle poll changes nothing), and in `people` when all ids a bound
allows are handed out or a sample is full. `reports` and `stores` check for deadlocks; in
`stores` a state in which nothing can move is either an answer to everything
(`Terminating`) or an error.

Timely heartbeats (`TimelyHeartbeats = TRUE`) are an assumption about time that the
code does not guarantee: the stale timeout (60 s) must be longer than a worker ever
goes without refreshing. The code refreshes when an item is settled and between
batches only. The properties under "as long as heartbeats are timely" in `EvalQueue`
need it, `live_reclaim` shows that they do, and `late` shows what holds without it.

Fairness (`FairSpec`). A worker that can take a step does (`WF` of `Work`: processes
run, models answer or time out); a worker that is down is restarted (`WF` of
`Start`: `restart: unless-stopped` in `compose.yaml`, or an operator); an idle worker
whose polls find nothing reclaims every so many polls (`WF` of `PollReclaims`,
`run_forever`); the heartbeat of a job nobody executes grows old
(`WF` of `AbandonedExpires`: time passes). No fairness is assumed of crashes, stops,
submissions, `POST /jobs/reclaim` or hand requeues. Crashes are bounded: a job that
kills every worker that takes it is not covered.

## 4. Properties

Each is stated in words above its definition, and each is shown to fail for a
plausible bug (the definitions called *Mutant* in the modules, "mutants" in
`PROJECT.json`).

- Queue, for any heartbeat: `FailuresBounded`, `SucceededHasResult`,
  `FinishedJobStaysFinished`, and under fairness `SubmittedJobEnds`. With timely ones:
  `OneExecutor`, `NoRework`, `SucceededRunComplete`, `OrphansOnlyByConfig`,
  `MetricsCoverResults`, and the refinement `KeepsPromise`.
- Its transactions: `ProgressDriftsOnlyShared` (the progress is exact unless two processes
  have executed the job), `OnlyReclaimDeadlocks`.
- Reports, under any writes between their reads: `FixedIsRepaired`, `ClosedIsRepaired` (what
  is called fixed, or may be closed, is repaired by the thresholds its own run was labelled
  with; by one yardstick it need not be, see section 5), `FixedWasJudged` (no case is fixed for want
  of a judgement, between runs labelled alike), `OneAnswer` (both reports say the same),
  `UnjudgedNotCompared`, `StrataAgree`.
- Calibration and gold scores: `KappaDiscounts` (what chance explains is no agreement),
  `SilentOut` (no opinion is no evidence, and every case read on which both spoke is), `ReportCoherent`, `LastGivenStands`.
- Signed-rank test: `ExactPValue`, against the definition over all sign assignments.
- Submission: `PreviewForetells`, `TemplateFrozen` (a stored template means the same under later
  defaults, retrieval depth included), `RerunReproduces`.
- Catalogue: `AnsweredAsStored`, `RunOfOneProject`. Index: `BuildComplete` (what a
  build has read is in the collection, by document and index, also when its job searches it),
  `ContextHonest` (unless its document was uploaded anew, a text shown is the one
  retrieved, or is marked missing).
- Annotations: `LegalUnlessOvertaken` (the workflow is left only by a request that was
  overtaken), `NothingUnasked` (fields written by different requests do not undo each
  other).
- Accounts: `LostOnlyByCrossing` (the last active administrator is lost only to two requests
  that cross; that it can be lost, against `ActiveAdminRemains`, is `users_race`).
- Judge: `VerdictsBounded` (no more verdicts for a payload than threads that missed
  together), `RubricFitsClaims`.

Each module has one type invariant, which also says what keys and references of the
tables say.

## 5. Findings

1. `live_reclaim`. `queue.py:319` promises that an active job is never taken over.
   Heartbeats are refreshed between items and batches only, while one batch may wait
   for models for minutes (60 s timeout, 3 attempts, several calls per item).
2. `false_success`. A stop signal between the pause check (`queue_runner.py:416`) and
   the verdict (`:433`) switches off the check for unfinished items and the run ends
   as succeeded. Another worker on the same job (finding 1) leaves such items.
3. `annotations_reopen`. A POST without a status is taken for one with "open"
   (`http/annotations.go:171`) although `:142-145` says that a field not sent is not
   changed; the workbench sends a reason alone and so reopens what was fixed.
4. `users_race`. Two administrators who demote or delete each other at the same time
   both count two (`auth/service.go:193, 224`) and no administrator is left.
5. `unjudged_fixed`. A hallucination of a judged baseline is listed as fixed against a
   candidate that judges nothing: both are labelled, and only the flags are compared
   (`eval/ab.go:367`), although `process.md:301` says that no judgement is never no
   hallucination.
6. `import_conflict`. `store/case.go:78` says that a bad line does not harm the good ones.
   A unique violation aborts the transaction in PostgreSQL; the loop goes on (`:150-154`),
   the next statement fails, and nothing is imported.
7. `template_topk`. The template page posts `retrieval.top_k` (`profile.ts:60`), the server
   binds a flat `top_k` (`http/pipeline_profiles.go:52`): every template has the default.

Met while modelling, without a run of their own. The first six are stated as properties
in the modules (`NoOrphans`, `ContextAsRetrieved`, `UnlabelledNotFixed`, `AdviceAccepted`,
`FixedByOneYardstick`, `SearchedWhole`), and TLC refutes each when it is added to the run of its module.

- `queue.py:261-264` says items are released before a job is ended; the configuration
  check (`queue_runner.py:288-296`) ends it first and leaves running items.
- `store/qdrant.go:14-18` and `process.md` (D17) say that an old run gets the very text of
  its time. A document uploaded anew with the same id overwrites the points.
- `eval/ab.go:298-299` says that between runs neither of which was labelled nothing is
  listed as fixed. A run labelled between two reads of the report is.
- `eval/closure.go:290` advises to set a case from `wontfix` to `verified`, which
  `canTransition` refuses.
- `docs/attribution.md:55-74` and `process.md:294-302` leave the thresholds to whoever starts
  a worker or the labelling command, and have them recorded with the run because flags of
  different thresholds do not compare. Nobody reads the record: a comparison looks only at
  whether both runs have a scope (`runs_compare.go:113-121`). So a case may lose
  `generation_quality` or `retrieval_low_rank` to a looser threshold or a deeper search alone
  and be listed as fixed (`FixedByOneYardstick`). And of a run that one worker began and
  another one ended only the second's thresholds are recorded (`queue_runner.py:222-229`),
  although "whichever value is used is the one recorded" (`process.md:302`).
- A collection that exists is taken for a whole one (`queue_runner.py:337`). A job that comes
  while another is still building it, or after one died half way, searches half the
  corpus and reports the evidence as missed. If both find it missing, the second to create it
  gets an error and its run fails.
- `http/human_gold.go:244-246` reads 500 results of a run, and would rather leave out a few
  cases of a longer one than truncate in silence. The order is by recall, the lowest first, so
  what is left out is not any few, but the cases with the best retrieval; and the report
  counts them as cases on which the judge has no opinion, as if it had not spoken.
- `http/human_gold.go:270-271` says that comparison and calibration agree on which cases
  were judged. A judgement without claims has a summary and no opinion.
- `docs/reliability.md:20-21` and `process.md:153` say that an item is not tried again once it
  has reached the limit. The counter is raised by `fail_item` only; an attempt that ends with its worker counts nowhere, and
  of several workers that hold an item each may fail it beyond the limit (`FailuresBounded`
  has the number).
- A worker that ends after `finish_job` and before `update_run_metrics` leaves a finished run
  without metrics. Nobody writes them later, for no job is left to claim.
- `docs/reliability.md:40-41` says that progress, being recounted, never drifts. Two
  workers on one job (finding 1) that settle two items at once count before either
  commits, and the count written last is short until the next settlement.
- A reclaim and a settlement of a live job lock item and job row in opposite orders. The
  one PostgreSQL picks ends with an error `run_forever` does not catch.
- Without `JUDGE_RUBRIC_PROMPT_ID` the server defaults to the rubric prompt v1
  (`config/config.go:86`), `eval/snapshot.go:152` and the worker to v2.
- `describeChanges` (`web/src/utils/rerun.ts`) lists the parameters a re-run changes; the
  rubric switch, the rubric prompt and most limits are not among them, so that a re-run
  that changes one of them alone is announced as a reproduction.
- A transition is checked against the row as it was read. Of two requests that
  overlap, the second may take `fixed` to `wontfix` or `verified` to `fixed`, which the
  migration `000007_annotations.up.sql:9` does not foresee; hence "unless overtaken".
- Of two identical first submissions that overlap, one gets 409, although
  `annotations.go:53` says that repeats are accepted.
- PATCH looks for its annotation among the first 500 (`annotations.go:272`): any later
  one is "not found".
- `judge/cache.py:9-11` promises that the same payload is judged the same way: threads
  that miss together report different verdicts, and an entry that does not validate is
  never replaced, so its payload is asked about every time.
- Registration closes once there is an account (`auth/service.go:70-80`). Two first
  registrations that overlap both find none and both become administrators; `Register`
  and `Registers` of `UserAdmin` have that behaviour.
- With one request at a time `ErrLastAdmin` cannot occur: the sender is an active
  administrator and may not demote itself. The check matters only to requests that
  overlap, for which it is not enough.

## 6. Theorems

Each of the arguments below is for all values of the constants, from the module's
named assumption alone.

`EvalQueueProofs`, for every number of workers, jobs and cases, every retry limit,
batch size and fault bound (`QueueAssumption`):

- `TypeCorrect`; and from the inductive invariant `LateInv`: `RunAndJobAgree`,
  `RetryLimit` (failures recorded, for any number of workers that hold an item at
  once), `Checkpointed`, `NeverReopened`. The argument runs over two summaries
  of `Next`: `JobSteps` (how one job can move) and `CellSteps` (how one item can).
- with `TimelyHeartbeats`, from `TimelyInv`: `Exclusive`, `NoLiveReclaim`,
  `NoRepeatedWork`, `SuccessIsComplete`, `OrphanCause`, `MetricsComplete`,
  `NoInconsistentEnd`, `ResultsSettled`. None is inductive: `TimelyInv` adds that an
  executed job is running and fresh (`ExecutedIsLive`), that its running items are exactly
  the executor's batch (`BatchRuns`, `RunningIsHeld`), that after the loop all are finished
  (`LoopLeavesAllFinished`), and that nothing of a finished job changes
  (`FinishedFrozen`, a lemma), so that what a worker read is still true when it acts.
- `CountsExact`, over the summary `CountSteps`. Its proof does not use that heartbeats
  are timely; the hypothesis stands for transactions on one job that do not overlap,
  for only then is the recount of `jobs.progress` the one step it is here.
- `Implements`: with timely heartbeats `EvalQueue` implements `Evaluation`
  (`Spec => KeepsPromise`). Settling an item is `Settle` (the item was running, so its
  case open, and its job running, so the run without verdict); `finish_job` is
  `Conclude` (that a success has every case done is `SucceededJobComplete` after the
  step); every other step leaves outcomes and verdicts alone.

`JobTransactionsProofs`, for every number of processes and items, with
`JobAssumption` (items are numbers, finitely many). That a statement visits the rows it
locks in the order of their ids is part of the model and an assumption on the plan
PostgreSQL chooses, which the code does not enforce with an `ORDER BY`.

- `ProgressExact`: while one process at a time executes the job, its progress is exact
  whenever no transaction is under way. The counts of a transaction that is about to
  write are exact for the statuses it will leave (`CountInv`), because beside an executor
  at most one process writes items, a reclaim, which holds the job row (`Exclusive`) and
  only puts running items back, which changes neither count. `JobTyped` comes from the
  same invariant.
- `AtOneStroke`: while one process at a time executes the job, each committed transaction
  is one step, as `EvalQueue` takes it, however statements overlap. It does not hold
  because of the locks alone. `StrokeInv` adds that a release misses no running item
  (`Whole`), for only the executor claims and it is busy releasing; and that neither the
  item a transaction settles nor those its process holds for later are settled yet
  (`HeldOpen`), although a reclaim may have put them back in between. What does not
  follow is that a reclaim puts back all running items: a live executor may claim more
  after the reclaim's scan. They stay running under a pending job until the release of
  the next claim, and here `EvalQueue`, whose reclaim takes all, is coarser than the
  code; with timely heartbeats nobody executes a job that is reclaimed.
- `SettledOnce`: nor is a settled item ever taken back. With two executors it can be.
  TLC checked `StrokeInv` and both properties for three processes and two items
  (10,510,373 states) before they were proved, and finds `SettledStays` violated when the
  condition is dropped; no run is kept for them.
- `ReclaimInDeadlocks`: every cycle of lock waits contains a reclaim. Among the others
  nobody waits for an item while holding the job row; so who is waited for holds a higher
  item than the one that waits for it wants (`LocksAscend`), and a set in which everybody waits for
  somebody would be an ascent without end in a finite set (`NoEndlessAscent`).

`PeopleProofs`, accounts (`UserAssumption`), for any number of requests that interleave in any
way: `AdminAlways`. That an active administrator remains until two requests cross is not
inductive: `AdminInv` adds that, until then, a request about to take one away has left
another (`LeavesAnother`) and that all requests past their reads that take away do so from one account
(`Apart`), for otherwise each could be the other's.

`StoresProofs`, the judge's cache (`JudgeAssumption`), whichever entries are broken: `CacheTyped`; `RubricsFit` from `FitInv`, by which entries,
threads and results agree on the summary a rubric was given for; `FirstStays`; and
`FewVerdicts`, for finitely many threads. The bound on verdicts is not inductive, for a
thread that has missed the entry may bring one more. The invariant `Counted` adds these
threads up with the verdicts reported, held and cached: nothing is known of a payload
before its entry is there; the first store can leave at most the other threads with a
miss, a later one is a verdict more and a thread less (`PutCounts`), and every other
step leaves both alone (`QuietCounts`).

`PeopleProofs`, annotations (`AnnotationAssumption`), for every number of requests, annotations
and reasons: `OnlyLegalMoves`, `FieldsKept`, without the bound on ids, and
`AnnotationsTyped` with it.
What a request may write was decided when it was checked, so the invariant is about what
it carries: about to update, it has a legal transition from the row it has read
(`CheckedInv`). `RowSteps` says that a stored row changes by one request's UPDATE only,
and to what `MergedInto` makes of the row and of that request. That ids stay within
the bound is not inductive: several requests may have passed the check and not inserted
yet. `RoomInv` adds that each of them has an id left to it; for this the requests served
at once must be finitely many.

`StoresProofs`, the index (`IndexAssumption`: finitely many documents, whose ids are numbers, and
batches that are not empty), for every number of workers, documents, chunks and cuttings:

- `BuildsComplete`, from the asking for the collection to the search. The invariant says that what a worker has written is in the collection
  unless somebody dropped it (`AllWritten`), which other builds keep, for they only add points
  (`Grows`); and that a point lies where the id of its chunk says (`Placed`), so that who
  finds the point finds the chunk.
- `ContextsHonest`. Nobody holds a text other than the first one of a document that was
  never uploaded anew (`HeldText`), and an id determines document, cutting and index; hence
  two entries under one id are the same chunk.
- `CuttingsApart`. A name determines the cutting, and every point lies in the collection
  of its own (`Placed`).

`CatalogueProofs`, for every number of clients, projects, files and edits:

- `OneProject`, without an assumption. A submission reads the two projects in statements
  of its own, so the invariant is about what it remembers: an id it has read still belongs to that project, if
  it belongs to anything (`ReadAs`), since ids are given once and projects never change; and
  a run that is not committed refers to rows that are there, since a delete waits for it.
- `AnswersHonest` (`CatalogueAssumption`: files and lists are sequences, a list names no
  document twice, and "ok" is not NULL). The argument is bookkeeping over the lines of
  a request: those still to write, those written and those reported are apart and
  together the file, and each line written is a row of its own. The last part needs the
  unique key: a line whose row exists, committed or not, is a violation or a wait.
- `ReferencesKept` (`CatalogueAssumption`, which also gives the rows there at first names
  and identifiers of the same kinds). The foreign keys of the tables are not checked by
  the actions; they hold because what a transaction has not committed refers to rows that
  are there (`RefersInv`), its target and the cases it has selected included: whoever
  deletes one of these waits (`PendingRefers`), and what a deletion takes away with a row
  are exactly the rows that refer to it.

`RunReportsProofs` (`ReportsAssumption`: a search returns a chunk once, a judgement
counts claims), for every number of cases, outcomes, yardsticks, depths and writes between the
reads of a report: `TypesCorrect`, `FixedRepaired`, `ClosedRepaired`, `FixedJudged`,
`OneAnswerAlways`, `UnjudgedLeftOut`, `StrataTold`. `RunInv` says that the flags of a run with a scope
are those of the rules, asked with the thresholds of each row (`Labelled`), because the labelling command writes the flags
before the scope. `ReportInv` carries this through the reads: the scope is read before
the rows, so rows that follow a scope are labelled, whatever was written between
(`RowsRead`). What is left is about computations: no flag means nothing wrong
(`CleanIsRepaired`, from how hits, ranks and claims are counted), both reports
decide by the same flags (`ComparedCases`, `VerdictByFlags`), and the flagged cases of
all categories add up to the flagged cases (`FlaggedInGroups`, for which the cases must
be finitely many). The first attempt failed for a good
reason: `Repaired` did not look at the rubric, so that a case whose only flag was
`generation_quality` counted as repaired in the baseline. The definition now does, and
the run has an outcome of that kind.

`PeopleProofs`, gold scores and calibration (`GoldAssumption`: finitely many cases and
annotators, both numbered as the code sorts them, and a stored judgement has a summary):

- `ScoresStand`, which is inductive with its types, and `GoldTyped`.
- `SilentLeftOut`. That the judge has an opinion is that a judgement has claims
  (`OpinionIsClaims`), so the pairs counted are the cases read in which both sides spoke, and
  each of the four counts ranges over the same set with and without the others.
- `KappaDiscounted`. The four cells add up to the pairs (`CellsCount`). Numerator and
  denominator are products of the margins: with cells a, b, c, d the numerator is
  2(ad - bc), the denominator (a+b)(b+d) + (a+c)(c+d) (`KappaNumerator`), from which
  bounds and the two extremes follow (`KappaBounds`).
- `Coherent`. A row that is listed has a place of its own: rows of one annotator are of
  different cases, so those with fewer than the limit ahead of them are the limit, or
  all (`DisagreementsListed`, from `FirstPlaces`). The differences of all scored cases are
  summed by pairs of scores (`MatrixSums`, from `SumByKey`). Of finitely many annotators
  one comes first by rows and then by name (`PrimaryHasMost`), and the report of that
  annotator's rows alone has the same primary annotator (`OthersIgnored`).

`PeopleProofs`, configurations (`SubmissionAssumption`: the defaults of a server and of
the form are within the limits, an absent field is not a value): `TemplatesComplete`,
`Foretold`, `Frozen`, `Reproduced`. A resolved configuration lacks nothing
(`ResolvedComplete`), so resolving it again under any server changes nothing
(`ResolvedAgain`), and the ways through a form and through a snapshot bring it back as it
was (`ThroughForm`, `ThroughSnapshot`). A preview resolves twice, a template and a re-run
are resolved under a later server: all three are instances of the same fact.

`WilcoxonProofs` (`SampleAssumption`: differences are whole in the units of the metric, and
a sample has at most 25 pairs): `PValueExact`, for every such sample. The ranks, doubled,
add up to n (n + 1) whatever the ties (`RanksAddUp`): a rank counts the pairs that are
smaller twice and the ties once, and each pair is counted from one side or from both.
So every choice of positive differences has its sum in the table (`RankSums`). The
recursion of the table has one solution (`CountsOnly`), and the numbers of choices of
the first k ranks with a given sum are one (`CountsSolved`), since a choice either
leaves the k-th rank out or adds it to a choice among the others (`OneRankMore`). Then
the sum over the far entries is the number of far choices (`ExtremeRight`), and there are
2^n choices in all.

`CountingProofs` has what these proofs share: sums over finite sets (`SumFunctionOnSet` is
a fold over a choice of elements, which `OneTable` and `SomeTable` turn into a table and
`SumPoint` frees from the order), their regrouping by keys, sizes and places.
Induction is stated with a set in place of a predicate (`ElementInduction`,
`NumberInduction`): a subset of N that has the least element and is closed under the
step is all of N.

The composed runs. Every behaviour of `MCPeople` or `MCStores` is a behaviour of each of
their parts (`PartsOfPeople`, `PartsOfStores`), so the theorems about a part hold in the
run. `PeopleTyped` and `StoresTyped` put the types together: `AccountsTyped`, `AnnotationsTyped`, `GoldTyped` and `TemplatesComplete`;
`CacheTyped`, `ReferencesKept`, `CuttingsApart` and `JobTyped`. In `MCPeople` a submission
has a server only if the behaviour is about submissions (`SubmittingAlways`).

Some theorems are about definitions no run checks, for the run's other properties imply
or resemble them: `RunFollowsJob`, `ResultOnlySucceeded`, `FallbackUnreached`,
`FinishedCountsExact`, `LiveJobNotReclaimed` with timely heartbeats, `EntryStays`, `CommitsAsOne`, `SettledStays`.

Every invariant and every action property the passing runs check is a theorem, and so is
the refinement. TLC only: liveness (`SubmittedJobEnds`), which is out of the prover's
reach with the fairness it rests on; and of course the counterexamples of section 5.

## 7. Plan

Done: the queue with its transactions, the tables requests and threads race on, the
reports with the writers they read beside, and the path of a configuration. What would
come next:

| what | how | worth it because |
|---|---|---|
| deletion of a case under a running job | the cascade of `Catalogue!DeleteCase` in `EvalQueue` | `complete_item` then violates a foreign key, an ordinary failure of the item |
| `JobTransactions` and `EvalQueue` | the reclaim in `EvalQueue` as coarse as `AtOneStroke` leaves it, then a refinement for executions without overlap | commits are single steps already; would join the two levels of detail |
| a job that ends every worker | unbounded crashes of one job in `EvalQueue` | jobs have no retry limit |
| session and polling of the web | answers that arrive out of order | the store of the page keeps the last answer only |

## 8. Not modelled

- Routing, settings, logging, lists and views, which keep no state of their own;
  cryptography of tokens and passwords.
- Text: prompts, parsing and truncation of model answers, anchors, canonical JSON of the two
  implementations of snapshots, names and their conflicts, wording and order of lists.
- The vector store, the model provider and PostgreSQL themselves, which are modelled from
  how the code uses them; deployment.
- The normal approximation of the signed-rank test above 25 pairs (real numbers), MRR, nDCG
  and averages over cases (sums of fractions no property depends on).
- `FailJobItem` and `ReleaseJob` of `store/queue.go`, in two transactions each, which only
  tests call; the other statements of `store/queue.go` and `queue.py` are the same ones and
  are modelled once.
- Deletion of projects, one cascade; of a case under a running job (section 7).
- In `EvalQueue`: statements inside a transaction (see `JobTransactions`), model calls (a
  choice of outcomes), and time (a heartbeat is fresh or not).

"components" in `PROJECT.json` lists every part with its reason.
