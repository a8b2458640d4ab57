----------------------------- MODULE EvalQueue -----------------------------
(***************************************************************************)
(* The evaluation queue: the tables runs, jobs, job_items and case_results *)
(* and the worker processes that execute jobs against them                 *)
(* (worker/app/queue.py, worker/app/eval/queue_runner.py; the Go server    *)
(* performs the same statements in server/internal/store/queue.go).        *)
(*                                                                         *)
(* One action is one database transaction; everything a worker remembers   *)
(* between two transactions is a variable of its own, so that other        *)
(* workers, the reclaim of stale jobs and crashes come in between.         *)
(***************************************************************************)
EXTENDS Naturals, FiniteSets

CONSTANTS
    Workers,          \* worker processes (app.cli.worker)
    Jobs,             \* job ids; CreateRunWithJob gives every run one job
    Cases,            \* the cases of the dataset a run evaluates
    MaxRetries,       \* --max-retries
    BatchSize,        \* --batch-size
    TimelyHeartbeats, \* TRUE: no heartbeat of a job in execution ever expires
    HandRequeue,      \* TRUE: an operator may put an abandoned job back by hand
    MaxFaults,        \* bound: crashes and stop signals in a behaviour
    NoJob, NoMetrics  \* "no value"

ASSUME QueueAssumption ==
    /\ IsFiniteSet(Workers)
    /\ Jobs \subseteq Nat
    /\ Cases # {}
    /\ MaxRetries \in Nat \ {0}
    /\ BatchSize \in Nat \ {0}
    /\ TimelyHeartbeats \in BOOLEAN
    /\ HandRequeue \in BOOLEAN
    /\ MaxFaults \in Nat
    /\ NoJob \notin Jobs
    /\ NoMetrics \notin SUBSET Cases

VARIABLES
    \* ---- the database
    jobStatus,  \* jobs.status ("none": not submitted)
    runStatus,  \* runs.status
    error,      \* jobs.error, as the cause it names
    item,       \* job_items.status of each case
    retry,      \* job_items.retry_count
    results,    \* the cases that have a row in case_results
    progress,   \* jobs.progress, as the item statuses it was counted from
    fresh,      \* jobs.heartbeat_at is younger than the stale timeout
    metrics,    \* runs.metrics, as the cases it was aggregated from
    \* ---- each worker
    pc,         \* where execute_job stands
    job,        \* the job it executes
    batch,      \* the claimed items it has not settled yet
    seen,       \* the item statuses job_progress returned
    agg,        \* the cases _aggregate_run_metrics read
    stop,       \* _stop_requested
    \* ---- the environment
    faults      \* crashes and stop signals so far

runTable  == <<jobStatus, runStatus, error>>
itemTable == <<item, retry, results>>
dbVars    == <<runTable, itemTable, progress, fresh, metrics>>
local     == <<batch, seen, agg>>
workerVars == <<pc, job, local, stop>>
vars      == <<dbVars, workerVars, faults>>

Finished   == {"succeeded", "failed"}
Unfinished == {"pending", "running"}
Status     == {"none"} \cup Unfinished \cup Finished
Causes     == {"none", "reclaimed", "config", "index", "llm", "items", "inconsistent"}

\* A worker executes a job from claim_job until finish_job or release_job.
Executing  == {"claimed", "ready", "loop", "beat", "batch", "exit", "finish",
               "abort", "failing"}
Locations  == {"down", "idle", "metrics", "write"} \cup Executing

Executes(w, j) == pc[w] \in Executing /\ job[w] = j
Terminal(j)    == jobStatus[j] \in Finished

TypeOK ==
    /\ jobStatus \in [Jobs -> Status]
    /\ runStatus \in [Jobs -> Status]
    /\ error \in [Jobs -> Causes]
    /\ item \in [Jobs -> [Cases -> Status]]
    /\ retry \in [Jobs -> [Cases -> Nat]]
    /\ results \in [Jobs -> SUBSET Cases]
    /\ progress \in [Jobs -> [Cases -> Status]]
    /\ fresh \in [Jobs -> BOOLEAN]
    /\ metrics \in [Jobs -> (SUBSET Cases) \cup {NoMetrics}]
    /\ pc \in [Workers -> Locations]
    /\ job \in [Workers -> Jobs \cup {NoJob}]
    /\ \A w \in Workers : job[w] = NoJob <=> pc[w] \in {"down", "idle"}
    /\ batch \in [Workers -> SUBSET Cases]
    /\ seen \in [Workers -> SUBSET Status]
    /\ agg \in [Workers -> SUBSET Cases]
    /\ stop \in [Workers -> BOOLEAN]
    /\ faults \in 0..MaxFaults

Init ==
    /\ jobStatus = [j \in Jobs |-> "none"]
    /\ runStatus = [j \in Jobs |-> "none"]
    /\ error = [j \in Jobs |-> "none"]
    /\ item = [j \in Jobs |-> [c \in Cases |-> "none"]]
    /\ retry = [j \in Jobs |-> [c \in Cases |-> 0]]
    /\ results = [j \in Jobs |-> {}]
    /\ progress = [j \in Jobs |-> [c \in Cases |-> "none"]]
    /\ fresh = [j \in Jobs |-> FALSE]
    /\ metrics = [j \in Jobs |-> NoMetrics]
    /\ pc = [w \in Workers |-> "idle"]
    /\ job = [w \in Workers |-> NoJob]
    /\ batch = [w \in Workers |-> {}]
    /\ seen = [w \in Workers |-> {}]
    /\ agg = [w \in Workers |-> {}]
    /\ stop = [w \in Workers |-> FALSE]
    /\ faults = 0

(***************************************************************************)
(* Parts of the transactions.                                              *)
(***************************************************************************)
Goto(w, there) == pc' = [pc EXCEPT ![w] = there]

\* Aggregate the item statuses of j into jobs.progress and refresh the heartbeat.
PROGRESS_SQL(j) ==
    /\ progress' = [progress EXCEPT ![j] = item'[j]]
    /\ fresh' = [fresh EXCEPT ![j] = TRUE]

\* Mutants: the status filter of the UPDATE, or the UPDATE itself, is missing.
Released_AnyStatus(j) == [item EXCEPT ![j] = [c \in Cases |-> "pending"]]
Released_Nothing(j) == item

\* Every running item of j goes back to pending.
Released(j) ==
    [item EXCEPT ![j] = [c \in Cases |-> IF @[c] = "running" THEN "pending" ELSE @[c]]]

release_running_items(j) ==
    /\ item' = Released(j)
    /\ PROGRESS_SQL(j)
    /\ UNCHANGED <<retry, results>>

\* Job and run get the same terminal status, whatever they had before.
finish_job(j, status, cause) ==
    /\ jobStatus' = [jobStatus EXCEPT ![j] = status]
    /\ runStatus' = [runStatus EXCEPT ![j] = status]
    /\ error' = [error EXCEPT ![j] = cause]

\* Mutant: the worker still remembers the job it left.
Rest_KeepsJob(w) ==
    /\ pc' = [pc EXCEPT ![w] = IF stop[w] THEN "down" ELSE "idle"]
    /\ stop' = [stop EXCEPT ![w] = FALSE]
    /\ UNCHANGED <<job, local>>

\* Leave execute_job: a stopped worker's process ends, the others poll again.
Rest(w) ==
    /\ pc' = [pc EXCEPT ![w] = IF stop[w] THEN "down" ELSE "idle"]
    /\ job' = [job EXCEPT ![w] = NoJob]
    /\ seen' = [seen EXCEPT ![w] = {}]
    /\ agg' = [agg EXCEPT ![w] = {}]
    /\ stop' = [stop EXCEPT ![w] = FALSE]
    /\ UNCHANGED batch

(***************************************************************************)
(* Submitting and claiming.                                                *)
(***************************************************************************)

\* POST /runs: run, job and one pending item per case in one transaction.
CreateRunWithJob(j) ==
    /\ jobStatus[j] = "none"
    /\ jobStatus' = [jobStatus EXCEPT ![j] = "pending"]
    /\ runStatus' = [runStatus EXCEPT ![j] = "pending"]
    /\ item' = [item EXCEPT ![j] = [c \in Cases |-> "pending"]]
    /\ progress' = [progress EXCEPT ![j] = item'[j]]
    /\ UNCHANGED <<error, retry, results, fresh, metrics, workerVars, faults>>

\* Mutant: a running job may be claimed, too.
claim_job_Running(w, j) ==
    /\ pc[w] = "idle"
    /\ jobStatus[j] \in Unfinished
    /\ jobStatus' = [jobStatus EXCEPT ![j] = "running"]
    /\ runStatus' = [runStatus EXCEPT ![j] = "running"]
    /\ fresh' = [fresh EXCEPT ![j] = TRUE]
    /\ Goto(w, "claimed")
    /\ job' = [job EXCEPT ![w] = j]
    /\ UNCHANGED <<error, itemTable, progress, metrics, local, stop, faults>>

\* claim_job once FOR UPDATE SKIP LOCKED has selected j.
claim_job(w, j) ==
    /\ pc[w] = "idle"
    /\ jobStatus[j] = "pending"
    /\ jobStatus' = [jobStatus EXCEPT ![j] = "running"]
    /\ runStatus' = [runStatus EXCEPT ![j] = IF @ \in Unfinished THEN "running" ELSE @]
    /\ fresh' = [fresh EXCEPT ![j] = TRUE]
    /\ Goto(w, "claimed")
    /\ job' = [job EXCEPT ![w] = j]
    /\ UNCHANGED <<error, itemTable, progress, metrics, local, stop, faults>>

\* run_forever and --once take the lowest pending id.
ClaimNextJob(w) ==
    \E j \in Jobs :
        /\ \A i \in Jobs : jobStatus[i] = "pending" => j <= i
        /\ claim_job(w, j)

\* --once --job-id takes the job it names; a claim that skips a row another
\* claim has locked is such a claim too.
ClaimJobById(w, j) == claim_job(w, j)

(***************************************************************************)
(* execute_job, before the first batch.                                    *)
(***************************************************************************)

\* An invalid generation or judge section ends the job before any case runs.
RejectConfig(w) ==
    /\ pc[w] = "claimed"
    /\ finish_job(job[w], "failed", "config")
    /\ Rest(w)
    /\ UNCHANGED <<itemTable, progress, fresh, metrics, faults>>

\* What a killed worker left in running is put back before the first claim.
ResumeItems(w) ==
    /\ pc[w] = "claimed"
    /\ release_running_items(job[w])
    /\ Goto(w, "ready")
    /\ UNCHANGED <<runTable, metrics, job, local, stop, faults>>

\* The collection exists, or index_corpus builds it.
IndexReady(w) ==
    /\ pc[w] = "ready"
    /\ Goto(w, "loop")
    /\ UNCHANGED <<dbVars, job, local, stop, faults>>

IndexFails(w) ==
    /\ pc[w] = "ready"
    /\ finish_job(job[w], "failed", "index")
    /\ Rest(w)
    /\ UNCHANGED <<itemTable, progress, fresh, metrics, faults>>

(***************************************************************************)
(* execute_job, the batches.                                               *)
(***************************************************************************)
Pending(j) == {c \in Cases : item[j][c] = "pending"}

\* Which items SKIP LOCKED leaves for w.  A batch is short when --max-items
\* bounds it, and empty when nothing is pending or when another worker on the
\* same job is claiming or settling all that is.
Claimable(w, j) ==
    {S \in SUBSET Pending(j) :
        /\ Cardinality(S) <= BatchSize
        /\ S = {} => \/ Pending(j) = {}
                     \/ \E v \in Workers \ {w} : job[v] = j /\ pc[v] \in {"loop", "batch"}}

\* claim_job_items: no look at jobs.status, no refresh of jobs.progress.
ClaimItems(w) ==
    /\ pc[w] = "loop"
    /\ ~stop[w]
    /\ \E S \in Claimable(w, job[w]) \ {{}} :
           /\ item' = [item EXCEPT ![job[w]] =
                           [c \in Cases |-> IF c \in S THEN "running" ELSE @[c]]]
           /\ batch' = [batch EXCEPT ![w] = S]
    /\ Goto(w, "beat")
    /\ UNCHANGED <<runTable, retry, results, progress, fresh, metrics, job,
                   seen, agg, stop, faults>>

\* After a claim the heartbeat is refreshed if the last refresh is old enough.
Heartbeat(w) ==
    /\ pc[w] = "beat"
    /\ \/ UNCHANGED fresh
       \/ fresh' = [fresh EXCEPT ![job[w]] = TRUE]
    /\ Goto(w, "batch")
    /\ UNCHANGED <<runTable, itemTable, progress, metrics, job, local, stop, faults>>

\* The next item of the batch, or the next batch.
Settled(w, c) ==
    /\ batch' = [batch EXCEPT ![w] = @ \ {c}]
    /\ Goto(w, IF batch[w] = {c} THEN "loop" ELSE "batch")

\* Mutant: the result is not stored.
complete_item_NoResult(j, c) ==
    /\ item' = [item EXCEPT ![j][c] = "succeeded"]
    /\ UNCHANGED <<results, retry>>
    /\ PROGRESS_SQL(j)

\* complete_item: result, item and progress in one transaction.
complete_item(j, c) ==
    /\ results' = [results EXCEPT ![j] = @ \cup {c}]
    /\ item' = [item EXCEPT ![j][c] = "succeeded"]
    /\ UNCHANGED retry
    /\ PROGRESS_SQL(j)

\* Mutant: one attempt too many.
fail_item_OffByOne(j, c, limit) ==
    /\ retry' = [retry EXCEPT ![j][c] = @ + 1]
    /\ item' = [item EXCEPT ![j][c] = IF retry[j][c] + 1 > limit THEN "failed" ELSE "pending"]
    /\ UNCHANGED results
    /\ PROGRESS_SQL(j)

\* fail_item: another attempt, or the dead letter once limit is reached.
fail_item(j, c, limit) ==
    /\ retry' = [retry EXCEPT ![j][c] = @ + 1]
    /\ item' = [item EXCEPT ![j][c] = IF retry[j][c] + 1 >= limit THEN "failed" ELSE "pending"]
    /\ UNCHANGED results
    /\ PROGRESS_SQL(j)

CompleteItem(w, c) ==
    /\ pc[w] = "batch"
    /\ c \in batch[w]
    /\ complete_item(job[w], c)
    /\ Settled(w, c)
    /\ UNCHANGED <<runTable, metrics, job, seen, agg, stop, faults>>

\* Search, generation, judging or the checkpoint itself failed transiently.
RetryItem(w, c) ==
    /\ pc[w] = "batch"
    /\ c \in batch[w]
    /\ fail_item(job[w], c, MaxRetries)
    /\ Settled(w, c)
    /\ UNCHANGED <<runTable, metrics, job, seen, agg, stop, faults>>

\* The case is gone from the dataset: a dead letter at once.
DropItem(w, c) ==
    /\ pc[w] = "batch"
    /\ c \in batch[w]
    /\ fail_item(job[w], c, 1)
    /\ Settled(w, c)
    /\ UNCHANGED <<runTable, metrics, job, seen, agg, stop, faults>>

\* A fatal model error: this item is dead and LlmAborted leaves the batch.
AbortItem(w, c) ==
    /\ pc[w] = "batch"
    /\ c \in batch[w]
    /\ fail_item(job[w], c, 1)
    /\ batch' = [batch EXCEPT ![w] = {}]
    /\ Goto(w, "abort")
    /\ UNCHANGED <<runTable, metrics, job, seen, agg, stop, faults>>

(***************************************************************************)
(* execute_job, after the batches.                                         *)
(***************************************************************************)

\* Nothing to claim: the loop ends.
LoopEnds(w) ==
    /\ pc[w] = "loop"
    /\ ~stop[w]
    /\ {} \in Claimable(w, job[w])
    /\ Goto(w, "exit")
    /\ UNCHANGED <<dbVars, job, local, stop, faults>>

\* Mutants: the job's status is not looked at; a paused job goes on to its metrics.
ReleaseJob_Unguarded(w) ==
    /\ pc[w] \in {"loop", "exit"}
    /\ stop[w]
    /\ jobStatus' = [jobStatus EXCEPT ![job[w]] = "pending"]
    /\ Rest(w)
    /\ UNCHANGED <<runStatus, error, itemTable, progress, fresh, metrics, faults>>
ReleaseJob_Reports(w) ==
    /\ pc[w] \in {"loop", "exit"}
    /\ stop[w]
    /\ jobStatus' = [jobStatus EXCEPT ![job[w]] = "pending"]
    /\ Goto(w, "metrics")
    /\ UNCHANGED <<runStatus, error, itemTable, progress, fresh, metrics, job, local, stop, faults>>

\* release_job, only while no item of the job runs; its failure is ignored.
ReleaseJob(w) ==
    /\ pc[w] \in {"loop", "exit"}
    /\ stop[w]
    /\ jobStatus' =
           IF /\ jobStatus[job[w]] = "running"
              /\ \A c \in Cases : item[job[w]][c] # "running"
           THEN [jobStatus EXCEPT ![job[w]] = "pending"]
           ELSE jobStatus
    /\ Rest(w)
    /\ UNCHANGED <<runStatus, error, itemTable, progress, fresh, metrics, faults>>

\* job_progress: counted in a transaction of its own.
ReadProgress(w) ==
    /\ pc[w] = "exit"
    /\ ~stop[w]
    /\ seen' = [seen EXCEPT ![w] = {item[job[w]][c] : c \in Cases}]
    /\ Goto(w, "finish")
    /\ UNCHANGED <<dbVars, job, batch, agg, stop, faults>>

\* Mutant: dead letters do not count.
Verdict_IgnoresFailed(w) ==
    IF seen[w] \cap Unfinished # {} /\ ~stop[w] THEN <<"failed", "inconsistent">>
    ELSE <<"succeeded", "none">>

\* Dead letters fail the job, and so do unfinished items, unless a stop was
\* requested after the loop.
Verdict(w) ==
    IF seen[w] \cap Unfinished # {} /\ ~stop[w] THEN <<"failed", "inconsistent">>
    ELSE IF "failed" \in seen[w] THEN <<"failed", "items">>
    ELSE <<"succeeded", "none">>

FinishJob(w) ==
    /\ pc[w] = "finish"
    /\ finish_job(job[w], Verdict(w)[1], Verdict(w)[2])
    /\ Goto(w, "metrics")
    /\ UNCHANGED <<itemTable, progress, fresh, metrics, job, local, stop, faults>>

\* After LlmAborted: release the rest of the batch, then fail the job.
AbortReleases(w) ==
    /\ pc[w] = "abort"
    /\ release_running_items(job[w])
    /\ Goto(w, "failing")
    /\ UNCHANGED <<runTable, metrics, job, local, stop, faults>>

AbortFinishes(w) ==
    /\ pc[w] = "failing"
    /\ finish_job(job[w], "failed", "llm")
    /\ Goto(w, "metrics")
    /\ UNCHANGED <<itemTable, progress, fresh, metrics, job, local, stop, faults>>

\* _aggregate_run_metrics reads every result of the run ...
AggregateMetrics(w) ==
    /\ pc[w] = "metrics"
    /\ agg' = [agg EXCEPT ![w] = results[job[w]]]
    /\ Goto(w, "write")
    /\ UNCHANGED <<dbVars, job, batch, seen, stop, faults>>

\* ... and update_run_metrics overwrites runs.metrics.
UpdateMetrics(w) ==
    /\ pc[w] = "write"
    /\ metrics' = [metrics EXCEPT ![job[w]] = agg[w]]
    /\ Rest(w)
    /\ UNCHANGED <<runTable, itemTable, progress, fresh, faults>>

(***************************************************************************)
(* Stale jobs.                                                             *)
(***************************************************************************)
\* Mutant: only a job with running items is taken over.
Reclaimable_WithItems(j) ==
    /\ jobStatus[j] = "running" /\ ~fresh[j]
    /\ \E c \in Cases : item[j][c] = "running"

Reclaimable(j) == jobStatus[j] = "running" /\ ~fresh[j]

\* reclaim_stale_jobs, for one of the jobs it selects: POST /jobs/reclaim,
\* worker --reclaim-once, or a polling worker.  The transaction ends with
\* PROGRESS_SQL, so the heartbeat is fresh again.
reclaim_stale_jobs(j) ==
    /\ Reclaimable(j)
    /\ item' = Released(j)
    /\ jobStatus' = [jobStatus EXCEPT ![j] = "pending"]
    /\ error' = [error EXCEPT ![j] = "reclaimed"]
    /\ PROGRESS_SQL(j)
    /\ UNCHANGED <<runStatus, retry, results, metrics, workerVars, faults>>

\* run_forever reclaims only after polls that found nothing to claim.
PollReclaims(w, j) ==
    /\ pc[w] = "idle"
    /\ \A i \in Jobs : jobStatus[i] # "pending"
    /\ reclaim_stale_jobs(j)

\* The stale timeout passes without a refresh.  Timely heartbeats are the
\* assumption that this takes a job nobody executes.
HeartbeatExpires(j) ==
    /\ jobStatus[j] = "running"
    /\ fresh[j]
    /\ TimelyHeartbeats => \A w \in Workers : ~Executes(w, j)
    /\ fresh' = [fresh EXCEPT ![j] = FALSE]
    /\ UNCHANGED <<runTable, itemTable, progress, metrics, workerVars, faults>>

\* An operator puts an abandoned job back with an UPDATE of jobs.status; its
\* running items stay as they are.
RequeueByHand(j) ==
    /\ HandRequeue
    /\ jobStatus[j] = "running"
    /\ \A w \in Workers : ~Executes(w, j)
    /\ jobStatus' = [jobStatus EXCEPT ![j] = "pending"]
    /\ UNCHANGED <<runStatus, error, itemTable, progress, fresh, metrics,
                   workerVars, faults>>

(***************************************************************************)
(* Crashes, stop signals, restarts.                                        *)
(***************************************************************************)

\* kill -9, or an exception no handler of run_forever catches.
Crash(w) ==
    /\ pc[w] # "down"
    /\ faults < MaxFaults
    /\ faults' = faults + 1
    /\ Goto(w, "down")
    /\ job' = [job EXCEPT ![w] = NoJob]
    /\ batch' = [batch EXCEPT ![w] = {}]
    /\ seen' = [seen EXCEPT ![w] = {}]
    /\ agg' = [agg EXCEPT ![w] = {}]
    /\ stop' = [stop EXCEPT ![w] = FALSE]
    /\ UNCHANGED dbVars

\* SIGTERM, SIGINT or --max-items reached.  An idle worker just ends, as in Crash.
RequestStop(w) ==
    /\ pc[w] \notin {"down", "idle"}
    /\ ~stop[w]
    /\ faults < MaxFaults
    /\ faults' = faults + 1
    /\ stop' = [stop EXCEPT ![w] = TRUE]
    /\ UNCHANGED <<dbVars, pc, job, local>>

Start(w) ==
    /\ pc[w] = "down"
    /\ Goto(w, "idle")
    /\ UNCHANGED <<dbVars, job, local, stop, faults>>
-----------------------------------------------------------------------------
ItemStep(w) ==
    \E c \in Cases :
        CompleteItem(w, c) \/ RetryItem(w, c) \/ DropItem(w, c) \/ AbortItem(w, c)

\* What the program of w does by itself.
ExecuteJob(w) ==
    \/ RejectConfig(w) \/ ResumeItems(w) \/ IndexReady(w) \/ IndexFails(w)
    \/ ClaimItems(w) \/ Heartbeat(w) \/ ItemStep(w)
    \/ LoopEnds(w) \/ ReleaseJob(w) \/ ReadProgress(w) \/ FinishJob(w)
    \/ AbortReleases(w) \/ AbortFinishes(w)
    \/ AggregateMetrics(w) \/ UpdateMetrics(w)

Work(w) == ClaimNextJob(w) \/ ExecuteJob(w)

Environment ==
    \/ \E j \in Jobs : \/ CreateRunWithJob(j) \/ reclaim_stale_jobs(j)
                       \/ HeartbeatExpires(j) \/ RequeueByHand(j)
    \/ \E w \in Workers : Crash(w) \/ RequestStop(w) \/ Start(w)

Next ==
    \/ \E w \in Workers : Work(w)
    \/ \E w \in Workers, j \in Jobs : ClaimJobById(w, j) \/ PollReclaims(w, j)
    \/ Environment

Spec == Init /\ [][Next]_vars

\* The heartbeat of a job nobody executes expires.
AbandonedExpires(j) ==
    /\ \A w \in Workers : ~Executes(w, j)
    /\ HeartbeatExpires(j)

\* Workers run, poll, reclaim and are restarted; time passes.
Fairness ==
    /\ \A w \in Workers : WF_vars(Work(w)) /\ WF_vars(Start(w))
    /\ \A w \in Workers, j \in Jobs : WF_vars(PollReclaims(w, j))
    /\ \A j \in Jobs : WF_vars(AbandonedExpires(j))

FairSpec == Spec /\ Fairness
-----------------------------------------------------------------------------
(***************************************************************************)
(* What holds however late heartbeats are.                                 *)
(***************************************************************************)

\* A run is terminal exactly when its job is, with the same status, and it is
\* shown as running whenever its job runs.
RunFollowsJob ==
    \A j \in Jobs :
        /\ Terminal(j) \/ runStatus[j] \in Finished => runStatus[j] = jobStatus[j]
        /\ jobStatus[j] = "running" => runStatus[j] = "running"

\* An item that may still be executed has failed fewer than MaxRetries times,
\* and no item ever fails more than MaxRetries times, but for the other workers
\* that still hold it when it becomes a dead letter: each of them may fail it
\* once more.  These are the failures fail_item records: an attempt that ends
\* in a crash of its worker is in no counter, and nothing bounds those.
FailuresBounded ==
    \A j \in Jobs, c \in Cases :
        /\ item[j][c] \in Unfinished => retry[j][c] < MaxRetries
        /\ retry[j][c] <= MaxRetries + Cardinality(Workers) - 1

\* An item reported as succeeded has its result stored (the checkpoint is one
\* transaction).
SucceededHasResult ==
    \A j \in Jobs, c \in Cases : item[j][c] = "succeeded" => c \in results[j]

\* A finished job is never queued again, by a reclaim, a release or a claim
\* that was under way when it finished.
FinishedJobStaysFinished ==
    [][\A j \in Jobs : Terminal(j) => Terminal(j)']_vars

(***************************************************************************)
(* What holds as long as heartbeats are timely.                            *)
(***************************************************************************)

\* A job is executed by one worker at a time (docs/fault-drills.md, D12).
OneExecutor ==
    \A v, w \in Workers, j \in Jobs : Executes(v, j) /\ Executes(w, j) => v = w

\* A job in execution is not put back in the queue (queue.py, reclaim_stale_jobs).
LiveJobNotReclaimed ==
    \A w \in Workers : pc[w] \in Executing => jobStatus[job[w]] = "running"

\* A case with a stored result is not executed again (queue.py, header).
NoRework ==
    \A w \in Workers : \A c \in batch[w] : c \notin results[job[w]]

\* A stored result belongs to an item that succeeded and stays so.
ResultOnlySucceeded ==
    \A j \in Jobs : \A c \in results[j] : item[j][c] = "succeeded"

\* A run reported as succeeded has executed every case of the dataset.
SucceededRunComplete ==
    \A j \in Jobs : runStatus[j] = "succeeded" =>
        /\ \A c \in Cases : item[j][c] = "succeeded"
        /\ results[j] = Cases

\* execute_job never meets the inconsistent queue its last check guards against.
FallbackUnreached == \A j \in Jobs : error[j] # "inconsistent"

\* A finished job leaves no item in running, where no reclaim would find it.
NoOrphans ==
    \A j \in Jobs : Terminal(j) => \A c \in Cases : item[j][c] # "running"

\* The one way to orphans: a job put back by hand whose configuration is now
\* rejected before its items are released.
OrphansOnlyByConfig ==
    \A j \in Jobs : Terminal(j) /\ error[j] # "config"
                        => \A c \in Cases : item[j][c] # "running"

\* jobs.progress may lag in which items are pending or running, never in which
\* are finished.  (With two workers on one job, its recomputation races.)
FinishedCountsExact ==
    \A j \in Jobs, c \in Cases, s \in Finished : progress[j][c] = s <=> item[j][c] = s

\* The metrics of a run were aggregated from all the results it has.
MetricsCoverResults ==
    \A j \in Jobs : metrics[j] # NoMetrics => metrics[j] = results[j]

\* The promise of an evaluation run, read off the tables.
Outcome(status) ==
    CASE status = "succeeded" -> "done"
      [] status = "failed" -> "dead"
      [] OTHER -> "open"

outcomes == [j \in Jobs |-> [c \in Cases |-> Outcome(item[j][c])]]
verdicts == [j \in Jobs |-> IF runStatus[j] \in Finished THEN runStatus[j] ELSE "none"]

Promise == INSTANCE Evaluation WITH outcome <- outcomes, verdict <- verdicts

\* Every step of the queue settles one case, concludes one run, or changes
\* nothing a reader of the run relies on.
KeepsPromise == Promise!Spec

(***************************************************************************)
(* Liveness.                                                               *)
(***************************************************************************)

\* Every submitted job ends, whatever crashes and stops come in between.
SubmittedJobEnds ==
    \A j \in Jobs : jobStatus[j] = "pending" ~> Terminal(j)
=============================================================================
