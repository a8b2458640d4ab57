---------------------------- MODULE EvalQueueInv ----------------------------
(***************************************************************************)
(* The inductive invariants behind the theorems of EvalQueueProofs: what   *)
(* every step of EvalQueue keeps, whatever the heartbeats (LateInv) and    *)
(* with timely ones (TimelyInv).                                           *)
(***************************************************************************)
EXTENDS EvalQueue

\* The run shows the status of its job, but stays running while the job waits
\* to be claimed again.
RunTracksJob ==
    \A j \in Jobs : \/ runStatus[j] = jobStatus[j]
                    \/ jobStatus[j] = "pending" /\ runStatus[j] = "running"

\* Items exist from the submission on, and workers hold submitted jobs only.
ItemsOfSubmitted ==
    \A j \in Jobs, c \in Cases : jobStatus[j] = "none" <=> item[j][c] = "none"

JobsHeldAreSubmitted ==
    \A w \in Workers : job[w] # NoJob => jobStatus[job[w]] # "none"

\* Any item that can still be attempted has attempts left, unsubmitted ones too.
AttemptsLeft ==
    \A j \in Jobs, c \in Cases : item[j][c] \notin Finished => retry[j][c] < MaxRetries

\* Batches are held inside the batch loop only ...
BatchInLoop ==
    \A w \in Workers : batch[w] # {} => pc[w] \in {"beat", "batch"}

\* ... and an item without attempts left can fail only in the workers that
\* still hold it, of which one has already recorded its failure.
Holders(j, c) == {w \in Workers : job[w] = j /\ c \in batch[w]}

FailuresLeft ==
    \A j \in Jobs, c \in Cases :
        \/ retry[j][c] < MaxRetries
        \/ retry[j][c] + Cardinality(Holders(j, c)) <= MaxRetries + Cardinality(Workers) - 1

\* Whatever the heartbeats do, these six and the stored checkpoint are kept.
LateInv ==
    /\ TypeOK
    /\ RunTracksJob
    /\ ItemsOfSubmitted
    /\ JobsHeldAreSubmitted
    /\ AttemptsLeft
    /\ BatchInLoop
    /\ FailuresLeft
    /\ SucceededHasResult
-----------------------------------------------------------------------------
\* A job in execution runs and cannot be reclaimed.
ExecutedIsLive ==
    \A w \in Workers :
        pc[w] \in Executing => jobStatus[job[w]] = "running" /\ fresh[job[w]]

\* The items of a batch run; outside the batch loop there are none ...
BatchRuns ==
    \A w \in Workers : \A c \in batch[w] :
        pc[w] \in {"beat", "batch"} /\ item[job[w]][c] = "running"

\* ... and once a worker has released what it found running, nothing else of
\* its job runs.
RunningIsHeld ==
    \A w \in Workers :
        pc[w] \in Executing \ {"claimed", "abort"} =>
            \A c \in Cases : item[job[w]][c] = "running" => c \in batch[w]

\* After the loop every item is finished, and job_progress has seen them so.
LoopLeavesAllFinished ==
    \A w \in Workers : pc[w] \in {"exit", "finish"} =>
        \A c \in Cases : item[job[w]][c] \in Finished

SeenIsCurrent ==
    \A w \in Workers :
        pc[w] = "finish" => seen[w] = {item[job[w]][c] : c \in Cases}

\* Metrics are aggregated and stored after the job has finished, from results
\* that no longer change.
ReportsFinishedJob ==
    \A w \in Workers :
        /\ pc[w] \in {"metrics", "write"} => Terminal(job[w])
        /\ pc[w] = "write" => agg[w] = results[job[w]]

MetricsOfFinished ==
    \A j \in Jobs : metrics[j] # NoMetrics => Terminal(j) /\ metrics[j] = results[j]

\* A job that succeeded has only succeeded items.
SucceededJobComplete ==
    \A j \in Jobs : jobStatus[j] = "succeeded" => \A c \in Cases : item[j][c] = "succeeded"

TimelyInv ==
    /\ LateInv
    /\ ExecutedIsLive
    /\ OneExecutor
    /\ BatchRuns
    /\ RunningIsHeld
    /\ LoopLeavesAllFinished
    /\ SeenIsCurrent
    /\ ResultOnlySucceeded
    /\ SucceededJobComplete
    /\ FallbackUnreached
    /\ OrphansOnlyByConfig
    /\ ReportsFinishedJob
    /\ MetricsOfFinished
=============================================================================
