-------------------------- MODULE EvalQueueProofs --------------------------
(***************************************************************************)
(* Theorems about EvalQueue for every number of workers, jobs and cases    *)
(* and every retry limit, batch size and fault bound.                      *)
(***************************************************************************)
EXTENDS EvalQueueInv, FiniteSetTheorems, TLAPS

USE DEF Terminal, Finished, Unfinished

-----------------------------------------------------------------------------
(***************************************************************************)
(* The transactions on items keep the types of the tables.                 *)
(***************************************************************************)
ItemTypes ==
    /\ item \in [Jobs -> [Cases -> Status]]
    /\ retry \in [Jobs -> [Cases -> Nat]]
    /\ results \in [Jobs -> SUBSET Cases]
    /\ progress \in [Jobs -> [Cases -> Status]]
    /\ fresh \in [Jobs -> BOOLEAN]

\* The status of one item.
LEMMA ItemStatus ==
    ASSUME TypeOK, NEW j \in Jobs, NEW c \in Cases PROVE item[j][c] \in Status
BY DEF TypeOK

\* Releasing running items only writes statuses.
LEMMA ReleasedType ==
    ASSUME TypeOK, NEW j \in Jobs PROVE Released(j) \in [Jobs -> [Cases -> Status]]
BY DEF TypeOK, Released, Status

\* PROGRESS_SQL keeps the types of jobs.progress and of the heartbeat.
LEMMA ProgressTypes ==
    ASSUME TypeOK, NEW j \in Jobs, PROGRESS_SQL(j),
           item' \in [Jobs -> [Cases -> Status]]
    PROVE  /\ progress' \in [Jobs -> [Cases -> Status]]
           /\ fresh' \in [Jobs -> BOOLEAN]
BY DEF TypeOK, PROGRESS_SQL

\* release_running_items keeps the types of the tables.
LEMMA ReleaseTypes ==
    ASSUME TypeOK, NEW j \in Jobs, release_running_items(j) PROVE ItemTypes'
<1>1. item' \in [Jobs -> [Cases -> Status]]
  BY ReleasedType DEF release_running_items
<1> QED
  BY <1>1, ProgressTypes DEF release_running_items, ItemTypes, TypeOK

\* complete_item keeps the types of the tables.
LEMMA CompleteTypes ==
    ASSUME TypeOK, NEW j \in Jobs, NEW c \in Cases, complete_item(j, c)
    PROVE  ItemTypes'
<1>1. /\ item' \in [Jobs -> [Cases -> Status]]
      /\ results' \in [Jobs -> SUBSET Cases]
  BY DEF TypeOK, complete_item, Status
<1> QED
  BY <1>1, ProgressTypes DEF complete_item, ItemTypes, TypeOK

\* fail_item keeps the types of the tables, whatever the limit.
LEMMA FailTypes ==
    ASSUME TypeOK, NEW j \in Jobs, NEW c \in Cases, NEW limit, fail_item(j, c, limit)
    PROVE  ItemTypes'
<1>1. /\ item' \in [Jobs -> [Cases -> Status]]
      /\ retry' \in [Jobs -> [Cases -> Nat]]
  BY DEF TypeOK, fail_item, Status
<1> QED
  BY <1>1, ProgressTypes DEF fail_item, ItemTypes, TypeOK

\* Every action keeps the types of all variables.
LEMMA StepTypes ==
    ASSUME TypeOK, QueueAssumption, [Next]_vars PROVE TypeOK'
<1> USE DEF Status, Causes, Executing, Locations, Goto, vars, dbVars, workerVars,
            runTable, itemTable, local
<1>1. ASSUME NEW j \in Jobs, CreateRunWithJob(j) PROVE TypeOK'
  BY <1>1 DEF TypeOK, CreateRunWithJob
<1>2. ASSUME NEW w \in Workers, NEW j \in Jobs, claim_job(w, j) PROVE TypeOK'
  BY <1>2, QueueAssumption DEF TypeOK, claim_job, QueueAssumption
<1>3. ASSUME NEW w \in Workers, RejectConfig(w) \/ IndexFails(w) PROVE TypeOK'
  <2>1. CASE RejectConfig(w)
    BY <2>1, QueueAssumption DEF TypeOK, RejectConfig, finish_job, Rest, QueueAssumption
  <2>2. CASE IndexFails(w)
    BY <2>2, QueueAssumption DEF TypeOK, IndexFails, finish_job, Rest, QueueAssumption
  <2> QED
    BY <1>3, <2>1, <2>2
<1>4. ASSUME NEW w \in Workers, ResumeItems(w) \/ AbortReleases(w) PROVE TypeOK'
  <2>1. job[w] \in Jobs
    BY <1>4 DEF TypeOK, ResumeItems, AbortReleases
  <2>2. ItemTypes'
    BY <1>4, <2>1, ReleaseTypes DEF ResumeItems, AbortReleases
  <2> QED
    BY <1>4, <2>2 DEF TypeOK, ItemTypes, ResumeItems, AbortReleases
<1>5. ASSUME NEW w \in Workers, IndexReady(w) \/ LoopEnds(w) PROVE TypeOK'
  BY <1>5 DEF TypeOK, IndexReady, LoopEnds
<1>6. ASSUME NEW w \in Workers, ClaimItems(w) PROVE TypeOK'
  <2>1. job[w] \in Jobs
    BY <1>6 DEF TypeOK, ClaimItems
  <2>2. PICK S \in SUBSET Cases :
            /\ item' = [item EXCEPT ![job[w]] =
                           [c \in Cases |-> IF c \in S THEN "running" ELSE @[c]]]
            /\ batch' = [batch EXCEPT ![w] = S]
    BY <1>6 DEF ClaimItems, Claimable, Pending
  <2>3. /\ item' \in [Jobs -> [Cases -> Status]]
        /\ batch' \in [Workers -> SUBSET Cases]
    BY <2>1, <2>2 DEF TypeOK
  <2> QED
    BY <1>6, <2>3 DEF TypeOK, ClaimItems
<1>7. ASSUME NEW w \in Workers, Heartbeat(w) PROVE TypeOK'
  BY <1>7 DEF TypeOK, Heartbeat
<1>8. ASSUME NEW w \in Workers, NEW c \in Cases, CompleteItem(w, c) PROVE TypeOK'
  <2>1. job[w] \in Jobs
    BY <1>8 DEF TypeOK, CompleteItem
  <2>2. ItemTypes'
    BY <1>8, <2>1, CompleteTypes DEF CompleteItem
  <2> QED
    BY <1>8, <2>2 DEF TypeOK, ItemTypes, CompleteItem, Settled
<1>9. ASSUME NEW w \in Workers, NEW c \in Cases,
             RetryItem(w, c) \/ DropItem(w, c) \/ AbortItem(w, c)
      PROVE  TypeOK'
  <2>1. job[w] \in Jobs
    BY <1>9 DEF TypeOK, RetryItem, DropItem, AbortItem
  <2>2. ItemTypes'
    BY <1>9, <2>1, FailTypes DEF RetryItem, DropItem, AbortItem
  <2> QED
    BY <1>9, <2>2 DEF TypeOK, ItemTypes, RetryItem, DropItem, AbortItem, Settled
<1>10. ASSUME NEW w \in Workers, ReleaseJob(w) PROVE TypeOK'
  BY <1>10, QueueAssumption DEF TypeOK, ReleaseJob, Rest, QueueAssumption
<1>11. ASSUME NEW w \in Workers, ReadProgress(w) PROVE TypeOK'
  <2>1. job[w] \in Jobs
    BY <1>11 DEF TypeOK, ReadProgress
  <2>2. \A c \in Cases : item[job[w]][c] \in Status
    BY <2>1, ItemStatus
  <2>3. seen' \in [Workers -> SUBSET Status]
    BY <1>11, <2>2 DEF TypeOK, ReadProgress
  <2> QED
    BY <1>11, <2>3 DEF TypeOK, ReadProgress
<1>12. ASSUME NEW w \in Workers, FinishJob(w) PROVE TypeOK'
  BY <1>12 DEF TypeOK, FinishJob, finish_job, Verdict
<1>13. ASSUME NEW w \in Workers, AbortFinishes(w) PROVE TypeOK'
  BY <1>13 DEF TypeOK, AbortFinishes, finish_job
<1>14. ASSUME NEW w \in Workers, AggregateMetrics(w) PROVE TypeOK'
  BY <1>14 DEF TypeOK, AggregateMetrics
<1>15. ASSUME NEW w \in Workers, UpdateMetrics(w) PROVE TypeOK'
  BY <1>15, QueueAssumption DEF TypeOK, UpdateMetrics, Rest, QueueAssumption
<1>16. ASSUME NEW j \in Jobs, reclaim_stale_jobs(j) PROVE TypeOK'
  <2>1. item' \in [Jobs -> [Cases -> Status]]
    BY <1>16, ReleasedType DEF reclaim_stale_jobs
  <2>2. /\ progress' \in [Jobs -> [Cases -> Status]]
        /\ fresh' \in [Jobs -> BOOLEAN]
    BY <1>16, <2>1, ProgressTypes DEF reclaim_stale_jobs
  <2> QED
    BY <1>16, <2>1, <2>2 DEF TypeOK, reclaim_stale_jobs
<1>17. ASSUME NEW j \in Jobs, HeartbeatExpires(j) \/ RequeueByHand(j) PROVE TypeOK'
  <2>1. CASE HeartbeatExpires(j)
    BY <2>1 DEF TypeOK, HeartbeatExpires
  <2>2. CASE RequeueByHand(j)
    BY <2>2 DEF TypeOK, RequeueByHand
  <2> QED
    BY <1>17, <2>1, <2>2
<1>18. ASSUME NEW w \in Workers, Crash(w) \/ RequestStop(w) \/ Start(w) PROVE TypeOK'
  <2>1. CASE Crash(w)
    BY <2>1, QueueAssumption DEF TypeOK, Crash, QueueAssumption
  <2>2. CASE RequestStop(w)
    BY <2>2, QueueAssumption DEF TypeOK, RequestStop, QueueAssumption
  <2>3. CASE Start(w)
    BY <2>3 DEF TypeOK, Start
  <2> QED
    BY <1>18, <2>1, <2>2, <2>3
<1>19. CASE UNCHANGED vars
  BY <1>19 DEF TypeOK
<1> QED
  BY <1>1, <1>2, <1>3, <1>4, <1>5, <1>6, <1>7, <1>8, <1>9, <1>10, <1>11, <1>12,
     <1>13, <1>14, <1>15, <1>16, <1>17, <1>18, <1>19
  DEF Next, Work, ExecuteJob, ItemStep, Environment, ClaimNextJob, ClaimJobById, PollReclaims

\* Spec => []TypeOK: the type invariant holds for every instance.
THEOREM TypeCorrect == ASSUME QueueAssumption PROVE Spec => []TypeOK
<1>1. Init => TypeOK
  BY QueueAssumption DEF Init, TypeOK, QueueAssumption, Status, Causes, Locations
<1>2. TypeOK /\ [Next]_vars => TypeOK'
  BY StepTypes, QueueAssumption
<1> QED
  BY <1>1, <1>2, PTL DEF Spec

-----------------------------------------------------------------------------
(***************************************************************************)
(* What a step can do to one job and to one item.                          *)
(***************************************************************************)
JobStep(j) ==
    \/ jobStatus'[j] = jobStatus[j] /\ runStatus'[j] = runStatus[j]
    \/ /\ jobStatus[j] = "none" /\ jobStatus'[j] = "pending"
       /\ runStatus'[j] = "pending"
       /\ \A c \in Cases : item'[j][c] = "pending"
    \/ /\ jobStatus[j] = "pending" /\ jobStatus'[j] = "running"
       /\ runStatus'[j] = IF runStatus[j] \in Unfinished THEN "running" ELSE runStatus[j]
    \/ /\ jobStatus[j] = "running" /\ jobStatus'[j] = "pending"
       /\ runStatus'[j] = runStatus[j]
    \/ /\ \E w \in Workers : job[w] = j
       /\ jobStatus'[j] \in Finished
       /\ runStatus'[j] = jobStatus'[j]

SameCell(j, c) ==
    /\ item'[j][c] = item[j][c]
    /\ retry'[j][c] = retry[j][c]
    /\ c \in results'[j] <=> c \in results[j]

CellStep(j, c) ==
    \/ SameCell(j, c)
    \/ /\ retry'[j][c] = retry[j][c]
       /\ c \in results'[j] <=> c \in results[j]
       /\ \/ jobStatus[j] = "none" /\ jobStatus'[j] = "pending" /\ item'[j][c] = "pending"
          \/ item[j][c] = "running" /\ item'[j][c] = "pending"
          \/ item[j][c] = "pending" /\ item'[j][c] = "running"
    \/ /\ item'[j][c] = "succeeded"
       /\ c \in results'[j]
       /\ \E w \in Workers : job[w] = j /\ c \in batch[w]
    \/ /\ retry'[j][c] = retry[j][c] + 1
       /\ item'[j][c] = "failed" \/ (retry'[j][c] < MaxRetries /\ item'[j][c] = "pending")
       /\ c \in results'[j] <=> c \in results[j]
       /\ \E w \in Workers : job[w] = j /\ c \in batch[w]

\* A job only moves along the transitions of JobStep.
LEMMA JobSteps ==
    ASSUME TypeOK, [Next]_vars, NEW j \in Jobs PROVE JobStep(j)
<1> USE DEF JobStep, vars, dbVars, workerVars, runTable, itemTable, local
<1>1. ASSUME NEW i \in Jobs, CreateRunWithJob(i) PROVE JobStep(j)
  BY <1>1 DEF TypeOK, CreateRunWithJob
<1>2. ASSUME NEW w \in Workers, NEW i \in Jobs, claim_job(w, i) PROVE JobStep(j)
  BY <1>2 DEF TypeOK, claim_job
<1>3. ASSUME NEW w \in Workers,
             RejectConfig(w) \/ IndexFails(w) \/ FinishJob(w) \/ AbortFinishes(w)
      PROVE  JobStep(j)
  <2>1. PICK s \in Finished, cause \in Causes : finish_job(job[w], s, cause)
    BY <1>3 DEF RejectConfig, IndexFails, FinishJob, AbortFinishes, Verdict, Causes
  <2> QED
    BY <2>1 DEF TypeOK, finish_job
<1>4. ASSUME NEW w \in Workers, ReleaseJob(w) PROVE JobStep(j)
  BY <1>4 DEF TypeOK, ReleaseJob
<1>5. ASSUME NEW i \in Jobs, reclaim_stale_jobs(i) \/ RequeueByHand(i) PROVE JobStep(j)
  BY <1>5 DEF TypeOK, reclaim_stale_jobs, Reclaimable, RequeueByHand
<1>6. CASE UNCHANGED <<jobStatus, runStatus>>
  BY <1>6
<1> QED
  BY <1>1, <1>2, <1>3, <1>4, <1>5, <1>6
  DEF Next, Work, ExecuteJob, ItemStep, Environment, ClaimNextJob, ClaimJobById, PollReclaims,
      ResumeItems, IndexReady, ClaimItems, Heartbeat, CompleteItem, RetryItem, DropItem,
      AbortItem, LoopEnds, ReadProgress, AbortReleases, AggregateMetrics, UpdateMetrics,
      HeartbeatExpires, Crash, RequestStop, Start

\* An item only moves along the transitions of CellStep.
LEMMA CellSteps ==
    ASSUME TypeOK, QueueAssumption, [Next]_vars, NEW j \in Jobs, NEW c \in Cases
    PROVE  CellStep(j, c)
<1> USE DEF CellStep, SameCell, vars, dbVars, workerVars, runTable, itemTable, local
<1>1. ASSUME NEW i \in Jobs, CreateRunWithJob(i) PROVE CellStep(j, c)
  BY <1>1 DEF TypeOK, CreateRunWithJob
<1>2. ASSUME NEW i \in Jobs, item' = Released(i), UNCHANGED <<retry, results>>
      PROVE  CellStep(j, c)
  BY <1>2 DEF TypeOK, Released
<1>3. ASSUME NEW w \in Workers, ClaimItems(w) PROVE CellStep(j, c)
  <2>1. PICK S \in SUBSET Pending(job[w]) :
            item' = [item EXCEPT ![job[w]] =
                        [d \in Cases |-> IF d \in S THEN "running" ELSE @[d]]]
    BY <1>3 DEF ClaimItems, Claimable
  <2> QED
    BY <1>3, <2>1 DEF TypeOK, ClaimItems, Pending
<1>4. ASSUME NEW w \in Workers, NEW d \in Cases, CompleteItem(w, d) PROVE CellStep(j, c)
  <2>1. d \in batch[w] /\ complete_item(job[w], d)
    BY <1>4 DEF CompleteItem
  <2>2. CASE job[w] = j /\ d = c
    BY <2>1, <2>2 DEF TypeOK, complete_item
  <2>3. CASE ~(job[w] = j /\ d = c)
    BY <2>1, <2>3 DEF TypeOK, complete_item
  <2> QED
    BY <2>2, <2>3
<1>5. ASSUME NEW w \in Workers, NEW d \in Cases,
             RetryItem(w, d) \/ DropItem(w, d) \/ AbortItem(w, d)
      PROVE  CellStep(j, c)
  <2>1. PICK limit \in {MaxRetries, 1} : fail_item(job[w], d, limit)
    BY <1>5 DEF RetryItem, DropItem, AbortItem
  <2>2. d \in batch[w]
    BY <1>5 DEF RetryItem, DropItem, AbortItem
  <2>3. CASE job[w] = j /\ d = c
    BY <2>1, <2>2, <2>3, QueueAssumption DEF TypeOK, fail_item, QueueAssumption
  <2>4. CASE ~(job[w] = j /\ d = c)
    BY <2>1, <2>4 DEF TypeOK, fail_item
  <2> QED
    BY <2>3, <2>4
<1>6. ASSUME NEW w \in Workers, ResumeItems(w) \/ AbortReleases(w) PROVE CellStep(j, c)
  BY <1>6, <1>2 DEF TypeOK, ResumeItems, AbortReleases, release_running_items
<1>7. CASE UNCHANGED <<item, retry, results>>
  BY <1>7
<1> QED
  BY <1>1, <1>2, <1>3, <1>4, <1>5, <1>6, <1>7
  DEF Next, Work, ExecuteJob, ItemStep, Environment, ClaimNextJob, ClaimJobById, PollReclaims,
      claim_job, RejectConfig, IndexReady, IndexFails, Heartbeat, LoopEnds,
      ReleaseJob, ReadProgress, FinishJob, AbortFinishes, AggregateMetrics,
      UpdateMetrics, reclaim_stale_jobs, HeartbeatExpires,
      RequeueByHand, Crash, RequestStop, Start

\* A worker keeps its job, drops it, or has just claimed it.
LEMMA JobHeldSteps ==
    ASSUME TypeOK, [Next]_vars, NEW w \in Workers, job'[w] # NoJob
    PROVE  job'[w] = job[w] \/ (job'[w] \in Jobs /\ jobStatus'[job'[w]] = "running")
<1> USE DEF vars, dbVars, workerVars, runTable, itemTable, local
<1>1. ASSUME NEW v \in Workers, NEW j \in Jobs, claim_job(v, j), job'[w] # job[w]
      PROVE  job'[w] \in Jobs /\ jobStatus'[job'[w]] = "running"
  BY <1>1 DEF TypeOK, claim_job
<1>2. ASSUME NEW v \in Workers,
             \/ RejectConfig(v) \/ IndexFails(v) \/ ReleaseJob(v) \/ UpdateMetrics(v) \/ Crash(v)
      PROVE  job'[w] = job[w]
  BY <1>2 DEF TypeOK, RejectConfig, IndexFails, ReleaseJob, UpdateMetrics, Crash, Rest
<1>3. CASE UNCHANGED job
  BY <1>3
<1> QED
  BY <1>1, <1>2, <1>3
  DEF Next, Work, ExecuteJob, ItemStep, Environment, ClaimNextJob, ClaimJobById, PollReclaims,
      CreateRunWithJob, ResumeItems, IndexReady, ClaimItems, Heartbeat, CompleteItem,
      RetryItem, DropItem, AbortItem, LoopEnds, ReadProgress, FinishJob, AbortReleases,
      AbortFinishes, AggregateMetrics, reclaim_stale_jobs, HeartbeatExpires, RequeueByHand,
      RequestStop, Start

\* Who holds an item changes only when it is claimed while pending, when one of
\* its holders fails it and lets it go, and when holders leave.
HolderStep(j, c) ==
    \/ /\ Holders(j, c)' \subseteq Holders(j, c)
       /\ retry'[j][c] = retry[j][c]
    \/ \E w \in Holders(j, c) :
          /\ Holders(j, c)' \subseteq Holders(j, c) \ {w}
          /\ retry'[j][c] = retry[j][c] + 1
    \/ /\ item[j][c] = "pending"
       /\ retry'[j][c] = retry[j][c]

\* Batches appear at the claim and are gone when the loop goes on.
LEMMA BatchSteps ==
    ASSUME TypeOK, BatchInLoop, [Next]_vars PROVE BatchInLoop'
<1> USE DEF BatchInLoop, Goto, vars, dbVars, workerVars, runTable, itemTable, local
<1>1. ASSUME NEW w \in Workers, ClaimItems(w) \/ Heartbeat(w) PROVE BatchInLoop'
  BY <1>1 DEF TypeOK, ClaimItems, Heartbeat
<1>2. ASSUME NEW w \in Workers, NEW c \in Cases,
             CompleteItem(w, c) \/ RetryItem(w, c) \/ DropItem(w, c)
      PROVE  BatchInLoop'
  BY <1>2 DEF TypeOK, CompleteItem, RetryItem, DropItem, Settled
<1>3. ASSUME NEW w \in Workers, NEW c \in Cases, AbortItem(w, c) PROVE BatchInLoop'
  BY <1>3 DEF TypeOK, AbortItem
<1>4. ASSUME NEW w \in Workers, NEW j \in Jobs, claim_job(w, j) PROVE BatchInLoop'
  BY <1>4 DEF TypeOK, claim_job
<1>5. ASSUME NEW w \in Workers,
             \/ RejectConfig(w) \/ ResumeItems(w) \/ IndexReady(w) \/ IndexFails(w)
             \/ LoopEnds(w) \/ ReleaseJob(w) \/ ReadProgress(w) \/ FinishJob(w)
             \/ AbortReleases(w) \/ AbortFinishes(w) \/ AggregateMetrics(w)
             \/ UpdateMetrics(w) \/ Start(w) \/ Crash(w)
      PROVE  BatchInLoop'
  <2>1. batch' = [batch EXCEPT ![w] = {}] \/ (pc[w] \notin {"beat", "batch"} /\ batch' = batch)
    BY <1>5 DEF RejectConfig, ResumeItems, IndexReady, IndexFails, LoopEnds, ReleaseJob,
                ReadProgress, FinishJob, AbortReleases, AbortFinishes, AggregateMetrics,
                UpdateMetrics, Start, Crash, Rest
  <2>2. \A v \in Workers : v # w => pc'[v] = pc[v]
    BY <1>5 DEF TypeOK, RejectConfig, ResumeItems, IndexReady, IndexFails, LoopEnds, ReleaseJob,
                ReadProgress, FinishJob, AbortReleases, AbortFinishes, AggregateMetrics,
                UpdateMetrics, Start, Crash, Rest
  <2> QED
    BY <2>1, <2>2 DEF TypeOK
<1>6. CASE UNCHANGED <<pc, batch>>
  BY <1>6
<1> QED
  BY <1>1, <1>2, <1>3, <1>4, <1>5, <1>6
  DEF Next, Work, ExecuteJob, ItemStep, Environment, ClaimNextJob, ClaimJobById, PollReclaims,
      CreateRunWithJob, reclaim_stale_jobs, HeartbeatExpires, RequeueByHand, RequestStop

\* An item only changes hands along the transitions of HolderStep.
LEMMA HolderSteps ==
    ASSUME TypeOK, BatchInLoop, [Next]_vars, NEW j \in Jobs, NEW c \in Cases
    PROVE  HolderStep(j, c)
<1> USE DEF HolderStep, Holders, BatchInLoop, vars, dbVars, workerVars, runTable, itemTable, local
<1>1. ASSUME NEW w \in Workers, ClaimItems(w) PROVE HolderStep(j, c)
  <2>1. PICK S \in SUBSET Pending(job[w]) : batch' = [batch EXCEPT ![w] = S]
    BY <1>1 DEF ClaimItems, Claimable
  <2>2. CASE job[w] = j /\ c \in S
    BY <1>1, <2>2 DEF ClaimItems, Pending
  <2>3. CASE ~(job[w] = j /\ c \in S)
    BY <1>1, <2>1, <2>3 DEF TypeOK, ClaimItems
  <2> QED
    BY <2>2, <2>3
<1>2. ASSUME NEW w \in Workers, NEW d \in Cases, CompleteItem(w, d) PROVE HolderStep(j, c)
  BY <1>2 DEF TypeOK, CompleteItem, Settled, complete_item
<1>3. ASSUME NEW w \in Workers, NEW d \in Cases,
             RetryItem(w, d) \/ DropItem(w, d) \/ AbortItem(w, d)
      PROVE  HolderStep(j, c)
  <2>1. /\ d \in batch[w] /\ job' = job
        /\ batch' = [batch EXCEPT ![w] = @ \ {d}] \/ batch' = [batch EXCEPT ![w] = {}]
        /\ retry' = [retry EXCEPT ![job[w]][d] = @ + 1]
    BY <1>3 DEF RetryItem, DropItem, AbortItem, Settled, fail_item
  <2>2. CASE job[w] = j /\ d = c
    <3>1. w \in Holders(j, c) /\ Holders(j, c)' \subseteq Holders(j, c) \ {w}
      BY <2>1, <2>2 DEF TypeOK
    <3>2. retry'[j][c] = retry[j][c] + 1
      BY <2>1, <2>2 DEF TypeOK
    <3> QED
      BY <3>1, <3>2
  <2>3. CASE ~(job[w] = j /\ d = c)
    <3>1. \A v \in Workers : batch'[v] \subseteq batch[v]
      BY <2>1 DEF TypeOK
    <3>2. retry'[j][c] = retry[j][c]
      BY <2>1, <2>3 DEF TypeOK
    <3> QED
      BY <2>1, <3>1, <3>2
  <2> QED
    BY <2>2, <2>3
<1>4. ASSUME NEW w \in Workers, NEW i \in Jobs, claim_job(w, i) PROVE HolderStep(j, c)
  BY <1>4 DEF TypeOK, claim_job
<1>5. ASSUME NEW w \in Workers,
             \/ RejectConfig(w) \/ IndexFails(w) \/ ReleaseJob(w) \/ UpdateMetrics(w)
             \/ Crash(w)
      PROVE  HolderStep(j, c)
  <2>1. /\ job' = [job EXCEPT ![w] = NoJob]
        /\ batch' = [batch EXCEPT ![w] = {}] \/ (pc[w] \notin {"beat", "batch"} /\ batch' = batch)
        /\ retry' = retry
    BY <1>5 DEF RejectConfig, IndexFails, ReleaseJob, UpdateMetrics, Crash, Rest
  <2> QED
    BY <2>1 DEF TypeOK
<1>6. CASE UNCHANGED <<job, batch, retry>>
  BY <1>6
<1> QED
  BY <1>1, <1>2, <1>3, <1>4, <1>5, <1>6
  DEF Next, Work, ExecuteJob, ItemStep, Environment, ClaimNextJob, ClaimJobById, PollReclaims,
      CreateRunWithJob, ResumeItems, IndexReady, Heartbeat, LoopEnds, ReadProgress, FinishJob,
      AbortReleases, AbortFinishes, AggregateMetrics, reclaim_stale_jobs, HeartbeatExpires,
      RequeueByHand, RequestStop, Start, release_running_items

\* The failures of an item without attempts left and those its holders may still
\* record stay within the bound.
LEMMA FailuresStep ==
    ASSUME QueueAssumption, TypeOK, BatchInLoop, AttemptsLeft, FailuresLeft, [Next]_vars
    PROVE  FailuresLeft'
<1> SUFFICES ASSUME NEW j \in Jobs, NEW c \in Cases
             PROVE  \/ retry'[j][c] < MaxRetries
                    \/ retry'[j][c] + Cardinality(Holders(j, c)')
                           <= MaxRetries + Cardinality(Workers) - 1
  BY DEF FailuresLeft, Holders
<1> DEFINE H == Holders(j, c)
           K == Holders(j, c)'
<1>1. /\ IsFiniteSet(Workers) /\ Cardinality(Workers) \in Nat
      /\ retry[j][c] \in Nat /\ MaxRetries \in Nat
  BY FS_CardinalityType DEF QueueAssumption, TypeOK
<1>2. IsFiniteSet(H) /\ Cardinality(H) \in Nat /\ H \subseteq Workers
  BY <1>1, FS_Subset, FS_CardinalityType DEF Holders
<1>3. retry[j][c] < MaxRetries \/ retry[j][c] + Cardinality(H) <= MaxRetries + Cardinality(Workers) - 1
  BY DEF FailuresLeft
<1>4. HolderStep(j, c)
  BY HolderSteps
<1>5. CASE K \subseteq H /\ retry'[j][c] = retry[j][c]
  <2>1. Cardinality(K) <= Cardinality(H) /\ Cardinality(K) \in Nat
    BY <1>2, <1>5, FS_Subset, FS_CardinalityType
  <2> QED
    BY <1>1, <1>2, <1>3, <1>5, <2>1
<1>6. CASE \E w \in H : K \subseteq H \ {w} /\ retry'[j][c] = retry[j][c] + 1
  <2>1. PICK w \in H : K \subseteq H \ {w} /\ retry'[j][c] = retry[j][c] + 1
    BY <1>6
  <2>2. /\ IsFiniteSet(H \ {w}) /\ Cardinality(H \ {w}) = Cardinality(H) - 1
        /\ IsFiniteSet(Workers \ {w}) /\ Cardinality(Workers \ {w}) = Cardinality(Workers) - 1
    BY <1>1, <1>2, FS_RemoveElement
  <2>3. Cardinality(K) <= Cardinality(H \ {w}) /\ Cardinality(K) \in Nat
    BY <2>1, <2>2, FS_Subset, FS_CardinalityType
  <2>4. Cardinality(H \ {w}) <= Cardinality(Workers \ {w})
    BY <1>2, <2>2, FS_Subset
  <2> QED
    BY <1>1, <1>2, <1>3, <2>1, <2>2, <2>3, <2>4
<1>7. CASE item[j][c] = "pending" /\ retry'[j][c] = retry[j][c]
  BY <1>7 DEF AttemptsLeft
<1> QED
  BY <1>4, <1>5, <1>6, <1>7 DEF HolderStep

-----------------------------------------------------------------------------
(***************************************************************************)
(* Whatever the heartbeats: LateInv.                                       *)
(***************************************************************************)
\* Before the first submission LateInv holds.
LEMMA LateInit == ASSUME QueueAssumption, Init PROVE LateInv
<1>1. TypeOK
  BY QueueAssumption DEF Init, TypeOK, QueueAssumption, Status, Causes, Locations
<1>2. AttemptsLeft /\ BatchInLoop /\ FailuresLeft
  BY QueueAssumption DEF Init, AttemptsLeft, BatchInLoop, FailuresLeft, QueueAssumption
<1> QED
  BY <1>1, <1>2, QueueAssumption
  DEF Init, LateInv, RunTracksJob, ItemsOfSubmitted, JobsHeldAreSubmitted,
      SucceededHasResult, QueueAssumption

\* Every step keeps LateInv.
LEMMA LateStep == ASSUME QueueAssumption, LateInv, [Next]_vars PROVE LateInv'
<1> USE DEF LateInv
<1>1. TypeOK'
  BY StepTypes
<1>2. \A j \in Jobs : JobStep(j)
  BY JobSteps
<1>3. \A j \in Jobs, c \in Cases : CellStep(j, c)
  BY CellSteps
<1>4. \A w \in Workers : job[w] \in Jobs => jobStatus[job[w]] # "none"
  BY QueueAssumption DEF JobsHeldAreSubmitted, QueueAssumption
<1>5. \A j \in Jobs : jobStatus[j] # "none" => jobStatus'[j] # "none"
  BY <1>2 DEF JobStep
<1>6. RunTracksJob'
  BY <1>2 DEF RunTracksJob, JobStep
<1>7. JobsHeldAreSubmitted'
  BY <1>1, <1>5, JobHeldSteps DEF JobsHeldAreSubmitted, TypeOK
<1>8. ItemsOfSubmitted'
  BY <1>2, <1>3, <1>4 DEF ItemsOfSubmitted, JobStep, CellStep, SameCell
<1>9. AttemptsLeft'
  BY <1>3 DEF AttemptsLeft, ItemsOfSubmitted, CellStep, SameCell
<1>10. SucceededHasResult'
  BY <1>3 DEF SucceededHasResult, CellStep, SameCell
<1>11. BatchInLoop' /\ FailuresLeft'
  BY BatchSteps, FailuresStep
<1> QED
  BY <1>1, <1>6, <1>7, <1>8, <1>9, <1>10, <1>11

\* LateInv is an invariant.
LEMMA LateInvariant == ASSUME QueueAssumption PROVE Spec => []LateInv
<1>1. Init => LateInv
  BY LateInit
<1>2. LateInv /\ [Next]_vars => LateInv'
  BY LateStep
<1> QED
  BY <1>1, <1>2, PTL DEF Spec

\* A run is terminal exactly when its job is (finish_job writes both rows, and
\* claim_job never revives a terminal run).
THEOREM RunAndJobAgree == ASSUME QueueAssumption PROVE Spec => []RunFollowsJob
<1>1. LateInv => RunFollowsJob
  BY DEF LateInv, RunTracksJob, RunFollowsJob
<1> QED
  BY <1>1, LateInvariant, PTL

\* The failures recorded for an item: fewer than MaxRetries while it may still be
\* executed, and never more than MaxRetries and one for each other worker.
THEOREM RetryLimit == ASSUME QueueAssumption PROVE Spec => []FailuresBounded
<1>1. LateInv => FailuresBounded
  <2> SUFFICES ASSUME LateInv, NEW j \in Jobs, NEW c \in Cases
               PROVE  /\ item[j][c] \in Unfinished => retry[j][c] < MaxRetries
                      /\ retry[j][c] <= MaxRetries + Cardinality(Workers) - 1
    BY DEF FailuresBounded
  <2>1. /\ IsFiniteSet(Workers) /\ Cardinality(Workers) \in Nat
        /\ retry[j][c] \in Nat /\ MaxRetries \in Nat
    BY FS_CardinalityType DEF QueueAssumption, LateInv, TypeOK
  <2>2. Cardinality(Holders(j, c)) \in Nat
    BY <2>1, FS_Subset, FS_CardinalityType DEF Holders
  <2>3. item[j][c] \in Unfinished => retry[j][c] < MaxRetries
    BY DEF LateInv, AttemptsLeft
  <2>4. CASE retry[j][c] < MaxRetries
    BY <2>1, <2>4
  <2>5. CASE retry[j][c] + Cardinality(Holders(j, c)) <= MaxRetries + Cardinality(Workers) - 1
    BY <2>1, <2>2, <2>3, <2>5
  <2> QED
    BY <2>4, <2>5 DEF LateInv, FailuresLeft
<1> QED
  BY <1>1, LateInvariant, PTL

\* A succeeded item has its result in case_results.
THEOREM Checkpointed == ASSUME QueueAssumption PROVE Spec => []SucceededHasResult
<1>1. LateInv => SucceededHasResult
  BY DEF LateInv
<1> QED
  BY <1>1, LateInvariant, PTL

\* No action takes a finished job back into the queue.
THEOREM NeverReopened == ASSUME QueueAssumption PROVE Spec => FinishedJobStaysFinished
<1>1. LateInv /\ [Next]_vars => \A j \in Jobs : Terminal(j) => Terminal(j)'
  BY JobSteps DEF LateInv, JobStep
<1> QED
  BY <1>1, LateInvariant, PTL DEF Spec, FinishedJobStaysFinished

-----------------------------------------------------------------------------
(***************************************************************************)
(* With timely heartbeats: TimelyInv.                                      *)
(***************************************************************************)
ExecInv == ExecutedIsLive /\ OneExecutor

\* A step of w that keeps its job, or that it makes outside execute_job.
LEMMA ExecutorStays ==
    ASSUME TypeOK, ExecInv, NEW w \in Workers,
           pc'[w] \in Executing => pc[w] \in Executing,
           \A v \in Workers \ {w} : pc'[v] = pc[v],
           \A v \in Workers : job'[v] = job[v],
           \A j \in Jobs : jobStatus'[j] = jobStatus[j],
           \A j \in Jobs : fresh[j] => fresh'[j]
    PROVE  ExecInv'
<1> DEFINE X == Executing
<1>0. \A v \in Workers : pc[v] \in X => job[v] \in Jobs
  BY DEF TypeOK, Executing
<1> HIDE DEF X
<1>1. \A v \in Workers : pc'[v] \in X => pc[v] \in X
  BY DEF X
<1> QED
  BY <1>0, <1>1 DEF ExecInv, ExecutedIsLive, OneExecutor, Executes, X

\* A step with which w leaves its job, whatever it does to the job's status.
LEMMA ExecutorLeaves ==
    ASSUME TypeOK, ExecInv, NEW w \in Workers,
           pc'[w] \notin Executing,
           \A v \in Workers \ {w} : pc'[v] = pc[v] /\ job'[v] = job[v],
           \A j \in Jobs : jobStatus'[j] = jobStatus[j] \/ Executes(w, j),
           \A j \in Jobs : fresh'[j] = fresh[j]
    PROVE  ExecInv'
<1>0. \A v \in Workers : pc[v] \in Executing => job[v] \in Jobs
  BY DEF TypeOK, Executing
<1> QED
  BY <1>0 DEF ExecInv, ExecutedIsLive, OneExecutor, Executes

\* Only the executor of a job moves it, and nothing ages its heartbeat.
LEMMA ExecStep ==
    ASSUME QueueAssumption, TimelyHeartbeats, TypeOK, ExecInv, [Next]_vars
    PROVE  ExecInv'
<1> USE DEF Goto, vars, dbVars, workerVars, runTable, itemTable, local
<1>0. \A w \in Workers : pc[w] \in Executing => job[w] \in Jobs
  BY DEF TypeOK, Executing
<1>1. ASSUME NEW j \in Jobs, CreateRunWithJob(j) PROVE ExecInv'
  BY <1>0, <1>1 DEF TypeOK, CreateRunWithJob, ExecInv, ExecutedIsLive, OneExecutor, Executes
<1>2. ASSUME NEW w \in Workers, NEW j \in Jobs, claim_job(w, j) PROVE ExecInv'
  BY <1>0, <1>2 DEF TypeOK, claim_job, ExecInv, ExecutedIsLive, OneExecutor, Executes
<1>3. ASSUME NEW w \in Workers,
             \/ RejectConfig(w) \/ IndexFails(w) \/ ReleaseJob(w) \/ FinishJob(w)
             \/ AbortFinishes(w) \/ AggregateMetrics(w) \/ UpdateMetrics(w)
             \/ Crash(w) \/ Start(w)
      PROVE  ExecInv'
  <2>1. /\ pc'[w] \notin Executing
        /\ \A v \in Workers \ {w} : pc'[v] = pc[v] /\ job'[v] = job[v]
    BY <1>3 DEF TypeOK, Executing, RejectConfig, IndexFails, ReleaseJob, FinishJob, AbortFinishes,
                AggregateMetrics, UpdateMetrics, Crash, Start, Rest
  <2>2. \A j \in Jobs : jobStatus'[j] = jobStatus[j] \/ Executes(w, j)
    BY <1>3 DEF TypeOK, Executing, Executes, RejectConfig, IndexFails, ReleaseJob, FinishJob,
                AbortFinishes, finish_job, AggregateMetrics, UpdateMetrics, Crash, Start
  <2>3. \A j \in Jobs : fresh'[j] = fresh[j]
    BY <1>3 DEF RejectConfig, IndexFails, ReleaseJob, FinishJob, AbortFinishes,
                AggregateMetrics, UpdateMetrics, Crash, Start
  <2> QED
    BY <2>1, <2>2, <2>3, ExecutorLeaves
<1>4. ASSUME NEW w \in Workers,
             \/ ResumeItems(w) \/ AbortReleases(w) \/ IndexReady(w) \/ LoopEnds(w)
             \/ ClaimItems(w) \/ Heartbeat(w) \/ ReadProgress(w) \/ RequestStop(w)
             \/ ItemStep(w)
      PROVE  ExecInv'
  <2> USE DEF ItemStep, ResumeItems, AbortReleases, IndexReady, LoopEnds, ClaimItems, Heartbeat,
              ReadProgress, RequestStop, CompleteItem, RetryItem, DropItem, AbortItem
  <2>1. /\ pc'[w] \in Executing => pc[w] \in Executing
        /\ \A v \in Workers \ {w} : pc'[v] = pc[v]
    BY <1>4 DEF TypeOK, Executing, Settled
  <2>2. UNCHANGED <<job, jobStatus>>
    BY <1>4
  <2>3. \A j \in Jobs : fresh[j] => fresh'[j]
    BY <1>4 DEF TypeOK, release_running_items, complete_item, fail_item, PROGRESS_SQL
  <2> QED
    BY <2>1, <2>2, <2>3, ExecutorStays
<1>5. ASSUME NEW j \in Jobs,
             reclaim_stale_jobs(j) \/ HeartbeatExpires(j) \/ RequeueByHand(j)
      PROVE  ExecInv'
  <2>1. UNCHANGED <<pc, job>>
    BY <1>5 DEF reclaim_stale_jobs, HeartbeatExpires, RequeueByHand
  <2>2. \A w \in Workers : ~Executes(w, j)
    BY <1>5 DEF reclaim_stale_jobs, Reclaimable, HeartbeatExpires, RequeueByHand, ExecInv,
                ExecutedIsLive, Executes
  <2>3. \A i \in Jobs \ {j} : jobStatus'[i] = jobStatus[i] /\ fresh'[i] = fresh[i]
    BY <1>5 DEF TypeOK, reclaim_stale_jobs, PROGRESS_SQL, HeartbeatExpires, RequeueByHand
  <2> QED
    BY <1>0, <2>1, <2>2, <2>3 DEF ExecInv, ExecutedIsLive, OneExecutor, Executes
<1>6. CASE UNCHANGED vars
  BY <1>6 DEF ExecInv, ExecutedIsLive, OneExecutor, Executes
<1> QED
  BY <1>1, <1>2, <1>3, <1>4, <1>5, <1>6
  DEF Next, Work, ExecuteJob, Environment, ClaimNextJob, ClaimJobById, PollReclaims

\* What a worker knows of the items of its job.
Holds(w) ==
    /\ \A c \in batch[w] : pc[w] \in {"beat", "batch"} /\ item[job[w]][c] = "running"
    /\ pc[w] \in Executing \ {"claimed", "abort"} =>
           \A c \in Cases : item[job[w]][c] = "running" => c \in batch[w]
    /\ pc[w] \in {"exit", "finish"} => \A c \in Cases : item[job[w]][c] \in Finished
    /\ pc[w] = "finish" => seen[w] = {item[job[w]][c] : c \in Cases}

Untouched(v) ==
    /\ pc'[v] = pc[v] /\ job'[v] = job[v] /\ batch'[v] = batch[v] /\ seen'[v] = seen[v]
    /\ pc[v] \in Executing => item'[job[v]] = item[job[v]]

\* A worker whose state and items a step leaves alone knows what it knew.
LEMMA HoldsUntouched ==
    ASSUME NEW v \in Workers, Holds(v), Untouched(v) PROVE Holds(v)'
<1>1. CASE pc[v] \in Executing
  BY <1>1 DEF Holds, Untouched
<1>2. CASE pc[v] \notin Executing
  BY <1>2 DEF Holds, Untouched, Executing
<1> QED
  BY <1>1, <1>2

\* Steps of an executor touch the items of its own job only.
LEMMA OthersUntouched ==
    ASSUME TypeOK, ExecInv, NEW w \in Workers, pc[w] \in Executing,
           \A v \in Workers \ {w} :
               pc'[v] = pc[v] /\ job'[v] = job[v] /\ batch'[v] = batch[v] /\ seen'[v] = seen[v],
           \A j \in Jobs : j # job[w] => item'[j] = item[j]
    PROVE  \A v \in Workers \ {w} : Untouched(v)
<1>1. \A v \in Workers : pc[v] \in Executing => job[v] \in Jobs
  BY DEF TypeOK, Executing
<1> QED
  BY <1>1 DEF ExecInv, OneExecutor, Executes, Untouched

\* A step of w after which it is outside its batches.
LEMMA HoldsOutside ==
    ASSUME NEW w \in Workers, batch'[w] = {},
           pc'[w] \in {"down", "idle", "claimed", "abort", "metrics", "write"}
    PROVE  Holds(w)'
BY DEF Holds, Executing

\* Every step keeps what the workers know of their items.
LEMMA HoldsSteps ==
    ASSUME QueueAssumption, TimelyHeartbeats, TypeOK, ItemsOfSubmitted, ExecInv,
           \A w \in Workers : Holds(w), [Next]_vars
    PROVE  \A w \in Workers : Holds(w)'
<1> USE DEF Goto, vars, dbVars, workerVars, runTable, itemTable, local
<1>0. \A w \in Workers : pc[w] \in Executing => job[w] \in Jobs
  BY DEF TypeOK, Executing
<1>a. \A w \in Workers : pc[w] \notin {"beat", "batch"} => batch[w] = {}
  BY DEF Holds
<1>b. ASSUME NEW w \in Workers, Holds(w)', \A v \in Workers \ {w} : Untouched(v)
      PROVE  \A v \in Workers : Holds(v)'
  BY <1>b, HoldsUntouched
<1>c. ASSUME \A v \in Workers : Untouched(v)
      PROVE  \A v \in Workers : Holds(v)'
  BY <1>c, HoldsUntouched
<1>1. ASSUME NEW j \in Jobs, CreateRunWithJob(j) PROVE \A w \in Workers : Holds(w)'
  <2>1. \A w \in Workers : Untouched(w)
    BY <1>0, <1>1 DEF TypeOK, CreateRunWithJob, ExecInv, ExecutedIsLive, Untouched
  <2> QED
    BY <2>1, <1>c
<1>2. ASSUME NEW w \in Workers, NEW j \in Jobs, claim_job(w, j)
      PROVE  \A v \in Workers : Holds(v)'
  <2>1. \A v \in Workers \ {w} : Untouched(v)
    BY <1>2 DEF TypeOK, claim_job, Untouched
  <2>2. Holds(w)'
    BY <1>2, <1>a, HoldsOutside DEF TypeOK, claim_job
  <2> QED
    BY <2>1, <2>2, <1>b
<1>3. ASSUME NEW w \in Workers,
             \/ RejectConfig(w) \/ IndexFails(w) \/ ReleaseJob(w) \/ FinishJob(w)
             \/ AbortFinishes(w) \/ AggregateMetrics(w) \/ UpdateMetrics(w)
             \/ Crash(w) \/ Start(w)
      PROVE  \A v \in Workers : Holds(v)'
  <2> USE DEF RejectConfig, IndexFails, ReleaseJob, FinishJob, AbortFinishes,
              AggregateMetrics, UpdateMetrics, Crash, Start, Rest
  <2>1. \A v \in Workers \ {w} : Untouched(v)
    BY <1>3 DEF TypeOK, Untouched
  <2>2. pc'[w] \in {"down", "idle", "metrics", "write"} /\ batch'[w] = {}
    BY <1>3, <1>a DEF TypeOK
  <2> QED
    BY <2>1, <2>2, HoldsOutside, <1>b
<1>4. ASSUME NEW w \in Workers, ResumeItems(w) \/ AbortReleases(w)
      PROVE  \A v \in Workers : Holds(v)'
  <2> USE DEF ResumeItems, AbortReleases, release_running_items
  <2>1. job[w] \in Jobs /\ pc[w] \in Executing
    BY <1>4, <1>0 DEF Executing
  <2>2. \A v \in Workers \ {w} : Untouched(v)
    BY <1>4, <2>1, OthersUntouched DEF TypeOK, Released
  <2>3. \A c \in Cases : item'[job[w]][c] # "running"
    BY <1>4, <2>1 DEF TypeOK, Released
  <2>4. pc'[w] \in {"ready", "failing"} /\ batch'[w] = {} /\ job'[w] = job[w]
    BY <1>4, <1>a DEF TypeOK
  <2>5. Holds(w)'
    BY <2>3, <2>4 DEF Holds
  <2> QED
    BY <2>2, <2>5, <1>b
<1>5. ASSUME NEW w \in Workers, IndexReady(w) \/ Heartbeat(w) \/ RequestStop(w)
      PROVE  \A v \in Workers : Holds(v)'
  <2> USE DEF IndexReady, Heartbeat, RequestStop
  <2>1. \A v \in Workers \ {w} : Untouched(v)
    BY <1>5 DEF TypeOK, Untouched
  <2>2. Holds(w)'
    BY <1>5 DEF TypeOK, Holds, Executing
  <2> QED
    BY <2>1, <2>2, <1>b
<1>6. ASSUME NEW w \in Workers, ClaimItems(w) PROVE \A v \in Workers : Holds(v)'
  <2>1. PICK S \in SUBSET Cases :
            /\ item' = [item EXCEPT ![job[w]] =
                           [c \in Cases |-> IF c \in S THEN "running" ELSE @[c]]]
            /\ batch' = [batch EXCEPT ![w] = S]
    BY <1>6 DEF ClaimItems, Claimable, Pending
  <2>2. job[w] \in Jobs /\ pc[w] \in Executing
    BY <1>6, <1>0 DEF ClaimItems, Executing
  <2>3. \A v \in Workers \ {w} : Untouched(v)
    BY <1>6, <2>1, <2>2, OthersUntouched DEF TypeOK, ClaimItems
  <2>4. \A c \in Cases : item[job[w]][c] # "running"
    BY <1>6, <1>a DEF ClaimItems, Holds, Executing
  <2>5. \A c \in Cases : item'[job[w]][c] = "running" <=> c \in S
    BY <2>1, <2>2, <2>4 DEF TypeOK
  <2>6. Holds(w)'
    BY <1>6, <2>1, <2>5 DEF TypeOK, ClaimItems, Holds
  <2> QED
    BY <2>3, <2>6, <1>b
<1>7. ASSUME NEW w \in Workers, NEW c \in Cases,
             CompleteItem(w, c) \/ RetryItem(w, c) \/ DropItem(w, c)
      PROVE  \A v \in Workers : Holds(v)'
  <2> USE DEF CompleteItem, RetryItem, DropItem, Settled, complete_item, fail_item
  <2>1. job[w] \in Jobs /\ pc[w] \in Executing
    BY <1>7, <1>0 DEF Executing
  <2>0. PICK s \in {"succeeded", "failed", "pending"} : item' = [item EXCEPT ![job[w]][c] = s]
    BY <1>7
  <2>2. /\ \A d \in Cases \ {c} : item'[job[w]][d] = item[job[w]][d]
        /\ item'[job[w]][c] # "running"
        /\ \A j \in Jobs : j # job[w] => item'[j] = item[j]
    BY <2>0, <2>1 DEF TypeOK
  <2>3. \A v \in Workers \ {w} : Untouched(v)
    BY <1>7, <2>1, <2>2, OthersUntouched DEF TypeOK
  <2>4. batch'[w] = batch[w] \ {c} /\ pc'[w] = IF batch[w] = {c} THEN "loop" ELSE "batch"
    BY <1>7 DEF TypeOK
  <2>5. job'[w] = job[w] /\ batch'[w] \subseteq Cases
    BY <1>7, <2>4 DEF TypeOK
  <2>6. \A d \in Cases : item[job[w]][d] = "running" <=> d \in batch[w]
    BY <1>7 DEF TypeOK, Holds, Executing
  <2>7. Holds(w)'
    BY <2>2, <2>4, <2>5, <2>6 DEF Holds
  <2> QED
    BY <2>3, <2>7, <1>b
<1>8. ASSUME NEW w \in Workers, NEW c \in Cases, AbortItem(w, c)
      PROVE  \A v \in Workers : Holds(v)'
  <2> USE DEF AbortItem, fail_item
  <2>1. job[w] \in Jobs /\ pc[w] \in Executing
    BY <1>8, <1>0 DEF Executing
  <2>2. \A v \in Workers \ {w} : Untouched(v)
    BY <1>8, <2>1, OthersUntouched DEF TypeOK
  <2>3. Holds(w)'
    BY <1>8, HoldsOutside DEF TypeOK
  <2> QED
    BY <2>2, <2>3, <1>b
<1>9. ASSUME NEW w \in Workers, LoopEnds(w) PROVE \A v \in Workers : Holds(v)'
  <2>1. job[w] \in Jobs /\ pc[w] \in Executing
    BY <1>9, <1>0 DEF LoopEnds, Executing
  <2>2. \A v \in Workers \ {w} : Untouched(v)
    BY <1>9 DEF TypeOK, LoopEnds, Untouched
  <2>3. Pending(job[w]) = {}
    BY <1>9, <2>1 DEF LoopEnds, Claimable, ExecInv, OneExecutor, Executes, Executing
  <2>4. \A c \in Cases : item[job[w]][c] # "running"
    BY <1>9, <1>a DEF LoopEnds, Holds, Executing
  <2>5. \A c \in Cases : item[job[w]][c] # "none"
    BY <1>9, <2>1 DEF ItemsOfSubmitted, ExecInv, ExecutedIsLive
  <2>6. \A c \in Cases : item[job[w]][c] \in Finished
    BY <2>1, <2>3, <2>4, <2>5, ItemStatus DEF Pending, Status
  <2>7. Holds(w)'
    BY <1>9, <2>4, <2>6, <1>a DEF TypeOK, LoopEnds, Holds
  <2> QED
    BY <2>2, <2>7, <1>b
<1>10. ASSUME NEW w \in Workers, ReadProgress(w) PROVE \A v \in Workers : Holds(v)'
  <2>1. \A v \in Workers \ {w} : Untouched(v)
    BY <1>10 DEF TypeOK, ReadProgress, Untouched
  <2>2. seen'[w] = {item[job[w]][c] : c \in Cases}
    BY <1>10 DEF TypeOK, ReadProgress
  <2>3. /\ pc[w] = "exit" /\ pc'[w] = "finish" /\ batch'[w] = {}
        /\ job'[w] = job[w] /\ item' = item
    BY <1>10, <1>a DEF TypeOK, ReadProgress
  <2>4. \A c \in Cases : item[job[w]][c] \in Finished
    BY <2>3 DEF Holds
  <2>5. Holds(w)'
    BY <2>2, <2>3, <2>4 DEF Holds
  <2> QED
    BY <2>1, <2>5, <1>b
<1>11. ASSUME NEW j \in Jobs,
              reclaim_stale_jobs(j) \/ HeartbeatExpires(j) \/ RequeueByHand(j)
       PROVE  \A w \in Workers : Holds(w)'
  <2>1. UNCHANGED <<pc, job, batch, seen>>
    BY <1>11 DEF reclaim_stale_jobs, HeartbeatExpires, RequeueByHand
  <2>2. \A i \in Jobs : item'[i] = item[i] \/ (i = j /\ Reclaimable(j))
    BY <1>11 DEF TypeOK, reclaim_stale_jobs, Released, HeartbeatExpires, RequeueByHand
  <2>3. \A w \in Workers : Untouched(w)
    BY <1>0, <2>1, <2>2 DEF Untouched, Reclaimable, ExecInv, ExecutedIsLive
  <2> QED
    BY <2>3, <1>c
<1>12. CASE UNCHANGED vars
  <2>1. \A w \in Workers : Untouched(w)
    BY <1>12 DEF Untouched
  <2> QED
    BY <2>1, <1>c
<1> QED
  BY <1>1, <1>2, <1>3, <1>4, <1>5, <1>6, <1>7, <1>8, <1>9, <1>10, <1>11, <1>12
  DEF Next, Work, ExecuteJob, ItemStep, Environment, ClaimNextJob, ClaimJobById, PollReclaims

\* Nothing of a finished job changes any more, except its metrics.
Frozen(j) ==
    /\ jobStatus'[j] = jobStatus[j] /\ runStatus'[j] = runStatus[j] /\ error'[j] = error[j]
    /\ item'[j] = item[j] /\ results'[j] = results[j]

\* Nobody executes a finished job, so no step writes its rows.
LEMMA FinishedFrozen ==
    ASSUME TypeOK, ExecInv, [Next]_vars, NEW j \in Jobs, Terminal(j) PROVE Frozen(j)
<1> USE DEF vars, dbVars, workerVars, runTable, itemTable, local
<1>0. \A w \in Workers : pc[w] \in Executing => job[w] \in Jobs /\ job[w] # j
  BY DEF TypeOK, Executing, ExecInv, ExecutedIsLive
<1>1. ASSUME NEW i \in Jobs, CreateRunWithJob(i) PROVE Frozen(j)
  BY <1>1 DEF TypeOK, CreateRunWithJob, Frozen
<1>2. ASSUME NEW w \in Workers, NEW i \in Jobs, claim_job(w, i) PROVE Frozen(j)
  BY <1>2 DEF TypeOK, claim_job, Frozen
<1>3. ASSUME NEW w \in Workers,
             RejectConfig(w) \/ IndexFails(w) \/ FinishJob(w) \/ AbortFinishes(w)
      PROVE  Frozen(j)
  <2>1. job[w] # j
    BY <1>0, <1>3 DEF Executing, RejectConfig, IndexFails, FinishJob, AbortFinishes
  <2> QED
    BY <1>3, <2>1 DEF TypeOK, RejectConfig, IndexFails, FinishJob, AbortFinishes, finish_job, Frozen
<1>4. ASSUME NEW w \in Workers, ReleaseJob(w) PROVE Frozen(j)
  <2>1. job[w] # j
    BY <1>0, <1>4 DEF Executing, ReleaseJob
  <2> QED
    BY <1>4, <2>1 DEF TypeOK, ReleaseJob, Frozen
<1>5. ASSUME NEW w \in Workers, ResumeItems(w) \/ AbortReleases(w) \/ ClaimItems(w) \/ ItemStep(w)
      PROVE  Frozen(j)
  <2> USE DEF ResumeItems, AbortReleases, ClaimItems, ItemStep, CompleteItem, RetryItem,
              DropItem, AbortItem
  <2>1. job[w] # j
    BY <1>0, <1>5 DEF Executing
  <2>2. item'[j] = item[j] /\ results'[j] = results[j]
    BY <1>5, <2>1 DEF TypeOK, release_running_items, Released, complete_item, fail_item
  <2>3. UNCHANGED <<jobStatus, runStatus, error>>
    BY <1>5
  <2> QED
    BY <2>2, <2>3 DEF Frozen
<1>6. ASSUME NEW i \in Jobs, reclaim_stale_jobs(i) \/ RequeueByHand(i) PROVE Frozen(j)
  BY <1>6 DEF TypeOK, reclaim_stale_jobs, Reclaimable, RequeueByHand, Released, Frozen
<1>7. CASE UNCHANGED <<jobStatus, runStatus, error, item, results>>
  BY <1>7 DEF Frozen
<1> QED
  BY <1>1, <1>2, <1>3, <1>4, <1>5, <1>6, <1>7
  DEF Next, Work, ExecuteJob, Environment, ClaimNextJob, ClaimJobById, PollReclaims,
      IndexReady, Heartbeat, LoopEnds, ReadProgress, AggregateMetrics, UpdateMetrics,
      HeartbeatExpires, Crash, RequestStop, Start

\* What is true of a job once it has finished.
Concluded(j) ==
    /\ jobStatus[j] = "succeeded" => \A c \in Cases : item[j][c] = "succeeded"
    /\ error[j] # "inconsistent"
    /\ Terminal(j) /\ error[j] # "config" => \A c \in Cases : item[j][c] # "running"

\* The step that finishes a job leaves what Concluded states, and no later step
\* changes it.
LEMMA ConcludeSteps ==
    ASSUME TypeOK, ExecInv, \A w \in Workers : Holds(w), [Next]_vars,
           NEW j \in Jobs, Concluded(j)
    PROVE  Concluded(j)'
<1> USE DEF vars, dbVars, workerVars, runTable, itemTable, local
<1>0. \A w \in Workers : pc[w] \in Executing => job[w] \in Jobs
  BY DEF TypeOK, Executing
<1>1. CASE Terminal(j)
  BY <1>1, FinishedFrozen DEF Frozen, Concluded
<1>2. CASE ~Terminal(j)' /\ error'[j] # "inconsistent"
  BY <1>2 DEF Concluded
<1>3. ASSUME NEW w \in Workers, RejectConfig(w) \/ IndexFails(w) \/ AbortFinishes(w) \/ FinishJob(w)
      PROVE  Concluded(j)'
  <2> USE DEF RejectConfig, IndexFails, AbortFinishes, FinishJob
  <2>1. job[w] \in Jobs /\ pc[w] \in Executing
    BY <1>0, <1>3 DEF Executing
  <2>2. CASE job[w] # j
    BY <1>3, <2>1, <2>2 DEF TypeOK, finish_job, Concluded
  <2>3. CASE job[w] = j /\ RejectConfig(w)
    BY <2>3 DEF TypeOK, finish_job, Concluded
  <2>4. CASE job[w] = j /\ (IndexFails(w) \/ AbortFinishes(w))
    <3>1. \A c \in Cases : item[j][c] # "running"
      BY <2>4 DEF Holds, Executing
    <3> QED
      BY <2>4, <3>1 DEF TypeOK, finish_job, Concluded
  <2>5. CASE job[w] = j /\ FinishJob(w)
    <3>1. /\ seen[w] = {item[j][c] : c \in Cases}
          /\ \A c \in Cases : item[j][c] \in Finished
      BY <2>5 DEF Holds
    <3>2. seen[w] \cap Unfinished = {}
      BY <3>1
    <3>3. "failed" \notin seen[w] => \A c \in Cases : item[j][c] = "succeeded"
      BY <3>1
    <3>4. \A c \in Cases : item[j][c] # "running"
      BY <3>1
    <3>5. item' = item
      BY <2>5
    <3>6. CASE "failed" \in seen[w]
      <4>1. jobStatus'[j] = "failed" /\ error'[j] = "items"
        BY <2>5, <3>2, <3>6 DEF TypeOK, finish_job, Verdict
      <4> QED
        BY <3>4, <3>5, <4>1 DEF Concluded
    <3>7. CASE "failed" \notin seen[w]
      <4>1. jobStatus'[j] = "succeeded" /\ error'[j] = "none"
        BY <2>5, <3>2, <3>7 DEF TypeOK, finish_job, Verdict
      <4> QED
        BY <3>3, <3>4, <3>5, <3>7, <4>1 DEF Concluded
    <3> QED
      BY <3>6, <3>7
  <2> QED
    BY <1>3, <2>2, <2>3, <2>4, <2>5
<1>4. ASSUME \A w \in Workers :
                 ~RejectConfig(w) /\ ~IndexFails(w) /\ ~AbortFinishes(w) /\ ~FinishJob(w),
             ~Terminal(j)
      PROVE  ~Terminal(j)' /\ error'[j] # "inconsistent"
  <2>1. ASSUME NEW i \in Jobs,
               CreateRunWithJob(i) \/ reclaim_stale_jobs(i) \/ RequeueByHand(i)
        PROVE  ~Terminal(j)' /\ error'[j] # "inconsistent"
    BY <2>1, <1>4 DEF TypeOK, CreateRunWithJob, reclaim_stale_jobs, RequeueByHand, Concluded
  <2>2. ASSUME NEW w \in Workers, ReleaseJob(w) \/ \E i \in Jobs : claim_job(w, i)
        PROVE  ~Terminal(j)' /\ error'[j] # "inconsistent"
    BY <2>2, <1>4 DEF TypeOK, ReleaseJob, claim_job, Concluded
  <2>3. CASE UNCHANGED <<jobStatus, error>>
    BY <2>3, <1>4 DEF Concluded
  <2> QED
    BY <1>4, <2>1, <2>2, <2>3
    DEF Next, Work, ExecuteJob, ItemStep, Environment, ClaimNextJob, ClaimJobById, PollReclaims,
        ResumeItems, IndexReady, ClaimItems, Heartbeat, CompleteItem, RetryItem, DropItem,
        AbortItem, LoopEnds, ReadProgress, AbortReleases, AggregateMetrics, UpdateMetrics,
        HeartbeatExpires, Crash, RequestStop, Start
<1> QED
  BY <1>1, <1>2, <1>3, <1>4

\* Results belong to succeeded items, and stay so: a finished item is settled
\* for good.
LEMMA ResultSteps ==
    ASSUME QueueAssumption, TypeOK, ItemsOfSubmitted, \A w \in Workers : Holds(w),
           ResultOnlySucceeded, [Next]_vars
    PROVE  ResultOnlySucceeded'
<1>0. results' \in [Jobs -> SUBSET Cases]
  BY StepTypes DEF TypeOK
<1>1. SUFFICES ASSUME NEW j \in Jobs, NEW c \in Cases, c \in results'[j]
               PROVE  item'[j][c] = "succeeded"
  BY <1>0 DEF ResultOnlySucceeded
<1>2. CellStep(j, c)
  BY CellSteps
<1>3. c \in results[j] => item[j][c] = "succeeded"
  BY DEF ResultOnlySucceeded
<1>4. \A w \in Workers : job[w] = j /\ c \in batch[w] => item[j][c] = "running"
  BY DEF Holds
<1> QED
  BY <1>1, <1>2, <1>3, <1>4 DEF CellStep, SameCell, ItemsOfSubmitted

\* What a worker knows of the finished job it aggregates metrics of.
Reports(w) ==
    /\ pc[w] \in {"metrics", "write"} => Terminal(job[w])
    /\ pc[w] = "write" => agg[w] = results[job[w]]

\* Metrics are computed from a finished job, whose results no longer change.
LEMMA ReportSteps ==
    ASSUME QueueAssumption, TypeOK, ExecInv, ReportsFinishedJob, MetricsOfFinished, [Next]_vars
    PROVE  ReportsFinishedJob' /\ MetricsOfFinished'
<1> USE DEF Goto, vars, dbVars, workerVars, runTable, itemTable, local
<1>1. \A w \in Workers : pc[w] # "idle" /\ pc[w] # "down" => job[w] \in Jobs
  BY DEF TypeOK
<1>2. \A j \in Jobs : Terminal(j) => Frozen(j)
  BY FinishedFrozen
<1>3. \A j \in Jobs : Terminal(j) => Terminal(j)' /\ results'[j] = results[j]
  BY <1>2 DEF Frozen
<1>4. \A w \in Workers : Reports(w)
  BY DEF ReportsFinishedJob, Reports
<1>5. ASSUME NEW w \in Workers,
             \/ pc'[w] \notin {"metrics", "write"}
             \/ pc'[w] = pc[w] /\ job'[w] = job[w] /\ agg'[w] = agg[w]
      PROVE  Reports(w)'
  BY <1>1, <1>3, <1>4, <1>5 DEF Reports
<1>6. ASSUME UNCHANGED metrics PROVE MetricsOfFinished'
  BY <1>3, <1>6 DEF MetricsOfFinished
<1>7. (\A w \in Workers : Reports(w)') => ReportsFinishedJob'
  BY DEF Reports, ReportsFinishedJob
<1>8. ASSUME NEW w \in Workers, FinishJob(w) \/ AbortFinishes(w)
      PROVE  ReportsFinishedJob' /\ MetricsOfFinished'
  <2>1. job[w] \in Jobs
    BY <1>1, <1>8 DEF FinishJob, AbortFinishes
  <2>2. PICK s \in Finished, cause \in Causes : finish_job(job[w], s, cause)
    BY <1>8 DEF FinishJob, AbortFinishes, Verdict, Causes
  <2>3. /\ pc'[w] = "metrics" /\ job'[w] = job[w] /\ UNCHANGED metrics
        /\ \A v \in Workers \ {w} : pc'[v] = pc[v] /\ job'[v] = job[v] /\ agg'[v] = agg[v]
    BY <1>8 DEF TypeOK, FinishJob, AbortFinishes
  <2>4. Terminal(job[w])'
    BY <2>1, <2>2, <2>3 DEF TypeOK, finish_job
  <2>5. Reports(w)'
    BY <2>3, <2>4 DEF Reports
  <2> QED
    BY <1>5, <1>6, <1>7, <2>3, <2>5
<1>9. ASSUME NEW w \in Workers, AggregateMetrics(w)
      PROVE  ReportsFinishedJob' /\ MetricsOfFinished'
  <2>1. /\ pc[w] = "metrics" /\ pc'[w] = "write" /\ UNCHANGED <<metrics, job, results, jobStatus>>
        /\ agg'[w] = results[job[w]]
        /\ \A v \in Workers \ {w} : pc'[v] = pc[v] /\ job'[v] = job[v] /\ agg'[v] = agg[v]
    BY <1>9 DEF TypeOK, AggregateMetrics
  <2>2. Reports(w)'
    BY <1>4, <2>1 DEF Reports
  <2> QED
    BY <1>5, <1>6, <1>7, <2>1, <2>2
<1>10. ASSUME NEW w \in Workers, UpdateMetrics(w)
       PROVE  ReportsFinishedJob' /\ MetricsOfFinished'
  <2>1. job[w] \in Jobs /\ Terminal(job[w]) /\ agg[w] = results[job[w]]
    BY <1>1, <1>4, <1>10 DEF UpdateMetrics, Reports
  <2>2. /\ metrics'[job[w]] = agg[w]
        /\ \A j \in Jobs \ {job[w]} : metrics'[j] = metrics[j]
    BY <1>10, <2>1 DEF TypeOK, UpdateMetrics
  <2>3. MetricsOfFinished'
    BY <1>3, <2>1, <2>2 DEF MetricsOfFinished
  <2>4. /\ pc'[w] \in {"idle", "down"}
        /\ \A v \in Workers \ {w} : pc'[v] = pc[v] /\ job'[v] = job[v] /\ agg'[v] = agg[v]
    BY <1>10 DEF TypeOK, UpdateMetrics, Rest
  <2> QED
    BY <1>5, <1>7, <2>3, <2>4
<1>11. ASSUME NEW w \in Workers,
              \/ \E j \in Jobs : claim_job(w, j)
              \/ RejectConfig(w) \/ ResumeItems(w) \/ IndexReady(w) \/ IndexFails(w)
              \/ ClaimItems(w) \/ Heartbeat(w) \/ ItemStep(w) \/ LoopEnds(w)
              \/ ReleaseJob(w) \/ ReadProgress(w) \/ AbortReleases(w)
              \/ Crash(w) \/ RequestStop(w) \/ Start(w)
       PROVE  /\ UNCHANGED metrics
              /\ \/ pc'[w] \notin {"metrics", "write"}
                 \/ pc'[w] = pc[w] /\ job'[w] = job[w] /\ agg'[w] = agg[w]
              /\ \A v \in Workers \ {w} : pc'[v] = pc[v] /\ job'[v] = job[v] /\ agg'[v] = agg[v]
  <2>1. CASE \/ \E j \in Jobs : claim_job(w, j)
             \/ RejectConfig(w) \/ IndexFails(w) \/ ReleaseJob(w)
             \/ Crash(w) \/ RequestStop(w) \/ Start(w)
    BY <2>1 DEF TypeOK, claim_job, RejectConfig, IndexFails, ReleaseJob, Rest, Crash,
                RequestStop, Start
  <2>2. CASE \/ ResumeItems(w) \/ IndexReady(w) \/ ClaimItems(w) \/ Heartbeat(w)
             \/ LoopEnds(w) \/ ReadProgress(w) \/ AbortReleases(w) \/ ItemStep(w)
    BY <2>2 DEF TypeOK, ResumeItems, IndexReady, ClaimItems, Heartbeat, LoopEnds, ReadProgress,
                AbortReleases, ItemStep, CompleteItem, RetryItem, DropItem, AbortItem, Settled
  <2> QED
    BY <1>11, <2>1, <2>2
<1>12. CASE UNCHANGED <<metrics, pc, job, agg>>
  BY <1>12, <1>5, <1>6, <1>7
<1>13. ASSUME NEW j \in Jobs,
              \/ CreateRunWithJob(j) \/ reclaim_stale_jobs(j) \/ HeartbeatExpires(j)
              \/ RequeueByHand(j)
       PROVE  UNCHANGED <<metrics, pc, job, agg>>
  BY <1>13 DEF CreateRunWithJob, reclaim_stale_jobs, HeartbeatExpires, RequeueByHand
<1> QED
  <2>1. ASSUME NEW w \in Workers,
               \/ \E j \in Jobs : claim_job(w, j)
               \/ ExecuteJob(w) \/ Crash(w) \/ RequestStop(w) \/ Start(w)
        PROVE  ReportsFinishedJob' /\ MetricsOfFinished'
    BY <2>1, <1>5, <1>6, <1>7, <1>8, <1>9, <1>10, <1>11 DEF ExecuteJob
  <2>2. CASE UNCHANGED vars
    BY <2>2, <1>12
  <2> QED
    BY <2>1, <2>2, <1>12, <1>13
    DEF Next, Work, Environment, ClaimNextJob, ClaimJobById, PollReclaims

\* TimelyInv, cut where the lemmas above cut it.
LEMMA TimelyParts ==
    TimelyInv <=> /\ LateInv /\ ExecInv
                  /\ \A w \in Workers : Holds(w)
                  /\ ResultOnlySucceeded
                  /\ \A j \in Jobs : Concluded(j)
                  /\ ReportsFinishedJob /\ MetricsOfFinished
BY DEF TimelyInv, ExecInv, Holds, BatchRuns, RunningIsHeld, LoopLeavesAllFinished, SeenIsCurrent,
       Concluded, SucceededJobComplete, FallbackUnreached, OrphansOnlyByConfig

\* Before the first submission TimelyInv holds.
LEMMA TimelyInit == ASSUME QueueAssumption, Init PROVE TimelyInv
<1>1. LateInv
  BY LateInit
<1>2. ExecInv /\ \A w \in Workers : Holds(w)
  BY DEF Init, ExecInv, ExecutedIsLive, OneExecutor, Executes, Executing, Holds
<1>3. /\ ResultOnlySucceeded
      /\ \A j \in Jobs : Concluded(j)
      /\ ReportsFinishedJob /\ MetricsOfFinished
  BY DEF Init, ResultOnlySucceeded, Concluded, ReportsFinishedJob, MetricsOfFinished
<1> QED
  BY <1>1, <1>2, <1>3, TimelyParts

\* Every step keeps TimelyInv.
LEMMA TimelyStep ==
    ASSUME QueueAssumption, TimelyHeartbeats, TimelyInv, [Next]_vars PROVE TimelyInv'
<1>1. /\ LateInv /\ ExecInv
      /\ \A w \in Workers : Holds(w)
      /\ ResultOnlySucceeded
      /\ \A j \in Jobs : Concluded(j)
      /\ ReportsFinishedJob /\ MetricsOfFinished
  BY TimelyParts
<1>2. TypeOK /\ ItemsOfSubmitted
  BY <1>1 DEF LateInv
<1>3. LateInv'
  BY <1>1, LateStep
<1>4. ExecInv'
  BY <1>1, <1>2, ExecStep
<1>5. \A w \in Workers : Holds(w)'
  BY <1>1, <1>2, HoldsSteps
<1>6. ResultOnlySucceeded'
  BY <1>1, <1>2, ResultSteps
<1>7. \A j \in Jobs : Concluded(j)'
  BY <1>1, <1>2, ConcludeSteps
<1>8. ReportsFinishedJob' /\ MetricsOfFinished'
  BY <1>1, <1>2, ReportSteps
<1> QED
  BY <1>3, <1>4, <1>5, <1>6, <1>7, <1>8
  DEF TimelyInv, ExecInv, Holds, BatchRuns, RunningIsHeld, LoopLeavesAllFinished, SeenIsCurrent,
      Concluded, SucceededJobComplete, FallbackUnreached, OrphansOnlyByConfig

\* With timely heartbeats TimelyInv is an invariant.
LEMMA TimelyInvariant == ASSUME QueueAssumption, TimelyHeartbeats PROVE Spec => []TimelyInv
<1>1. Init => TimelyInv
  BY TimelyInit
<1>2. TimelyInv /\ [Next]_vars => TimelyInv'
  BY TimelyStep
<1> QED
  BY <1>1, <1>2, PTL DEF Spec

\* With timely heartbeats no job is executed by two workers.
THEOREM Exclusive == ASSUME QueueAssumption, TimelyHeartbeats PROVE Spec => []OneExecutor
<1>1. TimelyInv => OneExecutor
  BY DEF TimelyInv
<1> QED
  BY <1>1, TimelyInvariant, PTL

\* With timely heartbeats no executed job is put back in the queue.
THEOREM NoLiveReclaim ==
    ASSUME QueueAssumption, TimelyHeartbeats PROVE Spec => []LiveJobNotReclaimed
<1>1. TimelyInv => LiveJobNotReclaimed
  BY DEF TimelyInv, ExecutedIsLive, LiveJobNotReclaimed
<1> QED
  BY <1>1, TimelyInvariant, PTL

\* With timely heartbeats no case with a stored result is executed again,
\* whatever crashes come in between.
THEOREM NoRepeatedWork == ASSUME QueueAssumption, TimelyHeartbeats PROVE Spec => []NoRework
<1>1. TimelyInv => NoRework
  <2>1. SUFFICES ASSUME TimelyInv, NEW w \in Workers, NEW c \in batch[w]
                 PROVE  c \notin results[job[w]]
    BY DEF NoRework
  <2>2. item[job[w]][c] = "running" /\ pc[w] \in {"beat", "batch"}
    BY <2>1 DEF TimelyInv, BatchRuns
  <2>3. job[w] \in Jobs
    BY <2>1, <2>2 DEF TimelyInv, LateInv, TypeOK
  <2> QED
    BY <2>1, <2>2, <2>3 DEF TimelyInv, ResultOnlySucceeded
<1> QED
  BY <1>1, TimelyInvariant, PTL

\* With timely heartbeats a run that reports success has a result of every case.
THEOREM SuccessIsComplete ==
    ASSUME QueueAssumption, TimelyHeartbeats PROVE Spec => []SucceededRunComplete
<1>1. TimelyInv => SucceededRunComplete
  <2>1. SUFFICES ASSUME TimelyInv, NEW j \in Jobs, runStatus[j] = "succeeded"
                 PROVE  (\A c \in Cases : item[j][c] = "succeeded") /\ results[j] = Cases
    BY DEF SucceededRunComplete
  <2>2. jobStatus[j] = "succeeded"
    BY <2>1 DEF TimelyInv, LateInv, RunTracksJob
  <2>3. \A c \in Cases : item[j][c] = "succeeded"
    BY <2>1, <2>2 DEF TimelyInv, SucceededJobComplete
  <2>4. results[j] \subseteq Cases /\ \A c \in Cases : c \in results[j]
    BY <2>1, <2>3 DEF TimelyInv, LateInv, TypeOK, SucceededHasResult
  <2> QED
    BY <2>3, <2>4
<1> QED
  BY <1>1, TimelyInvariant, PTL

\* With timely heartbeats the metrics of a run cover all results it has.
THEOREM MetricsComplete ==
    ASSUME QueueAssumption, TimelyHeartbeats PROVE Spec => []MetricsCoverResults
<1>1. TimelyInv => MetricsCoverResults
  BY DEF TimelyInv, MetricsOfFinished, MetricsCoverResults
<1> QED
  BY <1>1, TimelyInvariant, PTL

\* With timely heartbeats a finished job leaves running items only when its
\* configuration was rejected.
THEOREM OrphanCause ==
    ASSUME QueueAssumption, TimelyHeartbeats PROVE Spec => []OrphansOnlyByConfig
<1>1. TimelyInv => OrphansOnlyByConfig
  BY DEF TimelyInv
<1> QED
  BY <1>1, TimelyInvariant, PTL

\* With timely heartbeats execute_job never meets the inconsistent queue its
\* last check guards against.
THEOREM NoInconsistentEnd ==
    ASSUME QueueAssumption, TimelyHeartbeats PROVE Spec => []FallbackUnreached
<1>1. TimelyInv => FallbackUnreached
  BY DEF TimelyInv
<1> QED
  BY <1>1, TimelyInvariant, PTL

\* With timely heartbeats a stored result belongs to an item that succeeded.
THEOREM ResultsSettled ==
    ASSUME QueueAssumption, TimelyHeartbeats PROVE Spec => []ResultOnlySucceeded
<1>1. TimelyInv => ResultOnlySucceeded
  BY DEF TimelyInv
<1> QED
  BY <1>1, TimelyInvariant, PTL

\* A transaction that finishes an item counts the items of its job anew.
CountStep(j) ==
    \/ progress'[j] = item'[j]
    \/ /\ progress'[j] = progress[j]
       /\ \A c \in Cases : \/ item'[j][c] = item[j][c]
                           \/ item[j][c] \in Unfinished /\ item'[j][c] \in Unfinished

LEMMA CountSteps ==
    ASSUME TypeOK, [Next]_vars, NEW j \in Jobs PROVE CountStep(j)
<1> USE DEF CountStep, vars, dbVars, workerVars, runTable, itemTable, local
<1>1. ASSUME NEW i \in Jobs, CreateRunWithJob(i) PROVE CountStep(j)
  BY <1>1 DEF TypeOK, CreateRunWithJob
<1>2. ASSUME NEW i \in Jobs, PROGRESS_SQL(i), \A k \in Jobs \ {i} : item'[k] = item[k]
      PROVE  CountStep(j)
  BY <1>2 DEF TypeOK, PROGRESS_SQL
<1>3. ASSUME NEW w \in Workers, ResumeItems(w) \/ AbortReleases(w) \/ ItemStep(w)
      PROVE  CountStep(j)
  <2> USE DEF ResumeItems, AbortReleases, ItemStep, CompleteItem, RetryItem, DropItem, AbortItem
  <2>1. job[w] \in Jobs
    BY <1>3 DEF TypeOK
  <2>2. PROGRESS_SQL(job[w]) /\ \A k \in Jobs \ {job[w]} : item'[k] = item[k]
    BY <1>3, <2>1 DEF TypeOK, release_running_items, Released, complete_item, fail_item
  <2> QED
    BY <2>1, <2>2, <1>2
<1>4. ASSUME NEW i \in Jobs, reclaim_stale_jobs(i) PROVE CountStep(j)
  <2>1. PROGRESS_SQL(i) /\ \A k \in Jobs \ {i} : item'[k] = item[k]
    BY <1>4 DEF TypeOK, reclaim_stale_jobs, Released
  <2> QED
    BY <2>1, <1>2
<1>5. ASSUME NEW w \in Workers, ClaimItems(w) PROVE CountStep(j)
  <2>1. PICK S \in SUBSET Pending(job[w]) :
            item' = [item EXCEPT ![job[w]] =
                        [c \in Cases |-> IF c \in S THEN "running" ELSE @[c]]]
    BY <1>5 DEF ClaimItems, Claimable
  <2> QED
    BY <1>5, <2>1 DEF TypeOK, ClaimItems, Pending
<1>6. CASE UNCHANGED <<item, progress>>
  BY <1>6
<1> QED
  BY <1>1, <1>3, <1>4, <1>5, <1>6
  DEF Next, Work, ExecuteJob, Environment, ClaimNextJob, ClaimJobById, PollReclaims,
      claim_job, RejectConfig, IndexReady, IndexFails, Heartbeat, LoopEnds, ReleaseJob,
      ReadProgress, FinishJob, AbortFinishes, AggregateMetrics, UpdateMetrics,
      HeartbeatExpires, RequeueByHand, Crash, RequestStop, Start

\* jobs.progress never lags in which items are finished. (Timely heartbeats stand
\* for transactions that do not overlap on one job: PROGRESS_SQL is one step here.)
THEOREM CountsExact ==
    ASSUME QueueAssumption, TimelyHeartbeats PROVE Spec => []FinishedCountsExact
<1>1. Init => FinishedCountsExact
  BY DEF Init, FinishedCountsExact
<1>2. TimelyInv /\ FinishedCountsExact /\ [Next]_vars => FinishedCountsExact'
  <2> SUFFICES ASSUME TimelyInv, FinishedCountsExact, [Next]_vars,
                      NEW j \in Jobs, NEW c \in Cases, NEW s \in Finished
               PROVE  progress'[j][c] = s <=> item'[j][c] = s
    BY DEF FinishedCountsExact
  <2>1. CountStep(j)
    BY CountSteps DEF TimelyInv, LateInv
  <2>2. progress[j][c] = s <=> item[j][c] = s
    BY DEF FinishedCountsExact
  <2> QED
    BY <2>1, <2>2 DEF CountStep
<1> QED
  BY <1>1, <1>2, TimelyInvariant, PTL DEF Spec

-----------------------------------------------------------------------------
(***************************************************************************)
(* EvalQueue implements Evaluation.                                        *)
(***************************************************************************)
\* A step that neither settles an item nor concludes a run.
LEMMA PromiseStutters ==
    ASSUME \A j \in Jobs, c \in Cases : Outcome(item'[j][c]) = Outcome(item[j][c]),
           \A j \in Jobs : \/ runStatus'[j] = runStatus[j]
                           \/ runStatus[j] \notin Finished /\ runStatus'[j] \notin Finished
    PROVE  UNCHANGED <<outcomes, verdicts>>
BY DEF outcomes, verdicts

\* A run whose job runs has no verdict yet.
LEMMA NoVerdictYet ==
    ASSUME RunTracksJob, NEW j \in Jobs, jobStatus[j] \in {"none", "pending", "running"}
    PROVE  runStatus[j] \notin Finished /\ verdicts[j] = "none"
BY DEF RunTracksJob, verdicts

\* Settling an item settles its case.
LEMMA ItemSettles ==
    ASSUME TypeOK, NEW j \in Jobs, NEW c \in Cases, NEW s \in Finished,
           item[j][c] = "running", verdicts[j] = "none",
           item' = [item EXCEPT ![j][c] = s], UNCHANGED runStatus
    PROVE  Promise!Settle(j, c, Outcome(s))
<1>1. Outcome(s) \in {"done", "dead"}
  BY DEF Outcome
<1>2. outcomes[j][c] = "open"
  BY DEF outcomes, Outcome
<1>3. \A i \in Jobs, d \in Cases :
          item'[i][d] = IF i = j /\ d = c THEN s ELSE item[i][d]
  BY DEF TypeOK
<1>4. outcomes' = [outcomes EXCEPT ![j][c] = Outcome(s)]
  <2> DEFINE row(i) == [d \in Cases |-> Outcome(item[i][d])]
  <2>1. ASSUME NEW i \in Jobs, i # j PROVE row(i)' = row(i)
    BY <1>3, <2>1
  <2>2. row(j)' = [row(j) EXCEPT ![c] = Outcome(s)]
    <3>1. ASSUME NEW d \in Cases
          PROVE  Outcome(item'[j][d]) = IF d = c THEN Outcome(s) ELSE Outcome(item[j][d])
      <4>1. CASE d = c
        BY <1>3, <4>1
      <4>2. CASE d # c
        BY <1>3, <4>2
      <4> QED
        BY <4>1, <4>2
    <3> QED
      BY <3>1
  <2>3. outcomes = [i \in Jobs |-> row(i)] /\ outcomes' = [i \in Jobs |-> row(i)']
    BY DEF outcomes
  <2> HIDE DEF row
  <2> QED
    BY <2>1, <2>2, <2>3
<1>5. verdicts' = verdicts
  BY DEF verdicts
<1> QED
  BY <1>1, <1>2, <1>4, <1>5 DEF Promise!Settle

\* Ending a job concludes its run.
LEMMA FinishConcludes ==
    ASSUME TypeOK, NEW j \in Jobs, NEW s \in Finished, verdicts[j] = "none",
           s = "succeeded" => \A c \in Cases : item[j][c] = "succeeded",
           runStatus' = [runStatus EXCEPT ![j] = s], UNCHANGED item
    PROVE  Promise!Conclude(j, s)
<1>1. s = "succeeded" => \A c \in Cases : outcomes[j][c] = "done"
  BY DEF outcomes, Outcome
<1>2. verdicts' = [verdicts EXCEPT ![j] = s]
  BY DEF verdicts, TypeOK
<1>3. outcomes' = outcomes
  BY DEF outcomes
<1> QED
  BY <1>1, <1>2, <1>3 DEF Promise!Conclude

\* Every step of the queue is a step of Evaluation or changes nothing of it.
LEMMA PromiseStep ==
    ASSUME QueueAssumption, TimelyHeartbeats, TimelyInv, [Next]_vars
    PROVE  [Promise!Next]_<<outcomes, verdicts>>
<1> USE DEF vars, dbVars, workerVars, runTable, itemTable, local
<1>0. /\ TypeOK /\ RunTracksJob /\ ItemsOfSubmitted /\ ExecInv
      /\ \A w \in Workers : Holds(w)
  BY TimelyParts DEF LateInv
<1>1. \A w \in Workers : pc[w] \in Executing =>
          job[w] \in Jobs /\ jobStatus[job[w]] = "running" /\ verdicts[job[w]] = "none"
  BY <1>0, NoVerdictYet DEF TypeOK, Executing, ExecInv, ExecutedIsLive
<1>2. ASSUME NEW w \in Workers, ItemStep(w) PROVE [Promise!Next]_<<outcomes, verdicts>>
  <2>1. PICK c \in Cases : CompleteItem(w, c) \/ RetryItem(w, c) \/ DropItem(w, c) \/ AbortItem(w, c)
    BY <1>2 DEF ItemStep
  <2> USE DEF CompleteItem, RetryItem, DropItem, AbortItem
  <2>2. /\ job[w] \in Jobs /\ verdicts[job[w]] = "none"
        /\ item[job[w]][c] = "running"
    BY <1>0, <1>1, <2>1 DEF Executing, Holds
  <2>3. UNCHANGED runStatus
    BY <2>1
  <2>4. PICK s \in {"succeeded", "failed", "pending"} : item' = [item EXCEPT ![job[w]][c] = s]
    BY <2>1 DEF complete_item, fail_item
  <2>5. CASE s \in Finished
    <3>1. Promise!Settle(job[w], c, Outcome(s))
      BY <1>0, <2>2, <2>3, <2>4, <2>5, ItemSettles
    <3>2. Outcome(s) \in Promise!Outcomes
      BY <2>5 DEF Outcome, Promise!Outcomes
    <3> QED
      BY <2>2, <3>1, <3>2 DEF Promise!Next
  <2>6. CASE s = "pending"
    <3>1. \A j \in Jobs, d \in Cases :
              item'[j][d] = item[j][d] \/ (item[j][d] = "running" /\ item'[j][d] = "pending")
      BY <1>0, <2>2, <2>4, <2>6 DEF TypeOK
    <3> QED
      BY <2>3, <3>1, PromiseStutters DEF Outcome
  <2> QED
    BY <2>4, <2>5, <2>6
<1>3. ASSUME NEW w \in Workers,
             RejectConfig(w) \/ IndexFails(w) \/ AbortFinishes(w) \/ FinishJob(w)
      PROVE  [Promise!Next]_<<outcomes, verdicts>>
  <2> USE DEF RejectConfig, IndexFails, AbortFinishes, FinishJob
  <2>1. job[w] \in Jobs /\ verdicts[job[w]] = "none"
    BY <1>1, <1>3 DEF Executing
  <2>2. PICK s \in Finished, cause \in Causes : finish_job(job[w], s, cause)
    BY <1>3 DEF Verdict, Causes
  <2>3. UNCHANGED item
    BY <1>3
  <2>4. s = "succeeded" => \A c \in Cases : item[job[w]][c] = "succeeded"
    <3>1. TimelyInv'
      BY TimelyStep
    <3>2. jobStatus'[job[w]] = s
      BY <1>0, <2>1, <2>2 DEF TypeOK, finish_job
    <3> QED
      BY <2>1, <2>3, <3>1, <3>2 DEF TimelyInv, SucceededJobComplete
  <2>5. Promise!Conclude(job[w], s)
    BY <1>0, <2>1, <2>2, <2>3, <2>4, FinishConcludes DEF finish_job
  <2> QED
    BY <2>1, <2>5 DEF Promise!Next, Promise!Verdicts
<1>4. ASSUME \A w \in Workers :
                 /\ ~ItemStep(w) /\ ~RejectConfig(w) /\ ~IndexFails(w)
                 /\ ~AbortFinishes(w) /\ ~FinishJob(w)
      PROVE  UNCHANGED <<outcomes, verdicts>>
  <2>1. ASSUME NEW i \in Jobs, CreateRunWithJob(i) PROVE UNCHANGED <<outcomes, verdicts>>
    <3>1. \A j \in Jobs, c \in Cases :
              item'[j][c] = item[j][c] \/ (item[j][c] = "none" /\ item'[j][c] = "pending")
      BY <1>0, <2>1 DEF TypeOK, CreateRunWithJob, ItemsOfSubmitted
    <3>2. \A j \in Jobs : \/ runStatus'[j] = runStatus[j]
                          \/ runStatus[j] \notin Finished /\ runStatus'[j] \notin Finished
      BY <1>0, <2>1, NoVerdictYet DEF TypeOK, CreateRunWithJob
    <3> QED
      BY <3>1, <3>2, PromiseStutters DEF Outcome
  <2>2. ASSUME NEW w \in Workers, NEW i \in Jobs, claim_job(w, i)
        PROVE  UNCHANGED <<outcomes, verdicts>>
    BY <1>0, <2>2, NoVerdictYet, PromiseStutters DEF TypeOK, claim_job
  <2>3. ASSUME NEW i \in Jobs, item' = Released(i), UNCHANGED runStatus
        PROVE  UNCHANGED <<outcomes, verdicts>>
    <3>1. \A j \in Jobs, c \in Cases :
              item'[j][c] = item[j][c] \/ (item[j][c] = "running" /\ item'[j][c] = "pending")
      BY <1>0, <2>3 DEF TypeOK, Released
    <3> QED
      BY <2>3, <3>1, PromiseStutters DEF Outcome
  <2>4. ASSUME NEW w \in Workers, ResumeItems(w) \/ AbortReleases(w)
        PROVE  UNCHANGED <<outcomes, verdicts>>
    BY <1>1, <2>3, <2>4 DEF ResumeItems, AbortReleases, release_running_items, Executing
  <2>5. ASSUME NEW w \in Workers, ClaimItems(w) PROVE UNCHANGED <<outcomes, verdicts>>
    <3>1. PICK S \in SUBSET Pending(job[w]) :
              item' = [item EXCEPT ![job[w]] =
                          [c \in Cases |-> IF c \in S THEN "running" ELSE @[c]]]
      BY <2>5 DEF ClaimItems, Claimable
    <3>2. \A j \in Jobs, c \in Cases :
              item'[j][c] = item[j][c] \/ (item[j][c] = "pending" /\ item'[j][c] = "running")
      BY <1>0, <3>1 DEF TypeOK, Pending
    <3> QED
      BY <2>5, <3>2, PromiseStutters DEF ClaimItems, Outcome
  <2>6. CASE UNCHANGED <<item, runStatus>>
    BY <2>6, PromiseStutters
  <2> QED
    BY <1>4, <2>1, <2>2, <2>3, <2>4, <2>5, <2>6
    DEF Next, Work, ExecuteJob, Environment, ClaimNextJob, ClaimJobById, PollReclaims,
        IndexReady, Heartbeat, LoopEnds, ReleaseJob, ReadProgress, AggregateMetrics,
        UpdateMetrics, reclaim_stale_jobs, HeartbeatExpires, RequeueByHand, Crash,
        RequestStop, Start
<1> QED
  BY <1>2, <1>3, <1>4

\* With timely heartbeats the queue keeps what a run promises its reader.
THEOREM Implements == ASSUME QueueAssumption, TimelyHeartbeats PROVE Spec => KeepsPromise
<1>1. Init => Promise!Init
  BY DEF Init, Promise!Init, outcomes, verdicts, Outcome
<1>2. TimelyInv /\ [Next]_vars => [Promise!Next]_<<outcomes, verdicts>>
  BY PromiseStep
<1>3. Promise!promise = <<outcomes, verdicts>>
  BY DEF Promise!promise
<1> QED
  BY <1>1, <1>2, <1>3, TimelyInvariant, PTL DEF Spec, KeepsPromise, Promise!Spec, Promise!promise
=============================================================================
