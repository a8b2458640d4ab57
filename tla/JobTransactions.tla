--------------------------- MODULE JobTransactions ---------------------------
(***************************************************************************)
(* The transactions of one job, statement by statement.  EvalQueue takes a  *)
(* transaction for one step; here a statement sees what was committed when   *)
(* it began (READ COMMITTED) and waits for the row locks of other            *)
(* transactions.  A transaction that PostgreSQL ends to break a deadlock      *)
(* ends its process, too: nothing in run_forever catches the error.          *)
(*                                                                         *)
(* Left out: the insert into case_results, whose lock only other completions *)
(* of the same item wait for, and they wait for the item as well; the table   *)
(* runs, always written after the row of its job.                            *)
(***************************************************************************)
EXTENDS Integers, FiniteSets

CONSTANTS
    Processes,   \* workers, or requests of the server
    Items        \* the items of the job by id; a statement visits them in this order

\* Reclaim and release scan the items of one job, finitely many.
JobAssumption == Items \subseteq Nat /\ IsFiniteSet(Items)

VARIABLES
    item,        \* job_items.status, as committed
    jobStatus, progress,
    executing,   \* the processes that execute the job
    held,        \* the claimed items of each, not settled yet
    tx,          \* the transaction of each
    shared       \* history: two processes have executed the job at once

jobVars == <<item, jobStatus, progress, executing, held, tx, shared>>

\* What a transaction does, its next statement, the rows this statement still has
\* to visit, what is written, what PROGRESS_SQL counted, and the lock on the job.
NoTx == [op |-> "none", pc |-> "none", todo |-> {}, writes |-> <<>>,
         seen |-> <<>>, job |-> FALSE]

JobInit ==
    /\ item = [i \in Items |-> "pending"]
    /\ jobStatus = "pending"
    /\ progress = [s \in {"succeeded", "failed"} |-> 0]
    /\ executing = {}
    /\ held = [p \in Processes |-> {}]
    /\ tx = [p \in Processes |-> NoTx]
    /\ shared = FALSE

-----------------------------------------------------------------------------
(* Locks *)

ItemFree(p, i) == \A q \in Processes \ {p} : i \notin DOMAIN tx[q].writes
JobFree(p)     == \A q \in Processes \ {p} : ~tx[q].job

\* The row the statement of p visits next.
Visits(p, i) ==
    /\ tx[p].pc = "items" /\ i \in tx[p].todo
    /\ \A j \in tx[p].todo : i <= j

Awaits(p, q) ==
    /\ p # q
    /\ \/ \E i \in DOMAIN tx[q].writes : Visits(p, i)
       \/ tx[p].pc = "progress" /\ tx[q].job

\* Each of these waits for another one of them.
Deadlocked(P) == P # {} /\ \A p \in P : \E q \in P : Awaits(p, q)

\* Mutant: complete_item refreshes the heartbeat before it writes the item.
LocksJobFirst_Complete(op) == op \in {"reclaim", "complete"}

\* reclaim_stale_jobs selects the job FOR UPDATE before its items.
LocksJobFirst(op) == op = "reclaim"

BeginsTx(p, op, pc, todo) ==
    tx' = [tx EXCEPT ![p] =
              [NoTx EXCEPT !.op = op, !.pc = pc, !.todo = todo, !.job = LocksJobFirst(op)]]

Moves(p, t) ==
    /\ tx' = [tx EXCEPT ![p] = t]
    /\ UNCHANGED <<item, jobStatus, progress, executing, held, shared>>

-----------------------------------------------------------------------------
(* What a process begins *)

\* claim_job; the executor's first transaction releases the items left running.
ClaimJob(p) ==
    /\ p \notin executing /\ tx[p] = NoTx
    /\ jobStatus = "pending" /\ JobFree(p)
    /\ jobStatus' = "running"
    /\ executing' = executing \cup {p}
    /\ shared' = (shared \/ executing # {})
    /\ BeginsTx(p, "release", "scan", {})
    /\ UNCHANGED <<item, progress, held>>

Claimable(p) == {i \in Items : item[i] = "pending" /\ ItemFree(p, i)}

\* One statement with SKIP LOCKED.
claim_job_items(p) ==
    /\ p \in executing /\ tx[p] = NoTx /\ held[p] = {}
    /\ Claimable(p) # {}
    /\ item' = [i \in Items |-> IF i \in Claimable(p) THEN "running" ELSE item[i]]
    /\ held' = [held EXCEPT ![p] = Claimable(p)]
    /\ UNCHANGED <<jobStatus, progress, executing, tx, shared>>

\* complete_item or fail_item.
Settle(p, op) ==
    /\ p \in executing /\ tx[p] = NoTx
    /\ \E i \in held[p] :
          /\ held' = [held EXCEPT ![p] = @ \ {i}]
          /\ JobFree(p) \/ ~LocksJobFirst(op)
          /\ BeginsTx(p, op, "items", {i})
    /\ UNCHANGED <<item, jobStatus, progress, executing, shared>>

\* Nothing is left to claim.
finish_job(p) ==
    /\ p \in executing /\ tx[p] = NoTx /\ held[p] = {}
    /\ Claimable(p) = {} /\ JobFree(p)
    /\ jobStatus' = "finished"
    /\ executing' = executing \ {p}
    /\ UNCHANGED <<item, progress, held, tx, shared>>

\* The heartbeat may be too old although a process executes the job.
reclaim_stale_jobs(p) ==
    /\ p \notin executing /\ tx[p] = NoTx
    /\ jobStatus = "running" /\ JobFree(p)
    /\ BeginsTx(p, "reclaim", "scan", {})
    /\ UNCHANGED <<item, jobStatus, progress, executing, held, shared>>

-----------------------------------------------------------------------------
(* The statements of a transaction *)

\* UPDATE job_items ... WHERE status = 'running' begins.
Scan(p) ==
    /\ tx[p].pc = "scan"
    /\ Moves(p, [tx[p] EXCEPT !.pc = "items",
                    !.todo = {i \in Items : item[i] = "running"}])

\* A row gets a new version.
Write(writes, i, s) == [j \in DOMAIN writes \cup {i} |-> IF j = i THEN s ELSE writes[j]]

NewStatus(op) ==
    IF op = "complete" THEN {"succeeded"}
    ELSE IF op = "fail" THEN {"pending", "failed"}
    ELSE {"pending"}

\* A row is locked and written; a status that was asked for is looked at again.
WriteItem(p) ==
    \E i \in tx[p].todo :
        LET t == tx[p]
            rest == [t EXCEPT !.todo = @ \ {i}]
        IN  /\ Visits(p, i) /\ ItemFree(p, i)
            /\ IF t.op \in {"release", "reclaim"} /\ item[i] # "running"
               THEN Moves(p, rest)
               ELSE \E s \in NewStatus(t.op) :
                        Moves(p, [rest EXCEPT !.writes = Write(@, i, s)])

CountIn(statuses) ==
    [s \in {"succeeded", "failed"} |-> Cardinality({i \in Items : statuses[i] = s})]

\* The items as p's transaction leaves them.
Written(p) ==
    [i \in Items |-> IF i \in DOMAIN tx[p].writes THEN tx[p].writes[i] ELSE item[i]]

\* What a statement of p sees: committed rows, and its own.
Snapshot(p) == Written(p)

\* Mutant: PROGRESS_SQL runs on another connection than the write before it.
CountItems_OtherConnection(p) ==
    /\ tx[p].pc = "items" /\ tx[p].todo = {}
    /\ Moves(p, [tx[p] EXCEPT !.pc = "progress", !.seen = CountIn(item)])

\* PROGRESS_SQL counts first, and then waits for the row of the job.
CountItems(p) ==
    /\ tx[p].pc = "items" /\ tx[p].todo = {}
    /\ Moves(p, [tx[p] EXCEPT !.pc = "progress", !.seen = CountIn(Snapshot(p))])

WriteProgress(p) ==
    /\ tx[p].pc = "progress" /\ JobFree(p)
    /\ Moves(p, [tx[p] EXCEPT !.pc = "commit", !.job = TRUE])

Commit(p) ==
    /\ tx[p].pc = "commit"
    /\ item' = Written(p)
    /\ progress' = tx[p].seen
    /\ jobStatus' = IF tx[p].op = "reclaim" THEN "pending" ELSE jobStatus
    /\ tx' = [tx EXCEPT ![p] = NoTx]
    /\ UNCHANGED <<executing, held, shared>>

\* The process ends and its transaction is rolled back: it crashed, or was
\* chosen to break a deadlock.
ProcessCrash(p) ==
    /\ p \in executing \/ tx[p] # NoTx
    /\ executing' = executing \ {p}
    /\ held' = [held EXCEPT ![p] = {}]
    /\ tx' = [tx EXCEPT ![p] = NoTx]
    /\ UNCHANGED <<item, jobStatus, progress, shared>>

\* Everything is done.
JobDone == jobStatus = "finished" /\ executing = {} /\ UNCHANGED jobVars

JobNext ==
    \/ \E p \in Processes :
          \/ ClaimJob(p) \/ claim_job_items(p) \/ finish_job(p) \/ reclaim_stale_jobs(p)
          \/ Settle(p, "complete") \/ Settle(p, "fail")
          \/ Scan(p) \/ WriteItem(p) \/ CountItems(p) \/ WriteProgress(p) \/ Commit(p)
          \/ ProcessCrash(p)
    \/ JobDone

JobSpec == JobInit /\ [][JobNext]_jobVars

-----------------------------------------------------------------------------
(* Properties *)

JobTypeOK ==
    /\ \A i \in Items : item[i] \in {"pending", "running", "succeeded", "failed"}
    /\ jobStatus \in {"pending", "running", "finished"}
    /\ \A p \in Processes : held[p] \subseteq Items /\ DOMAIN tx[p].writes \subseteq Items

\* As long as one process at a time executes the job, progress shows the
\* finished items exactly whenever no transaction is under way, although
\* reclaims overlap with it statement by statement.  (docs/reliability.md:40-41
\* has it without the condition: two executors that settle two items at once
\* both count before either is committed, and the count written last is short.)
ProgressDriftsOnlyShared ==
    (~shared /\ \A p \in Processes : tx[p] = NoTx) => progress = CountIn(item)

\* Items before jobs, and rows in one order: only a reclaim, which locks the
\* job first, can be part of a deadlock.  (queue.py:326-345, 142-199.)
OnlyReclaimDeadlocks ==
    \A P \in SUBSET Processes :
        Deadlocked(P) => \E p \in P : tx[p].op = "reclaim"
=============================================================================
