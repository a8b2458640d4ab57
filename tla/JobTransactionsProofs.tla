------------------------ MODULE JobTransactionsProofs ------------------------
(***************************************************************************)
(* For any number of processes and items: what row locks and READ COMMITTED *)
(* counts do to the transactions of one job.                                 *)
(***************************************************************************)
EXTENDS JobTransactions, FiniteSetTheorems, WellFoundedInduction, TLAPS

ItemStatus == {"pending", "running", "succeeded", "failed"}

Seen == {<<>>} \cup {CountIn(s) : s \in [Items -> ItemStatus]}

\* What a transaction has written so far.
Versions == UNION {[D -> ItemStatus] : D \in SUBSET Items}

Tx == [op : {"none", "release", "reclaim", "complete", "fail"},
       pc : {"none", "scan", "items", "progress", "commit"},
       todo : SUBSET Items,
       writes : Versions,
       seen : Seen,
       job : BOOLEAN]

Types ==
    /\ item \in [Items -> ItemStatus]
    /\ tx \in [Processes -> Tx]
    /\ held \in [Processes -> SUBSET Items]
    /\ executing \subseteq Processes
    /\ shared \in BOOLEAN

-----------------------------------------------------------------------------
(* Locks *)

\* A transaction that commits has the row of the job, and only a reclaim takes it
\* before; the items still to be visited come after those that are written.
Own(t) ==
    /\ t.op = "none" => t.pc = "none"
    /\ t.pc = "commit" => t.job
    /\ t.job => t.pc = "commit" \/ t.op = "reclaim"
    /\ t.op = "reclaim" => t.job
    /\ t.pc \in {"none", "scan"} => DOMAIN t.writes = {}
    /\ \A i \in DOMAIN t.writes, j \in t.todo : i < j

\* One transaction at a time has a row.
Exclusive ==
    \A p, q \in Processes : p # q =>
        /\ ~(tx[p].job /\ tx[q].job)
        /\ DOMAIN tx[p].writes \cap DOMAIN tx[q].writes = {}

LockInv == Types /\ (\A p \in Processes : Own(tx[p])) /\ Exclusive

LEMMA VersionsIs ==
    \A f : f \in Versions <=> DOMAIN f \subseteq Items /\ f \in [DOMAIN f -> ItemStatus]
BY DEF Versions

LEMMA NoTxType ==
    /\ NoTx \in Tx
    /\ DOMAIN NoTx.writes = {}
    /\ NoTx.op = "none" /\ NoTx.pc = "none" /\ NoTx.todo = {} /\ NoTx.job = FALSE
<1>1. DOMAIN <<>> = {} /\ <<>> \in [{} -> ItemStatus]
    OBVIOUS
<1>2. <<>> \in Versions
    BY <1>1, VersionsIs
<1> QED
    BY <1>1, <1>2 DEF NoTx, Tx, Seen

LEMMA NoTxOwn == Own(NoTx)
BY NoTxType DEF Own

LEMMA InitLocks == JobInit => LockInv
<1> SUFFICES ASSUME JobInit PROVE LockInv
    OBVIOUS
<1>1. Types
    BY NoTxType DEF JobInit, Types, ItemStatus
<1>2. \A p \in Processes : tx[p] = NoTx
    BY DEF JobInit
<1> QED
    BY <1>1, <1>2, NoTxType, NoTxOwn DEF LockInv, Exclusive

\* What a transaction holds after its first step.
Started(op, pc, todo) ==
    [NoTx EXCEPT !.op = op, !.pc = pc, !.todo = todo, !.job = LocksJobFirst(op)]

LEMMA StartedFields ==
    ASSUME NEW op \in {"release", "reclaim", "complete", "fail"},
           NEW pc \in {"scan", "items"}, NEW todo \in SUBSET Items
    PROVE  /\ Started(op, pc, todo) \in Tx
           /\ Started(op, pc, todo).op = op
           /\ Started(op, pc, todo).pc = pc
           /\ Started(op, pc, todo).todo = todo
           /\ DOMAIN Started(op, pc, todo).writes = {}
           /\ Started(op, pc, todo).job = (op = "reclaim")
<1>1. LocksJobFirst(op) = (op = "reclaim") /\ LocksJobFirst(op) \in BOOLEAN
    BY DEF LocksJobFirst
<1>2. \A t \in Tx, b \in BOOLEAN :
        LET u == [t EXCEPT !.op = op, !.pc = pc, !.todo = todo, !.job = b] IN
        u \in Tx /\ u.op = op /\ u.pc = pc /\ u.todo = todo /\ u.job = b /\ u.writes = t.writes
    BY DEF Tx
<1> QED
    BY <1>1, <1>2, NoTxType DEF Started

LEMMA WriteType ==
    ASSUME NEW f \in Versions, NEW i \in Items, NEW s \in ItemStatus
    PROVE  /\ Write(f, i, s) \in Versions
           /\ DOMAIN Write(f, i, s) = DOMAIN f \cup {i}
           /\ Write(f, i, s)[i] = s
           /\ \A j \in DOMAIN f \ {i} : Write(f, i, s)[j] = f[j]
<1>1. DOMAIN f \subseteq Items /\ f \in [DOMAIN f -> ItemStatus]
    BY VersionsIs
<1>2. Write(f, i, s) \in [DOMAIN f \cup {i} -> ItemStatus]
    BY <1>1 DEF Write
<1> QED
    BY <1>1, <1>2, VersionsIs DEF Write

LEMMA WrittenType ==
    ASSUME Types, NEW p \in Processes
    PROVE  /\ Written(p) \in [Items -> ItemStatus]
           /\ tx[p].writes \in Versions /\ DOMAIN tx[p].writes \subseteq Items
           /\ \A i \in DOMAIN tx[p].writes : tx[p].writes[i] \in ItemStatus
<1>1. tx[p] \in Tx /\ tx[p].writes \in Versions
    BY DEF Types, Tx
<1> QED
    BY <1>1, VersionsIs DEF Types, Written

\* Process p moves on to t: the locks are in order if t is, and p takes free rows.
LEMMA LockMove ==
    ASSUME LockInv, NEW p \in Processes, NEW t \in Tx, Own(t),
           t.job => JobFree(p) \/ tx[p].job,
           \A i \in DOMAIN t.writes : i \in DOMAIN tx[p].writes \/ ItemFree(p, i),
           tx' = [tx EXCEPT ![p] = t]
    PROVE  /\ tx' \in [Processes -> Tx]
           /\ \A q \in Processes : Own(tx'[q])
           /\ Exclusive'
<1>1. \A q \in Processes : tx'[q] = IF q = p THEN t ELSE tx[q]
    BY DEF LockInv, Types
<1>2. tx' \in [Processes -> Tx]
    BY DEF LockInv, Types
<1>3. \A q \in Processes : Own(tx'[q])
    BY <1>1 DEF LockInv
<1>4. ASSUME NEW q \in Processes \ {p}
      PROVE  ~(t.job /\ tx[q].job) /\ DOMAIN t.writes \cap DOMAIN tx[q].writes = {}
    BY <1>4 DEF LockInv, Exclusive, JobFree, ItemFree
<1> QED
    BY <1>1, <1>2, <1>3, <1>4 DEF LockInv, Exclusive

\* One step of a transaction, and what it leaves of it.
LEMMA ScanTx ==
    ASSUME LockInv, NEW p \in Processes, Scan(p)
    PROVE  \E t \in Tx : /\ tx' = [tx EXCEPT ![p] = t] /\ Own(t)
                         /\ tx[p].pc = "scan" /\ t.pc = "items"
                         /\ t.op = tx[p].op /\ t.job = tx[p].job
                         /\ t.todo = {i \in Items : item[i] = "running"}
                         /\ DOMAIN t.writes = {}
<1> DEFINE todo == {i \in Items : item[i] = "running"}
           t == [tx[p] EXCEPT !.pc = "items", !.todo = todo]
<1>1. tx[p] \in Tx /\ Own(tx[p]) /\ tx[p].pc = "scan" /\ todo \in SUBSET Items
    BY DEF LockInv, Types, Scan
<1>2. /\ t \in Tx /\ t.pc = "items" /\ t.op = tx[p].op /\ t.job = tx[p].job
      /\ t.writes = tx[p].writes /\ t.todo = todo
    BY <1>1 DEF Tx
<1>3. tx' = [tx EXCEPT ![p] = t]
    BY DEF Scan, Moves
<1> HIDE DEF t
<1>4. Own(t) /\ DOMAIN t.writes = {}
    BY <1>1, <1>2 DEF Own
<1> QED
    BY <1>1, <1>2, <1>3, <1>4

LEMMA WriteItemTx ==
    ASSUME JobAssumption, LockInv, NEW p \in Processes, WriteItem(p)
    PROVE  \E t \in Tx, i \in Items :
              /\ tx' = [tx EXCEPT ![p] = t] /\ Own(t)
              /\ tx[p].pc = "items" /\ t.pc = "items" /\ t.op = tx[p].op /\ t.job = tx[p].job
              /\ ItemFree(p, i) /\ i \in tx[p].todo /\ t.todo = tx[p].todo \ {i}
              /\ \/ /\ t.writes = tx[p].writes
                    /\ t.op \in {"release", "reclaim"} /\ item[i] # "running"
                 \/ /\ t.writes[i] \in NewStatus(t.op)
                    /\ DOMAIN t.writes = DOMAIN tx[p].writes \cup {i}
                    /\ \A j \in DOMAIN tx[p].writes \ {i} : t.writes[j] = tx[p].writes[j]
                    /\ t.op \in {"release", "reclaim"} =>
                          item[i] = "running" /\ t.writes[i] = "pending"
<1> DEFINE Step(t, i) ==
              /\ tx' = [tx EXCEPT ![p] = t] /\ Own(t)
              /\ tx[p].pc = "items" /\ t.pc = "items" /\ t.op = tx[p].op /\ t.job = tx[p].job
              /\ ItemFree(p, i) /\ i \in tx[p].todo /\ t.todo = tx[p].todo \ {i}
              /\ \/ /\ t.writes = tx[p].writes
                    /\ t.op \in {"release", "reclaim"} /\ item[i] # "running"
                 \/ /\ t.writes[i] \in NewStatus(t.op)
                    /\ DOMAIN t.writes = DOMAIN tx[p].writes \cup {i}
                    /\ \A j \in DOMAIN tx[p].writes \ {i} : t.writes[j] = tx[p].writes[j]
                    /\ t.op \in {"release", "reclaim"} =>
                          item[i] = "running" /\ t.writes[i] = "pending"
<1>1. PICK i \in tx[p].todo :
        /\ Visits(p, i) /\ ItemFree(p, i)
        /\ LET rest == [tx[p] EXCEPT !.todo = @ \ {i}] IN
           IF tx[p].op \in {"release", "reclaim"} /\ item[i] # "running"
           THEN Moves(p, rest)
           ELSE \E s \in NewStatus(tx[p].op) :
                    Moves(p, [rest EXCEPT !.writes = Write(@, i, s)])
    BY DEF WriteItem
<1> DEFINE rest == [tx[p] EXCEPT !.todo = @ \ {i}]
<1>2. tx[p] \in Tx /\ Own(tx[p]) /\ i \in Items /\ tx[p].todo \subseteq Items /\ Items \subseteq Nat
    BY DEF LockInv, Types, Tx, JobAssumption
<1>3. tx[p].pc = "items" /\ ItemFree(p, i) /\ \A j \in tx[p].todo : i <= j
    BY <1>1 DEF Visits
<1>4. /\ rest \in Tx /\ rest.pc = tx[p].pc /\ rest.op = tx[p].op /\ rest.job = tx[p].job
      /\ rest.writes = tx[p].writes /\ rest.todo = tx[p].todo \ {i}
    BY <1>2 DEF Tx
<1> HIDE DEF rest
<1>8. \A j \in tx[p].todo \ {i} : i < j
    <2> SUFFICES ASSUME NEW j \in tx[p].todo, j # i PROVE i < j
        OBVIOUS
    <2>1. i \in Nat /\ j \in Nat /\ i <= j
        BY <1>2, <1>3
    <2> QED
        BY <2>1
<1>5. ASSUME tx' = [tx EXCEPT ![p] = rest], tx[p].op \in {"release", "reclaim"},
             item[i] # "running"
      PROVE  \E t \in Tx : Step(t, i)
    <2>1. Own(rest)
        BY <1>2, <1>3, <1>4 DEF Own
    <2> QED
        BY <1>2, <1>3, <1>4, <1>5, <2>1
<1>6. ASSUME NEW s \in NewStatus(tx[p].op),
             tx[p].op \in {"release", "reclaim"} => item[i] = "running",
             tx' = [tx EXCEPT ![p] = [rest EXCEPT !.writes = Write(@, i, s)]]
      PROVE  \E t \in Tx : Step(t, i)
    <2> DEFINE t == [rest EXCEPT !.writes = Write(@, i, s)]
    <2>1. s \in ItemStatus /\ (tx[p].op \in {"release", "reclaim"} => s = "pending")
        BY DEF NewStatus, ItemStatus
    <2>2. rest.writes \in Versions
        BY <1>4 DEF Tx
    <2>3. /\ t \in Tx /\ t.pc = tx[p].pc /\ t.op = tx[p].op /\ t.job = tx[p].job
          /\ t.writes = Write(tx[p].writes, i, s) /\ t.todo = tx[p].todo \ {i}
        BY <1>2, <1>4, <2>1, <2>2, WriteType DEF Tx
    <2>5. tx' = [tx EXCEPT ![p] = t]
        BY <1>6
    <2> HIDE DEF t
    <2>4. /\ DOMAIN t.writes = DOMAIN tx[p].writes \cup {i} /\ t.writes[i] = s
          /\ \A j \in DOMAIN tx[p].writes \ {i} : t.writes[j] = tx[p].writes[j]
        BY <1>2, <1>4, <2>1, <2>2, <2>3, WriteType
    <2>7. Own(t)
        BY <1>2, <1>3, <1>8, <2>3, <2>4 DEF Own
    <2> QED
        BY <1>2, <1>3, <1>6, <2>1, <2>3, <2>4, <2>5, <2>7
<1>7. \/ /\ tx' = [tx EXCEPT ![p] = rest]
         /\ tx[p].op \in {"release", "reclaim"} /\ item[i] # "running"
      \/ \E s \in NewStatus(tx[p].op) :
            /\ tx[p].op \in {"release", "reclaim"} => item[i] = "running"
            /\ tx' = [tx EXCEPT ![p] = [rest EXCEPT !.writes = Write(@, i, s)]]
    BY <1>1 DEF Moves, rest
<1> HIDE DEF Step
<1>10. \E t \in Tx : Step(t, i)
    BY <1>5, <1>6, <1>7
<1> QED
    BY <1>2, <1>10 DEF Step

LEMMA CountItemsTx ==
    ASSUME LockInv, NEW p \in Processes, CountItems(p)
    PROVE  \E t \in Tx : /\ tx' = [tx EXCEPT ![p] = t] /\ Own(t)
                         /\ tx[p].pc = "items" /\ tx[p].todo = {}
                         /\ t.pc = "progress" /\ t.todo = tx[p].todo
                         /\ t.op = tx[p].op /\ t.job = tx[p].job /\ t.writes = tx[p].writes
                         /\ t.seen = CountIn(Written(p))
<1> DEFINE t == [tx[p] EXCEPT !.pc = "progress", !.seen = CountIn(Written(p))]
<1>1. tx[p] \in Tx /\ Own(tx[p]) /\ tx[p].pc = "items" /\ tx[p].todo = {}
    BY DEF LockInv, Types, CountItems
<1>2. CountIn(Written(p)) \in Seen
    BY WrittenType DEF Seen, LockInv
<1>3. /\ t \in Tx /\ t.pc = "progress" /\ t.op = tx[p].op /\ t.job = tx[p].job
      /\ t.writes = tx[p].writes /\ t.todo = tx[p].todo /\ t.seen = CountIn(Written(p))
    BY <1>1, <1>2 DEF Tx
<1>4. tx' = [tx EXCEPT ![p] = t]
    BY DEF CountItems, Moves, Snapshot
<1> HIDE DEF t
<1>5. Own(t)
    BY <1>1, <1>3 DEF Own
<1> QED
    BY <1>1, <1>3, <1>4, <1>5

LEMMA WriteProgressTx ==
    ASSUME LockInv, NEW p \in Processes, WriteProgress(p)
    PROVE  \E t \in Tx : /\ tx' = [tx EXCEPT ![p] = t] /\ Own(t)
                         /\ tx[p].pc = "progress" /\ JobFree(p)
                         /\ t.pc = "commit" /\ t.todo = tx[p].todo
                         /\ t.op = tx[p].op /\ t.writes = tx[p].writes /\ t.seen = tx[p].seen
<1> DEFINE t == [tx[p] EXCEPT !.pc = "commit", !.job = TRUE]
<1>1. tx[p] \in Tx /\ Own(tx[p]) /\ tx[p].pc = "progress"
    BY DEF LockInv, Types, WriteProgress
<1>2. /\ t \in Tx /\ t.pc = "commit" /\ t.op = tx[p].op /\ t.job = TRUE
      /\ t.writes = tx[p].writes /\ t.todo = tx[p].todo /\ t.seen = tx[p].seen
    BY <1>1 DEF Tx
<1>3. tx' = [tx EXCEPT ![p] = t]
    BY DEF WriteProgress, Moves
<1> HIDE DEF t
<1>4. Own(t)
    BY <1>1, <1>2 DEF Own
<1> QED
    BY <1>1, <1>2, <1>3, <1>4 DEF WriteProgress

\* What a process begins holds no item yet.
LEMMA BeginTx ==
    ASSUME NEW p \in Processes,
           NEW op \in {"release", "reclaim", "complete", "fail"},
           NEW pc \in {"scan", "items"}, NEW todo \in SUBSET Items,
           BeginsTx(p, op, pc, todo)
    PROVE  /\ tx' = [tx EXCEPT ![p] = Started(op, pc, todo)]
           /\ Own(Started(op, pc, todo))
<1> DEFINE t == Started(op, pc, todo)
<1>1. tx' = [tx EXCEPT ![p] = t]
    BY DEF BeginsTx, Started
<1>2. /\ t \in Tx /\ t.op = op /\ t.pc = pc /\ DOMAIN t.writes = {}
      /\ t.job = (op = "reclaim")
    BY StartedFields
<1> HIDE DEF t
<1>3. Own(t)
    BY <1>2 DEF Own
<1> QED
    BY <1>1, <1>3 DEF t

-----------------------------------------------------------------------------
(* Counts *)

\* The executors of a job are the processes that release and settle its items; a
\* release or a reclaim puts back items that are running and stay so until then.
Executors ==
    /\ \A p \in Processes : tx[p].op \in {"release", "complete", "fail"} => p \in executing
    /\ ~shared => \A p, q \in executing : p = q
    /\ \A p \in Processes : tx[p].op \in {"release", "reclaim"} =>
          \A i \in DOMAIN tx[p].writes : item[i] = "running" /\ tx[p].writes[i] = "pending"

\* What PROGRESS_SQL counted is what the commit leaves, and so is progress.
CountsExact ==
    ~shared =>
        /\ progress = CountIn(item)
        /\ \A p \in Processes :
              tx[p].pc \in {"progress", "commit"} => tx[p].seen = CountIn(Written(p))

CountInv == LockInv /\ Executors /\ CountsExact

\* Counts depend only on which items have succeeded and which have failed.
LEMMA SameCount ==
    ASSUME NEW s, NEW t,
           \A i \in Items : /\ s[i] = "succeeded" <=> t[i] = "succeeded"
                            /\ s[i] = "failed" <=> t[i] = "failed"
    PROVE  CountIn(s) = CountIn(t)
<1>1. {i \in Items : s[i] = "succeeded"} = {i \in Items : t[i] = "succeeded"}
    OBVIOUS
<1>2. {i \in Items : s[i] = "failed"} = {i \in Items : t[i] = "failed"}
    OBVIOUS
<1>3. \A u \in {"succeeded", "failed"} :
          Cardinality({i \in Items : s[i] = u}) = Cardinality({i \in Items : t[i] = u})
    BY <1>1, <1>2
<1> QED
    BY <1>3 DEF CountIn

LEMMA InitCounts == JobInit => CountInv
<1> SUFFICES ASSUME JobInit PROVE CountInv
    OBVIOUS
<1>1. \A p \in Processes : tx[p] = NoTx
    BY DEF JobInit
<1>2. Executors
    BY <1>1, NoTxType DEF JobInit, Executors
<1>3. progress = CountIn(item)
    <2>1. \A s \in {"succeeded", "failed"} : {i \in Items : item[i] = s} = {}
        BY DEF JobInit
    <2>2. \A s \in {"succeeded", "failed"} : Cardinality({i \in Items : item[i] = s}) = 0
        BY <2>1, FS_EmptySet
    <2> QED
        BY <2>2 DEF JobInit, CountIn
<1>4. CountsExact
    BY <1>1, <1>3, NoTxType DEF CountsExact
<1> QED
    BY <1>2, <1>4, InitLocks DEF CountInv

\* Process p moves on to t and no row is committed: its own facts are those of t.
LEMMA CountMove ==
    ASSUME CountInv, NEW p \in Processes, NEW t \in Tx, Own(t),
           t.job => JobFree(p) \/ tx[p].job,
           \A i \in DOMAIN t.writes : i \in DOMAIN tx[p].writes \/ ItemFree(p, i),
           tx' = [tx EXCEPT ![p] = t],
           UNCHANGED item,
           held' \in [Processes -> SUBSET Items], executing' \subseteq Processes,
           shared' \in BOOLEAN, shared => shared',
           progress' = progress,
           executing \ {p} \subseteq executing',
           t.op \in {"release", "complete", "fail"} => p \in executing',
           ~shared' => \A q, r \in executing' : q = r,
           t.op \in {"release", "reclaim"} =>
               \A i \in DOMAIN t.writes : item[i] = "running" /\ t.writes[i] = "pending",
           ~shared' /\ t.pc \in {"progress", "commit"} => t.seen = CountIn(Written(p)')
    PROVE  CountInv'
<1>1. \A q \in Processes : tx'[q] = IF q = p THEN t ELSE tx[q]
    BY DEF CountInv, LockInv, Types
<1>2. LockInv'
    BY LockMove DEF CountInv, LockInv, Types
<1>3. Executors'
    BY <1>1 DEF CountInv, Executors
<1>4. \A q \in Processes \ {p} : Written(q)' = Written(q)
    BY <1>1 DEF Written
<1>5. CountsExact'
    BY <1>1, <1>4 DEF CountInv, CountsExact
<1> QED
    BY <1>2, <1>3, <1>5 DEF CountInv

\* No transaction moves: what else changes is not locked.
LEMMA CountStay ==
    ASSUME CountInv, NEW p \in Processes, tx[p] = NoTx, UNCHANGED <<tx, shared, progress>>,
           item' \in [Items -> ItemStatus], held' \in [Processes -> SUBSET Items],
           executing' \subseteq executing, executing \ {p} \subseteq executing',
           \A i \in Items : item'[i] = item[i]
                \/ /\ item[i] = "pending" /\ item'[i] = "running" /\ ItemFree(p, i)
    PROVE  CountInv'
<1>1. LockInv'
    BY DEF CountInv, LockInv, Types, Exclusive
<1>2. \A q \in Processes : \A i \in DOMAIN tx[q].writes : item'[i] = item[i]
    <2>1. \A i \in DOMAIN tx[p].writes : FALSE
        BY NoTxType
    <2> QED
        BY <2>1, WrittenType DEF CountInv, LockInv, ItemFree
<1>3. Executors'
    <2>1. tx[p].op = "none"
        BY NoTxType
    <2> QED
        BY <1>2, <2>1 DEF CountInv, Executors
<1>4. CountIn(item') = CountIn(item)
    <2>1. \A i \in Items : /\ item'[i] = "succeeded" <=> item[i] = "succeeded"
                           /\ item'[i] = "failed" <=> item[i] = "failed"
        OBVIOUS
    <2> QED
        BY <2>1, SameCount
<1>5. ASSUME NEW q \in Processes PROVE CountIn(Written(q)') = CountIn(Written(q))
    <2>1. \A i \in Items : /\ Written(q)'[i] = "succeeded" <=> Written(q)[i] = "succeeded"
                           /\ Written(q)'[i] = "failed" <=> Written(q)[i] = "failed"
        BY <1>2 DEF Written
    <2> QED
        BY <2>1, SameCount
<1>6. CountsExact'
    <2>1. CountIn(item)' = CountIn(item')
        BY DEF CountIn
    <2>2. \A q \in Processes : CountIn(Written(q))' = CountIn(Written(q)')
        BY DEF CountIn
    <2> QED
        BY <1>4, <1>5, <2>1, <2>2 DEF CountInv, CountsExact
<1> QED
    BY <1>1, <1>3, <1>6 DEF CountInv

\* A transaction of p begins, and p may become the executor.
LEMMA CountBegin ==
    ASSUME CountInv, NEW p \in Processes,
           NEW op \in {"release", "reclaim", "complete", "fail"},
           NEW pc \in {"scan", "items"}, NEW todo \in SUBSET Items, BeginsTx(p, op, pc, todo),
           op = "reclaim" => JobFree(p),
           UNCHANGED <<item, progress>>,
           held' \in [Processes -> SUBSET Items], shared' \in BOOLEAN, shared => shared',
           executing \subseteq executing', executing' \subseteq Processes,
           op # "reclaim" => p \in executing',
           ~shared' => \A q, r \in executing' : q = r
    PROVE  CountInv'
<1> DEFINE t == Started(op, pc, todo)
<1>1. /\ tx' = [tx EXCEPT ![p] = t] /\ Own(t) /\ t \in Tx
      /\ t.op = op /\ t.pc = pc /\ DOMAIN t.writes = {}
      /\ t.job = (op = "reclaim")
    BY BeginTx, StartedFields
<1> HIDE DEF t
<1>2. t.job => JobFree(p)
    BY <1>1
<1>3. ~(t.pc \in {"progress", "commit"})
    BY <1>1
<1>4. t.op \in {"release", "complete", "fail"} => p \in executing'
    BY <1>1
<1> QED
    BY <1>1, <1>2, <1>3, <1>4, CountMove

LEMMA ClaimJobCounts ==
    ASSUME CountInv, NEW p \in Processes, ClaimJob(p)
    PROVE  CountInv'
<1>1. /\ BeginsTx(p, "release", "scan", {}) /\ UNCHANGED <<item, progress, held>>
      /\ executing' = executing \cup {p} /\ shared' = (shared \/ executing # {})
    BY DEF ClaimJob
<1>2. held' \in [Processes -> SUBSET Items] /\ executing' \subseteq Processes /\ shared' \in BOOLEAN
    BY <1>1 DEF CountInv, LockInv, Types
<1>3. /\ ~shared' => \A q, r \in executing' : q = r
      /\ shared => shared' /\ executing \subseteq executing' /\ p \in executing'
    BY <1>1
<1>4. {} \in SUBSET Items /\ UNCHANGED item /\ UNCHANGED progress
    BY <1>1
<1> QED
    BY <1>1, <1>2, <1>3, <1>4, CountBegin

LEMMA ReclaimCounts ==
    ASSUME CountInv, NEW p \in Processes, reclaim_stale_jobs(p)
    PROVE  CountInv'
<1>1. /\ BeginsTx(p, "reclaim", "scan", {}) /\ JobFree(p)
      /\ UNCHANGED <<item, progress, held, executing, shared>>
    BY DEF reclaim_stale_jobs
<1> QED
    BY <1>1, CountBegin DEF CountInv, LockInv, Types, Executors

LEMMA SettleCounts ==
    ASSUME CountInv, NEW p \in Processes, NEW op \in {"complete", "fail"}, Settle(p, op)
    PROVE  CountInv'
<1>1. PICK i \in held[p] : /\ held' = [held EXCEPT ![p] = @ \ {i}]
                           /\ BeginsTx(p, op, "items", {i})
    BY DEF Settle
<1>2. p \in executing /\ UNCHANGED <<item, progress, executing, shared>>
    BY DEF Settle
<1>3. {i} \in SUBSET Items /\ held' \in [Processes -> SUBSET Items]
    BY <1>1 DEF CountInv, LockInv, Types
<1> QED
    BY <1>1, <1>2, <1>3, CountBegin DEF CountInv, LockInv, Types, Executors

LEMMA ClaimItemsCounts ==
    ASSUME CountInv, NEW p \in Processes, claim_job_items(p)
    PROVE  CountInv'
<1>1. /\ item' = [i \in Items |-> IF i \in Claimable(p) THEN "running" ELSE item[i]]
      /\ held' = [held EXCEPT ![p] = Claimable(p)]
      /\ tx[p] = NoTx /\ UNCHANGED <<jobStatus, progress, executing, tx, shared>>
    BY DEF claim_job_items
<1>2. \A i \in Claimable(p) : i \in Items /\ item[i] = "pending" /\ ItemFree(p, i)
    BY DEF Claimable
<1>3. item' \in [Items -> ItemStatus]
    BY <1>1 DEF CountInv, LockInv, Types, ItemStatus
<1>4. held' \in [Processes -> SUBSET Items]
    <2>1. Claimable(p) \in SUBSET Items
        BY <1>2
    <2> QED
        BY <1>1, <2>1 DEF CountInv, LockInv, Types
<1>5. \A i \in Items : item'[i] = item[i]
        \/ (item[i] = "pending" /\ item'[i] = "running" /\ ItemFree(p, i))
    BY <1>1, <1>2
<1> QED
    BY <1>1, <1>3, <1>4, <1>5, CountStay

LEMMA FinishCounts ==
    ASSUME CountInv, NEW p \in Processes, finish_job(p)
    PROVE  CountInv'
<1>1. tx[p] = NoTx /\ UNCHANGED <<item, progress, held, tx, shared>>
    BY DEF finish_job
<1>2. executing' = executing \ {p}
    BY DEF finish_job
<1> QED
    BY <1>1, <1>2, CountStay DEF CountInv, LockInv, Types

\* The facts CountMove needs of an action that only moves tx.
LEMMA TypesStay ==
    ASSUME CountInv, UNCHANGED <<item, jobStatus, progress, executing, held, shared>>
    PROVE  /\ UNCHANGED item /\ progress' = progress
           /\ held' \in [Processes -> SUBSET Items] /\ executing' = executing
           /\ executing \subseteq Processes /\ shared' = shared /\ shared \in BOOLEAN
           /\ ~shared => \A q, r \in executing : q = r
BY DEF CountInv, LockInv, Types, Executors

LEMMA ScanCounts ==
    ASSUME CountInv, NEW p \in Processes, Scan(p)
    PROVE  CountInv'
<1>1. UNCHANGED <<item, jobStatus, progress, executing, held, shared>>
    BY DEF Scan, Moves
<1>2. PICK t \in Tx : /\ tx' = [tx EXCEPT ![p] = t] /\ Own(t)
                      /\ t.pc = "items" /\ t.op = tx[p].op /\ t.job = tx[p].job
                      /\ DOMAIN t.writes = {}
    BY ScanTx DEF CountInv
<1>3. t.op \in {"release", "complete", "fail"} => p \in executing
    BY <1>2 DEF CountInv, Executors
<1> QED
    BY <1>1, <1>2, <1>3, TypesStay, CountMove

LEMMA WriteItemCounts ==
    ASSUME JobAssumption, CountInv, NEW p \in Processes, WriteItem(p)
    PROVE  CountInv'
<1>1. UNCHANGED <<item, jobStatus, progress, executing, held, shared>>
    BY DEF WriteItem, Moves
<1>2. PICK t \in Tx, i \in Items :
         /\ tx' = [tx EXCEPT ![p] = t] /\ Own(t)
         /\ tx[p].pc = "items" /\ t.pc = "items" /\ t.op = tx[p].op /\ t.job = tx[p].job
         /\ ItemFree(p, i)
         /\ \/ t.writes = tx[p].writes
            \/ /\ DOMAIN t.writes = DOMAIN tx[p].writes \cup {i}
               /\ \A j \in DOMAIN tx[p].writes \ {i} : t.writes[j] = tx[p].writes[j]
               /\ t.op \in {"release", "reclaim"} =>
                     item[i] = "running" /\ t.writes[i] = "pending"
    BY WriteItemTx DEF CountInv
<1>3. t.op \in {"release", "complete", "fail"} => p \in executing
    BY <1>2 DEF CountInv, Executors
<1>4. \A j \in DOMAIN t.writes : j \in DOMAIN tx[p].writes \/ ItemFree(p, j)
    BY <1>2
<1>5. t.op \in {"release", "reclaim"} =>
          \A j \in DOMAIN t.writes : item[j] = "running" /\ t.writes[j] = "pending"
    BY <1>2 DEF CountInv, Executors
<1> QED
    BY <1>1, <1>2, <1>3, <1>4, <1>5, TypesStay, CountMove

LEMMA CountItemsCounts ==
    ASSUME CountInv, NEW p \in Processes, CountItems(p)
    PROVE  CountInv'
<1>1. UNCHANGED <<item, jobStatus, progress, executing, held, shared>>
    BY DEF CountItems, Moves
<1>2. PICK t \in Tx : /\ tx' = [tx EXCEPT ![p] = t] /\ Own(t)
                      /\ t.op = tx[p].op /\ t.job = tx[p].job /\ t.writes = tx[p].writes
                      /\ t.seen = CountIn(Written(p))
    BY CountItemsTx DEF CountInv
<1>3. /\ t.op \in {"release", "complete", "fail"} => p \in executing
      /\ t.op \in {"release", "reclaim"} =>
            \A i \in DOMAIN t.writes : item[i] = "running" /\ t.writes[i] = "pending"
    BY <1>2 DEF CountInv, Executors
<1>4. Written(p)' = Written(p)
    BY <1>1, <1>2 DEF Written, CountInv, LockInv, Types
<1> QED
    BY <1>1, <1>2, <1>3, <1>4, TypesStay, CountMove

LEMMA WriteProgressCounts ==
    ASSUME CountInv, NEW p \in Processes, WriteProgress(p)
    PROVE  CountInv'
<1>1. UNCHANGED <<item, jobStatus, progress, executing, held, shared>>
    BY DEF WriteProgress, Moves
<1>2. PICK t \in Tx : /\ tx' = [tx EXCEPT ![p] = t] /\ Own(t)
                      /\ tx[p].pc = "progress" /\ JobFree(p)
                      /\ t.op = tx[p].op /\ t.writes = tx[p].writes /\ t.seen = tx[p].seen
    BY WriteProgressTx DEF CountInv
<1>3. /\ t.op \in {"release", "complete", "fail"} => p \in executing
      /\ t.op \in {"release", "reclaim"} =>
            \A i \in DOMAIN t.writes : item[i] = "running" /\ t.writes[i] = "pending"
    BY <1>2 DEF CountInv, Executors
<1>4. Written(p)' = Written(p)
    BY <1>1, <1>2 DEF Written, CountInv, LockInv, Types
<1>5. ~shared => t.seen = CountIn(Written(p))
    BY <1>2 DEF CountInv, CountsExact
<1> QED
    BY <1>1, <1>2, <1>3, <1>4, <1>5, TypesStay, CountMove

\* A crash gives up what p holds.
LEMMA CrashCounts ==
    ASSUME CountInv, NEW p \in Processes, ProcessCrash(p)
    PROVE  CountInv'
<1>1. /\ tx' = [tx EXCEPT ![p] = NoTx] /\ UNCHANGED <<item, jobStatus, progress, shared>>
      /\ executing' = executing \ {p} /\ held' = [held EXCEPT ![p] = {}]
    BY DEF ProcessCrash
<1>2. /\ held' \in [Processes -> SUBSET Items] /\ executing' \subseteq Processes
      /\ shared' \in BOOLEAN /\ (~shared' => \A q, r \in executing' : q = r)
    BY <1>1 DEF CountInv, LockInv, Types, Executors
<1>3. /\ NoTx \in Tx /\ ~NoTx.job /\ NoTx.op = "none" /\ NoTx.pc = "none"
      /\ \A i \in DOMAIN NoTx.writes : FALSE
    BY NoTxType
<1> QED
    BY <1>1, <1>2, <1>3, NoTxOwn, CountMove

\* When p commits, no other transaction has counted yet unless one of the two
\* only puts running items back: a reclaim is the only one beside an executor.
LEMMA CommitCounts ==
    ASSUME CountInv, NEW p \in Processes, Commit(p)
    PROVE  CountInv'
<1>1. /\ tx[p].pc = "commit" /\ item' = Written(p) /\ progress' = tx[p].seen
      /\ tx' = [tx EXCEPT ![p] = NoTx] /\ UNCHANGED <<executing, held, shared>>
    BY DEF Commit
<1>2. \A q \in Processes : tx'[q] = IF q = p THEN NoTx ELSE tx[q]
    BY <1>1 DEF CountInv, LockInv, Types
<1>3. LockInv'
    <2>1. /\ tx' \in [Processes -> Tx]
          /\ \A q \in Processes : Own(tx'[q])
          /\ Exclusive'
        <3>1. LockInv /\ NoTx \in Tx /\ ~NoTx.job /\ \A i \in DOMAIN NoTx.writes : FALSE
            BY NoTxType DEF CountInv
        <3> QED
            BY <1>1, <3>1, NoTxOwn, LockMove
    <2>2. item' \in [Items -> ItemStatus]
        BY <1>1, WrittenType DEF CountInv, LockInv
    <2> QED
        BY <1>1, <2>1, <2>2 DEF CountInv, LockInv, Types
<1>4. \A q \in Processes \ {p} : \A i \in DOMAIN tx[q].writes : item'[i] = item[i]
    <2> SUFFICES ASSUME NEW q \in Processes \ {p}, NEW i \in DOMAIN tx[q].writes
                 PROVE  item'[i] = item[i]
        OBVIOUS
    <2>1. i \in Items /\ i \notin DOMAIN tx[p].writes
        BY WrittenType DEF CountInv, LockInv, Exclusive
    <2> QED
        BY <1>1, <2>1 DEF Written
<1>5. Executors'
    BY <1>1, <1>2, <1>4, NoTxType DEF CountInv, Executors
<1>6. ASSUME ~shared, NEW q \in Processes \ {p}, tx[q].pc \in {"progress", "commit"}
      PROVE  CountIn(Written(q)') = CountIn(Written(q))
    <2>1. tx[p].op \in {"release", "reclaim"}
        <3>1. tx[p].job
            BY <1>1 DEF CountInv, LockInv, Own
        <3>2. tx[q].op # "reclaim" /\ tx[q].op # "none"
            BY <1>6, <3>1 DEF CountInv, LockInv, Own, Exclusive
        <3>3. tx[q].op \in {"release", "complete", "fail"}
            BY <3>2 DEF CountInv, LockInv, Types, Tx
        <3>4. q \in executing /\ p \notin executing
            BY <1>6, <3>3 DEF CountInv, Executors
        <3>5. tx[p].op # "none"
            BY <1>1 DEF CountInv, LockInv, Own
        <3> QED
            BY <3>4, <3>5 DEF CountInv, LockInv, Types, Tx, Executors
    <2>2. \A i \in Items : item'[i] = item[i] \/ (item[i] = "running" /\ item'[i] = "pending")
        BY <1>1, <2>1 DEF Written, CountInv, Executors
    <2>3. tx'[q] = tx[q]
        BY <1>2
    <2>4. \A i \in Items : Written(q)'[i] =
              IF i \in DOMAIN tx[q].writes THEN tx[q].writes[i] ELSE item'[i]
        BY <2>3 DEF Written
    <2>5. \A i \in Items : Written(q)[i] =
              IF i \in DOMAIN tx[q].writes THEN tx[q].writes[i] ELSE item[i]
        BY DEF Written
    <2>6. \A i \in Items : /\ Written(q)'[i] = "succeeded" <=> Written(q)[i] = "succeeded"
                           /\ Written(q)'[i] = "failed" <=> Written(q)[i] = "failed"
        BY <2>2, <2>4, <2>5
    <2> QED
        BY <2>6, SameCount
<1>7. CountsExact'
    <2>1. CountIn(item)' = CountIn(item') /\ \A q \in Processes : CountIn(Written(q))' = CountIn(Written(q)')
        BY DEF CountIn
    <2>2. ~shared => progress' = CountIn(item')
        BY <1>1 DEF CountInv, CountsExact
    <2>3. \A q \in Processes : ~shared /\ tx'[q].pc \in {"progress", "commit"} =>
              tx'[q].seen = CountIn(Written(q)')
        BY <1>2, <1>6, NoTxType DEF CountInv, CountsExact
    <2> QED
        BY <1>1, <2>1, <2>2, <2>3 DEF CountsExact
<1> QED
    BY <1>3, <1>5, <1>7 DEF CountInv

LEMMA CountStep ==
    ASSUME JobAssumption, CountInv, [JobNext]_jobVars
    PROVE  CountInv'
<1>1. CASE UNCHANGED jobVars
    <2>1. UNCHANGED <<item, progress, executing, held, tx, shared>>
        BY <1>1 DEF jobVars
    <2>2. LockInv' /\ Executors'
        BY <2>1 DEF CountInv, LockInv, Types, Exclusive, Executors
    <2>3. \A p \in Processes : CountIn(Written(p))' = CountIn(Written(p))
        BY <2>1 DEF Written, CountIn
    <2>4. CountIn(item)' = CountIn(item)
        BY <2>1 DEF CountIn
    <2>5. CountsExact'
        BY <2>1, <2>3, <2>4 DEF CountInv, CountsExact
    <2> QED
        BY <2>2, <2>5 DEF CountInv
<1>2. ASSUME NEW p \in Processes,
             \/ ClaimJob(p) \/ claim_job_items(p) \/ finish_job(p) \/ reclaim_stale_jobs(p)
             \/ Settle(p, "complete") \/ Settle(p, "fail")
             \/ Scan(p) \/ WriteItem(p) \/ CountItems(p) \/ WriteProgress(p) \/ Commit(p)
             \/ ProcessCrash(p)
      PROVE  CountInv'
    <2>1. CASE ClaimJob(p)
        BY <2>1, ClaimJobCounts
    <2>2. CASE claim_job_items(p)
        BY <2>2, ClaimItemsCounts
    <2>3. CASE finish_job(p)
        BY <2>3, FinishCounts
    <2>4. CASE reclaim_stale_jobs(p)
        BY <2>4, ReclaimCounts
    <2>5. CASE Settle(p, "complete") \/ Settle(p, "fail")
        BY <2>5, SettleCounts
    <2>6. CASE Scan(p)
        BY <2>6, ScanCounts
    <2>7. CASE WriteItem(p)
        BY <2>7, WriteItemCounts
    <2>8. CASE CountItems(p)
        BY <2>8, CountItemsCounts
    <2>9. CASE WriteProgress(p)
        BY <2>9, WriteProgressCounts
    <2>10. CASE Commit(p)
        BY <2>10, CommitCounts
    <2>11. CASE ProcessCrash(p)
        BY <2>11, CrashCounts
    <2> QED
        BY <1>2, <2>1, <2>2, <2>3, <2>4, <2>5, <2>6, <2>7, <2>8, <2>9, <2>10, <2>11
<1> QED
    BY <1>1, <1>2 DEF JobNext, JobDone

THEOREM CountsHold == JobAssumption => (JobSpec => []CountInv)
<1> SUFFICES ASSUME JobAssumption PROVE JobSpec => []CountInv
    OBVIOUS
<1>1. CountInv /\ [JobNext]_jobVars => CountInv'
    BY CountStep
<1> QED
    BY <1>1, InitCounts, PTL DEF JobSpec

\* While one process at a time executes the job, progress shows the finished
\* items exactly whenever no transaction is under way. (queue.py:18-31.)
THEOREM ProgressExact == JobAssumption => (JobSpec => []ProgressDriftsOnlyShared)
<1>1. CountInv => ProgressDriftsOnlyShared
    BY DEF CountInv, CountsExact, ProgressDriftsOnlyShared
<1> QED
    BY <1>1, CountsHold, PTL

\* The types: the statuses are those of the schema, and a process holds and writes
\* items of this job only. (queue.py:142-199, 326-345.)
THEOREM JobTyped == JobAssumption => (JobSpec => []JobTypeOK)
<1> SUFFICES ASSUME JobAssumption PROVE JobSpec => []JobTypeOK
    OBVIOUS
<1> DEFINE Known == jobStatus \in {"pending", "running", "finished"}
<1>1. JobInit => Known
    BY DEF JobInit
<1>2. Known /\ [JobNext]_jobVars => Known'
    <2> SUFFICES ASSUME Known, [JobNext]_jobVars, jobStatus' # jobStatus PROVE Known'
        OBVIOUS
    <2> QED
        BY DEF JobNext, JobDone, jobVars, ClaimJob, claim_job_items, Settle, finish_job,
               reclaim_stale_jobs, Scan, WriteItem, CountItems, WriteProgress, Commit,
               ProcessCrash, Moves
<1>3. CountInv /\ Known => JobTypeOK
    <2> SUFFICES ASSUME CountInv, Known PROVE JobTypeOK
        OBVIOUS
    <2>1. \A p \in Processes : tx[p] \in Tx /\ tx[p].writes \in Versions
        BY DEF CountInv, LockInv, Types, Tx
    <2>2. \A p \in Processes : held[p] \subseteq Items /\ DOMAIN tx[p].writes \subseteq Items
        BY <2>1, VersionsIs DEF CountInv, LockInv, Types
    <2>3. \A i \in Items : item[i] \in ItemStatus
        BY DEF CountInv, LockInv, Types
    <2> QED BY <2>2, <2>3 DEF JobTypeOK, ItemStatus
<1> QED
    BY <1>1, <1>2, <1>3, CountsHold, PTL DEF JobSpec

-----------------------------------------------------------------------------
(* One step *)

Unsettled == {"pending", "running"}

\* A transaction that settles i: its statement has i before it or behind it.
Settles(t, i) ==
    \/ t.pc = "items" /\ t.todo = {i} /\ DOMAIN t.writes = {}
    \/ /\ t.pc \in {"items", "progress", "commit"} /\ t.todo = {}
       /\ DOMAIN t.writes = {i} /\ t.writes[i] \in NewStatus(t.op)

\* A release misses no running item, and who settles has an item that is not
\* settled yet, where s are the items' statuses.
Whole(t, s) ==
    /\ t.pc \in {"progress", "commit"} => t.todo = {}
    /\ t.op = "release" /\ t.pc # "scan" =>
          \A i \in Items : s[i] = "running" => i \in t.todo \cup DOMAIN t.writes
    /\ t.op \in {"complete", "fail"} => \E i \in Items : Settles(t, i) /\ s[i] \in Unsettled

\* Nor are the items h that it will settle later.
HeldOpen(h, t, s) ==
    \A i \in h : /\ s[i] \in Unsettled
                 /\ t.op \in {"complete", "fail"} => i \notin t.todo \cup DOMAIN t.writes

ProcessWhole(p) ==
    /\ Whole(tx[p], item) /\ HeldOpen(held[p], tx[p], item)
    /\ held[p] # {} => p \in executing

StrokeInv == CountInv /\ (~shared => \A p \in Processes : ProcessWhole(p))

\* Process p moves on to t, and no row is committed.
LEMMA StrokeMove ==
    ASSUME StrokeInv, CountInv', NEW p \in Processes, NEW t, tx' = [tx EXCEPT ![p] = t],
           UNCHANGED item, shared => shared',
           \A q \in Processes \ {p} : held'[q] = held[q],
           executing \ {p} \subseteq executing',
           ~shared' => /\ Whole(t, item) /\ HeldOpen(held'[p], t, item)
                       /\ held'[p] # {} => p \in executing'
    PROVE  StrokeInv'
<1> SUFFICES ASSUME ~shared' PROVE \A q \in Processes : ProcessWhole(q)'
    BY DEF StrokeInv
<1>1. \A q \in Processes : tx'[q] = IF q = p THEN t ELSE tx[q]
    BY DEF StrokeInv, CountInv, LockInv, Types
<1>2. shared \in BOOLEAN /\ ~shared
    BY DEF StrokeInv, CountInv, LockInv, Types
<1>3. ASSUME NEW q \in Processes PROVE ProcessWhole(q)'
    <2>1. CASE q = p
        BY <1>1, <2>1 DEF ProcessWhole
    <2>2. CASE q # p
        <3>1. ProcessWhole(q) /\ tx'[q] = tx[q] /\ held'[q] = held[q] /\ item' = item
            BY <1>1, <1>2, <2>2 DEF StrokeInv
        <3> QED
            BY <2>2, <3>1 DEF ProcessWhole
    <2> QED
        BY <2>1, <2>2
<1> QED
    BY <1>3

\* A transaction that settles is beyond its scan.
LEMMA WholeSettles ==
    ASSUME NEW t, NEW s, Whole(t, s), t.op \in {"complete", "fail"}
    PROVE  t.pc # "scan"
BY DEF Whole, Settles

\* The facts StrokeMove needs of an action that only moves tx.
LEMMA StrokeStatement ==
    ASSUME StrokeInv, CountInv', NEW p \in Processes, NEW t, tx' = [tx EXCEPT ![p] = t],
           UNCHANGED <<item, jobStatus, progress, executing, held, shared>>,
           ProcessWhole(p) => Whole(t, item) /\ HeldOpen(held[p], t, item)
    PROVE  StrokeInv'
<1>1. ~shared' => ProcessWhole(p) /\ held'[p] = held[p] /\ executing' = executing
    BY DEF StrokeInv
<1>2. ~shared' => /\ Whole(t, item) /\ HeldOpen(held'[p], t, item)
                  /\ held'[p] # {} => p \in executing'
    BY <1>1 DEF ProcessWhole
<1> QED
    BY <1>2, StrokeMove

LEMMA ScanStroke ==
    ASSUME StrokeInv, CountInv', NEW p \in Processes, Scan(p)
    PROVE  StrokeInv'
<1>1. UNCHANGED <<item, jobStatus, progress, executing, held, shared>>
    BY DEF Scan, Moves
<1>2. PICK t \in Tx : /\ tx' = [tx EXCEPT ![p] = t] /\ tx[p].pc = "scan" /\ t.pc = "items"
                      /\ t.op = tx[p].op /\ t.todo = {i \in Items : item[i] = "running"}
    BY ScanTx DEF StrokeInv, CountInv
<1>3. ASSUME ProcessWhole(p) PROVE Whole(t, item) /\ HeldOpen(held[p], t, item)
    <2>1. t.op \notin {"complete", "fail"}
        BY <1>2, <1>3, WholeSettles DEF ProcessWhole
    <2>2. Whole(t, item)
        BY <1>2, <2>1 DEF Whole
    <2>3. HeldOpen(held[p], t, item)
        BY <1>3, <2>1 DEF ProcessWhole, HeldOpen
    <2> QED
        BY <2>2, <2>3
<1> QED
    BY <1>1, <1>2, <1>3, StrokeStatement

LEMMA WriteItemStroke ==
    ASSUME JobAssumption, StrokeInv, CountInv', NEW p \in Processes, WriteItem(p)
    PROVE  StrokeInv'
<1>1. UNCHANGED <<item, jobStatus, progress, executing, held, shared>>
    BY DEF WriteItem, Moves
<1>2. PICK t \in Tx, i \in Items :
         /\ tx' = [tx EXCEPT ![p] = t]
         /\ tx[p].pc = "items" /\ t.pc = "items" /\ t.op = tx[p].op
         /\ i \in tx[p].todo /\ t.todo = tx[p].todo \ {i}
         /\ \/ /\ t.writes = tx[p].writes
               /\ t.op \in {"release", "reclaim"} /\ item[i] # "running"
            \/ /\ t.writes[i] \in NewStatus(t.op)
               /\ DOMAIN t.writes = DOMAIN tx[p].writes \cup {i}
    BY WriteItemTx DEF StrokeInv, CountInv
<1>3. ASSUME ProcessWhole(p) PROVE Whole(t, item) /\ HeldOpen(held[p], t, item)
    <2>1. t.op = "release" =>
              \A j \in Items : item[j] = "running" => j \in t.todo \cup DOMAIN t.writes
        BY <1>2, <1>3 DEF ProcessWhole, Whole
    <2>2. ASSUME t.op \in {"complete", "fail"}
          PROVE  Settles(t, i) /\ item[i] \in Unsettled
        <3>1. PICK j \in Items : Settles(tx[p], j) /\ item[j] \in Unsettled
            BY <1>2, <1>3, <2>2 DEF ProcessWhole, Whole
        <3>2. j = i /\ tx[p].todo = {i} /\ DOMAIN tx[p].writes = {}
            BY <1>2, <3>1 DEF Settles
        <3> QED
            BY <1>2, <2>2, <3>1, <3>2 DEF Settles
    <2>3. Whole(t, item)
        BY <1>2, <2>1, <2>2 DEF Whole
    <2>4. HeldOpen(held[p], t, item)
        BY <1>2, <1>3 DEF ProcessWhole, HeldOpen
    <2> QED
        BY <2>3, <2>4
<1> QED
    BY <1>1, <1>2, <1>3, StrokeStatement

LEMMA CountItemsStroke ==
    ASSUME StrokeInv, CountInv', NEW p \in Processes, CountItems(p)
    PROVE  StrokeInv'
<1>1. UNCHANGED <<item, jobStatus, progress, executing, held, shared>>
    BY DEF CountItems, Moves
<1>2. PICK t \in Tx : /\ tx' = [tx EXCEPT ![p] = t] /\ tx[p].pc = "items" /\ tx[p].todo = {}
                      /\ t.pc = "progress" /\ t.todo = tx[p].todo
                      /\ t.op = tx[p].op /\ t.writes = tx[p].writes
    BY CountItemsTx DEF StrokeInv, CountInv
<1>3. ProcessWhole(p) => Whole(t, item) /\ HeldOpen(held[p], t, item)
    BY <1>2 DEF ProcessWhole, Whole, HeldOpen, Settles
<1> QED
    BY <1>1, <1>2, <1>3, StrokeStatement

LEMMA WriteProgressStroke ==
    ASSUME StrokeInv, CountInv', NEW p \in Processes, WriteProgress(p)
    PROVE  StrokeInv'
<1>1. UNCHANGED <<item, jobStatus, progress, executing, held, shared>>
    BY DEF WriteProgress, Moves
<1>2. PICK t \in Tx : /\ tx' = [tx EXCEPT ![p] = t] /\ tx[p].pc = "progress"
                      /\ t.pc = "commit" /\ t.todo = tx[p].todo
                      /\ t.op = tx[p].op /\ t.writes = tx[p].writes
    BY WriteProgressTx DEF StrokeInv, CountInv
<1>3. ProcessWhole(p) => Whole(t, item) /\ HeldOpen(held[p], t, item)
    BY <1>2 DEF ProcessWhole, Whole, HeldOpen, Settles
<1> QED
    BY <1>1, <1>2, <1>3, StrokeStatement

\* Whoever becomes the only executor has nothing yet.
LEMMA ClaimJobStroke ==
    ASSUME StrokeInv, CountInv', NEW p \in Processes, ClaimJob(p)
    PROVE  StrokeInv'
<1> DEFINE t == Started("release", "scan", {})
<1>1. /\ p \notin executing /\ BeginsTx(p, "release", "scan", {})
      /\ UNCHANGED <<item, progress, held>>
      /\ executing' = executing \cup {p} /\ shared' = (shared \/ executing # {})
    BY DEF ClaimJob
<1>2. {} \in SUBSET Items
    OBVIOUS
<1>3. tx' = [tx EXCEPT ![p] = t] /\ t.op = "release" /\ t.pc = "scan"
    BY <1>1, <1>2, BeginTx, StartedFields
<1> HIDE DEF t
<1>4. ~shared' => held'[p] = {}
    BY <1>1 DEF StrokeInv, ProcessWhole
<1>5. Whole(t, item) /\ (~shared' => HeldOpen(held'[p], t, item))
    BY <1>3, <1>4 DEF Whole, HeldOpen
<1> QED
    BY <1>1, <1>3, <1>4, <1>5, StrokeMove

LEMMA ReclaimStroke ==
    ASSUME StrokeInv, CountInv', NEW p \in Processes, reclaim_stale_jobs(p)
    PROVE  StrokeInv'
<1> DEFINE t == Started("reclaim", "scan", {})
<1>1. /\ BeginsTx(p, "reclaim", "scan", {})
      /\ UNCHANGED <<item, jobStatus, progress, executing, held, shared>>
    BY DEF reclaim_stale_jobs
<1>2. {} \in SUBSET Items
    OBVIOUS
<1>3. tx' = [tx EXCEPT ![p] = t] /\ t.op = "reclaim" /\ t.pc = "scan"
    BY <1>1, <1>2, BeginTx, StartedFields
<1> HIDE DEF t
<1>4. ProcessWhole(p) => Whole(t, item) /\ HeldOpen(held[p], t, item)
    BY <1>3 DEF ProcessWhole, Whole, HeldOpen
<1> QED
    BY <1>1, <1>3, <1>4, StrokeStatement

\* The item is one of those held, and held no more.
LEMMA SettleStroke ==
    ASSUME StrokeInv, CountInv', NEW p \in Processes, NEW op \in {"complete", "fail"},
           Settle(p, op)
    PROVE  StrokeInv'
<1>1. PICK i \in held[p] : /\ held' = [held EXCEPT ![p] = @ \ {i}]
                           /\ BeginsTx(p, op, "items", {i})
    BY DEF Settle
<1>2. p \in executing /\ UNCHANGED <<item, progress, executing, shared>>
    BY DEF Settle
<1>3. {i} \in SUBSET Items /\ i \in Items
    BY <1>1 DEF StrokeInv, CountInv, LockInv, Types
<1>4. held'[p] = held[p] \ {i} /\ \A q \in Processes \ {p} : held'[q] = held[q]
    BY <1>1 DEF StrokeInv, CountInv, LockInv, Types
<1> DEFINE t == Started(op, "items", {i})
<1>5. /\ tx' = [tx EXCEPT ![p] = t] /\ t.op = op /\ t.pc = "items" /\ t.todo = {i}
      /\ DOMAIN t.writes = {}
    BY <1>1, <1>3, BeginTx, StartedFields
<1> HIDE DEF t
<1>6. ASSUME ~shared' PROVE Whole(t, item) /\ HeldOpen(held'[p], t, item)
    <2>1. \A j \in held[p] : item[j] \in Unsettled
        BY <1>2, <1>6 DEF StrokeInv, ProcessWhole, HeldOpen
    <2>2. Whole(t, item)
        BY <1>1, <1>3, <1>5, <2>1 DEF Whole, Settles
    <2>3. HeldOpen(held'[p], t, item)
        BY <1>4, <1>5, <2>1 DEF HeldOpen
    <2> QED
        BY <2>2, <2>3
<1> QED
    BY <1>2, <1>4, <1>5, <1>6, StrokeMove

LEMMA FinishStroke ==
    ASSUME StrokeInv, CountInv', NEW p \in Processes, finish_job(p)
    PROVE  StrokeInv'
<1>1. held[p] = {} /\ UNCHANGED <<item, progress, held, tx, shared>>
    BY DEF finish_job
<1>2. executing' = executing \ {p} /\ tx' = [tx EXCEPT ![p] = tx[p]]
    BY DEF finish_job, StrokeInv, CountInv, LockInv, Types
<1>3. ~shared' => Whole(tx[p], item) /\ HeldOpen(held'[p], tx[p], item)
    BY <1>1 DEF StrokeInv, ProcessWhole
<1> DEFINE t == tx[p]
<1>4. tx' = [tx EXCEPT ![p] = t]
    BY <1>2
<1> HIDE DEF t
<1>5. ~shared' => Whole(t, item) /\ HeldOpen(held'[p], t, item)
    BY <1>3 DEF t
<1> QED
    BY <1>1, <1>2, <1>4, <1>5, StrokeMove

LEMMA IdleWhole == \A s, h : Whole(NoTx, s) /\ ((\A i \in h : s[i] \in Unsettled) => HeldOpen(h, NoTx, s))
BY NoTxType DEF Whole, HeldOpen

LEMMA CrashStroke ==
    ASSUME StrokeInv, CountInv', NEW p \in Processes, ProcessCrash(p)
    PROVE  StrokeInv'
<1>1. /\ tx' = [tx EXCEPT ![p] = NoTx] /\ UNCHANGED <<item, jobStatus, progress, shared>>
      /\ executing' = executing \ {p} /\ held' = [held EXCEPT ![p] = {}]
    BY DEF ProcessCrash
<1>2. held'[p] = {} /\ \A q \in Processes \ {p} : held'[q] = held[q]
    BY <1>1 DEF StrokeInv, CountInv, LockInv, Types
<1>3. Whole(NoTx, item) /\ HeldOpen(held'[p], NoTx, item)
    BY <1>2, IdleWhole
<1> QED
    BY <1>1, <1>2, <1>3, StrokeMove

\* The only executor claims, and is not releasing: no transaction misses what runs now.
LEMMA ClaimItemsStroke ==
    ASSUME StrokeInv, CountInv', NEW p \in Processes, claim_job_items(p)
    PROVE  StrokeInv'
<1>1. /\ item' = [i \in Items |-> IF i \in Claimable(p) THEN "running" ELSE item[i]]
      /\ held' = [held EXCEPT ![p] = Claimable(p)]
      /\ p \in executing /\ tx[p] = NoTx
      /\ UNCHANGED <<jobStatus, progress, executing, tx, shared>>
    BY DEF claim_job_items
<1>2. /\ Claimable(p) \subseteq Items
      /\ \A i \in Items : \/ item'[i] = item[i]
                          \/ item'[i] = "running" /\ item[i] = "pending"
    BY <1>1 DEF Claimable
<1>3. \A i \in Claimable(p) : item'[i] = "running"
    BY <1>1, <1>2
<1> SUFFICES ASSUME ~shared, NEW q \in Processes PROVE ProcessWhole(q)'
    BY <1>1 DEF StrokeInv
<1>4. ProcessWhole(q)
    BY DEF StrokeInv
<1>5. CASE q = p
    <2>1. held'[p] = Claimable(p)
        BY <1>1 DEF StrokeInv, CountInv, LockInv, Types
    <2>2. Whole(NoTx, item') /\ HeldOpen(held'[p], NoTx, item')
        BY <1>3, <2>1, IdleWhole DEF Unsettled
    <2> QED
        BY <1>1, <1>5, <2>2 DEF ProcessWhole
<1>6. CASE q # p
    <2>1. tx'[q] = tx[q] /\ held'[q] = held[q] /\ executing' = executing
        BY <1>1, <1>6 DEF StrokeInv, CountInv, LockInv, Types
    <2>2. tx[q].op \notin {"release", "complete", "fail"}
        BY <1>1, <1>6 DEF StrokeInv, CountInv, Executors
    <2>3. Whole(tx[q], item')
        BY <1>4, <2>2 DEF ProcessWhole, Whole
    <2>4. held[q] \subseteq Items
        BY DEF StrokeInv, CountInv, LockInv, Types
    <2>5. HeldOpen(held[q], tx[q], item')
        BY <1>2, <1>4, <2>2, <2>4 DEF ProcessWhole, HeldOpen, Unsettled
    <2> QED
        BY <1>4, <2>1, <2>3, <2>5 DEF ProcessWhole
<1> QED
    BY <1>5, <1>6

\* What a commit leaves of the items.
PutBack(I) == [i \in Items |-> IF i \in I /\ item[i] = "running" THEN "pending" ELSE item[i]]

LEMMA CommitIs ==
    ASSUME StrokeInv, ~shared, NEW p \in Processes, Commit(p)
    PROVE  /\ tx[p].op = "release" => item' = PutBack(Items)
           /\ tx[p].op = "reclaim" => \E I \in SUBSET Items : item' = PutBack(I)
           /\ tx[p].op \in {"complete", "fail"} =>
                 \E i \in Items : \E s \in NewStatus(tx[p].op) :
                    /\ item[i] \in Unsettled /\ i \in DOMAIN tx[p].writes
                    /\ item' = [item EXCEPT ![i] = s]
<1> DEFINE writes == tx[p].writes
<1>1. tx[p].pc = "commit" /\ item' = Written(p)
    BY DEF Commit
<1>2. Whole(tx[p], item) /\ tx[p].todo = {}
    BY <1>1 DEF StrokeInv, ProcessWhole, Whole
<1>3. /\ DOMAIN writes \subseteq Items /\ item \in [Items -> ItemStatus]
      /\ item' = [i \in Items |-> IF i \in DOMAIN writes THEN writes[i] ELSE item[i]]
    BY <1>1, WrittenType DEF Written, StrokeInv, CountInv, LockInv, Types
<1>4. ASSUME tx[p].op \in {"release", "reclaim"} PROVE item' = PutBack(DOMAIN writes)
    <2>1. \A i \in DOMAIN writes : item[i] = "running" /\ writes[i] = "pending"
        BY <1>4 DEF StrokeInv, CountInv, Executors
    <2> QED
        BY <1>3, <2>1 DEF PutBack
<1>5. ASSUME tx[p].op = "release" PROVE item' = PutBack(Items)
    <2>1. \A i \in Items : item[i] = "running" => i \in DOMAIN writes
        BY <1>1, <1>2, <1>5 DEF Whole
    <2> QED
        BY <1>4, <1>5, <2>1 DEF PutBack
<1>6. ASSUME tx[p].op = "reclaim" PROVE \E I \in SUBSET Items : item' = PutBack(I)
    BY <1>3, <1>4, <1>6
<1>7. ASSUME tx[p].op \in {"complete", "fail"}
      PROVE  \E i \in Items : \E s \in NewStatus(tx[p].op) :
                    /\ item[i] \in Unsettled /\ i \in DOMAIN writes
                    /\ item' = [item EXCEPT ![i] = s]
    <2>1. PICK i \in Items : Settles(tx[p], i) /\ item[i] \in Unsettled
        BY <1>2, <1>7 DEF Whole
    <2>2. DOMAIN writes = {i} /\ writes[i] \in NewStatus(tx[p].op)
        BY <1>1, <2>1 DEF Settles
    <2>3. item' = [item EXCEPT ![i] = writes[i]]
        BY <1>3, <2>2
    <2> QED
        BY <2>1, <2>2, <2>3
<1> QED
    BY <1>5, <1>6, <1>7

\* The item settled is none of those the only executor still holds.
LEMMA CommitStroke ==
    ASSUME StrokeInv, CountInv', NEW p \in Processes, Commit(p)
    PROVE  StrokeInv'
<1>1. /\ tx[p].pc = "commit" /\ tx' = [tx EXCEPT ![p] = NoTx]
      /\ UNCHANGED <<executing, held, shared>>
    BY DEF Commit
<1>2. \A q \in Processes : tx'[q] = IF q = p THEN NoTx ELSE tx[q]
    BY <1>1 DEF StrokeInv, CountInv, LockInv, Types
<1> SUFFICES ASSUME ~shared, NEW q \in Processes PROVE ProcessWhole(q)'
    BY <1>1 DEF StrokeInv
<1>3. ProcessWhole(q) /\ ProcessWhole(p) /\ held[q] \subseteq Items
    BY DEF StrokeInv, CountInv, LockInv, Types
<1>4. tx[p].op \in {"release", "reclaim", "complete", "fail"}
    BY <1>1 DEF StrokeInv, CountInv, LockInv, Types, Tx, Own
<1>5. CASE tx[p].op \in {"release", "reclaim"}
    <2>1. PICK I \in SUBSET Items : item' = PutBack(I)
        BY <1>5, CommitIs
    <2>2. \A i \in Items : /\ item'[i] = "running" => item[i] = "running"
                           /\ item[i] \in Unsettled => item'[i] \in Unsettled
        BY <2>1 DEF PutBack, Unsettled
    <2>3. Whole(tx[q], item')
        BY <1>3, <2>2 DEF ProcessWhole, Whole
    <2>4. Whole(tx'[q], item')
        BY <1>2, <2>3, IdleWhole
    <2>5. \A i \in held[q] : item'[i] \in Unsettled
        BY <1>3, <2>2 DEF ProcessWhole, HeldOpen
    <2>6. HeldOpen(held[q], tx[q], item')
        BY <1>3, <2>5 DEF ProcessWhole, HeldOpen
    <2>7. HeldOpen(held[q], tx'[q], item')
        BY <1>2, <2>5, <2>6, IdleWhole
    <2> QED
        BY <1>1, <1>3, <2>4, <2>7 DEF ProcessWhole
<1>6. CASE tx[p].op \in {"complete", "fail"}
    <2>1. PICK i \in Items : i \in DOMAIN tx[p].writes /\ \E s : item' = [item EXCEPT ![i] = s]
        BY <1>6, CommitIs
    <2>2. p \in executing
        BY <1>6 DEF StrokeInv, CountInv, Executors
    <2>3. CASE q = p
        <3>1. \A j \in held[p] : j # i /\ item[j] \in Unsettled
            BY <1>3, <1>6, <2>1 DEF ProcessWhole, HeldOpen
        <3>2. \A j \in held[p] : item'[j] \in Unsettled
            BY <1>3, <2>1, <2>3, <3>1 DEF StrokeInv, CountInv, LockInv, Types
        <3> QED
            BY <1>1, <1>2, <1>3, <2>3, <3>2, IdleWhole DEF ProcessWhole
    <2>4. CASE q # p
        <3>1. held[q] = {} /\ tx[q].op \notin {"release", "complete", "fail"}
            BY <1>3, <2>2, <2>4 DEF ProcessWhole, StrokeInv, CountInv, Executors
        <3>2. Whole(tx[q], item') /\ HeldOpen(held[q], tx[q], item')
            BY <1>3, <3>1 DEF ProcessWhole, Whole, HeldOpen
        <3> QED
            BY <1>1, <1>2, <1>3, <2>4, <3>2 DEF ProcessWhole
    <2> QED
        BY <2>3, <2>4
<1> QED
    BY <1>4, <1>5, <1>6

LEMMA StrokeStep ==
    ASSUME JobAssumption, StrokeInv, [JobNext]_jobVars
    PROVE  StrokeInv'
<1>1. CountInv'
    BY CountStep DEF StrokeInv
<1>2. CASE UNCHANGED jobVars
    BY <1>1, <1>2 DEF jobVars, StrokeInv, ProcessWhole
<1>3. ASSUME NEW p \in Processes,
             \/ ClaimJob(p) \/ claim_job_items(p) \/ finish_job(p) \/ reclaim_stale_jobs(p)
             \/ Settle(p, "complete") \/ Settle(p, "fail")
             \/ Scan(p) \/ WriteItem(p) \/ CountItems(p) \/ WriteProgress(p) \/ Commit(p)
             \/ ProcessCrash(p)
      PROVE  StrokeInv'
    BY <1>1, <1>3, ClaimJobStroke, ClaimItemsStroke, FinishStroke, ReclaimStroke, SettleStroke,
       ScanStroke, WriteItemStroke, CountItemsStroke, WriteProgressStroke, CommitStroke,
       CrashStroke
<1> QED
    BY <1>2, <1>3 DEF JobNext, JobDone

LEMMA StrokeAlways == JobAssumption => (JobSpec => []StrokeInv)
<1> SUFFICES ASSUME JobAssumption PROVE JobSpec => []StrokeInv
    OBVIOUS
<1>1. JobInit => StrokeInv
    <2> SUFFICES ASSUME JobInit, NEW p \in Processes PROVE ProcessWhole(p)
        BY InitCounts DEF StrokeInv
    <2>1. tx[p] = NoTx /\ held[p] = {}
        BY DEF JobInit
    <2> QED
        BY <2>1, IdleWhole DEF ProcessWhole
<1>2. StrokeInv /\ [JobNext]_jobVars => StrokeInv'
    BY StrokeStep
<1> QED
    BY <1>1, <1>2, PTL DEF JobSpec

\* As long as one process at a time executes the job, a transaction is one step,
\* however its statements and those of reclaims overlap: a release puts back all
\* items that run when it commits, a reclaim some of them, complete_item and
\* fail_item change one item nobody has settled, and the progress written counts
\* the items as they are then. (queue.py:18-31, 142-199, 326-345.)
CommitsAsOne ==
    [][\A p \in Processes : ~shared /\ Commit(p) =>
        /\ progress' = CountIn(item')
        /\ tx[p].op = "release" => item' = PutBack(Items)
        /\ tx[p].op = "reclaim" => \E I \in SUBSET Items : item' = PutBack(I)
        /\ tx[p].op \in {"complete", "fail"} =>
              \E i \in Items : \E s \in NewStatus(tx[p].op) :
                 item[i] \in Unsettled /\ item' = [item EXCEPT ![i] = s]]_jobVars

\* A transaction on items is one step of EvalQueue unless two processes execute.
THEOREM AtOneStroke == JobAssumption => (JobSpec => CommitsAsOne)
<1> SUFFICES ASSUME JobAssumption PROVE JobSpec => CommitsAsOne
    OBVIOUS
<1> DEFINE AsOne == \A p \in Processes : ~shared /\ Commit(p) =>
        /\ progress' = CountIn(item')
        /\ tx[p].op = "release" => item' = PutBack(Items)
        /\ tx[p].op = "reclaim" => \E I \in SUBSET Items : item' = PutBack(I)
        /\ tx[p].op \in {"complete", "fail"} =>
              \E i \in Items : \E s \in NewStatus(tx[p].op) :
                 item[i] \in Unsettled /\ item' = [item EXCEPT ![i] = s]
<1>1. StrokeInv => AsOne
    <2> SUFFICES ASSUME StrokeInv, NEW p \in Processes, ~shared, Commit(p)
                 PROVE  /\ progress' = CountIn(item')
                        /\ tx[p].op = "release" => item' = PutBack(Items)
                        /\ tx[p].op = "reclaim" => \E I \in SUBSET Items : item' = PutBack(I)
                        /\ tx[p].op \in {"complete", "fail"} =>
                              \E i \in Items : \E s \in NewStatus(tx[p].op) :
                                 item[i] \in Unsettled /\ item' = [item EXCEPT ![i] = s]
        OBVIOUS
    <2>1. tx[p].pc = "commit" /\ item' = Written(p) /\ progress' = tx[p].seen
        BY DEF Commit
    <2>2. progress' = CountIn(item')
        BY <2>1 DEF StrokeInv, CountInv, CountsExact
    <2> QED
        BY <2>2, CommitIs
<1> QED
    BY <1>1, StrokeAlways, PTL DEF CommitsAsOne

\* An item that has succeeded or failed stays as it is, unless two processes
\* execute the job at once: no release, reclaim or late statement takes it back.
\* (queue.py:142-199.)
SettledStays ==
    [][~shared => \A i \in Items : item[i] \notin Unsettled => item'[i] = item[i]]_jobVars

\* No overlap of statements undoes a settled item without a second executor.
THEOREM SettledOnce == JobAssumption => (JobSpec => SettledStays)
<1> SUFFICES ASSUME JobAssumption PROVE JobSpec => SettledStays
    OBVIOUS
<1> DEFINE Stays == ~shared => \A i \in Items : item[i] \notin Unsettled => item'[i] = item[i]
<1>1. StrokeInv /\ [JobNext]_jobVars => Stays
    <2> SUFFICES ASSUME StrokeInv, [JobNext]_jobVars, ~shared, item' # item,
                        NEW i \in Items, item[i] \notin Unsettled
                 PROVE  item'[i] = item[i]
        OBVIOUS
    <2>1. PICK p \in Processes : claim_job_items(p) \/ Commit(p)
        <3>1. PICK p \in Processes :
                 \/ ClaimJob(p) \/ claim_job_items(p) \/ finish_job(p) \/ reclaim_stale_jobs(p)
                 \/ Settle(p, "complete") \/ Settle(p, "fail")
                 \/ Scan(p) \/ WriteItem(p) \/ CountItems(p) \/ WriteProgress(p) \/ Commit(p)
                 \/ ProcessCrash(p)
            BY DEF JobNext, JobDone, jobVars
        <3>2. ~(ClaimJob(p) \/ Settle(p, "complete") \/ Settle(p, "fail"))
            BY DEF ClaimJob, Settle
        <3>3. ~(finish_job(p) \/ reclaim_stale_jobs(p) \/ ProcessCrash(p))
            BY DEF finish_job, reclaim_stale_jobs, ProcessCrash
        <3>4. ~(Scan(p) \/ CountItems(p) \/ WriteProgress(p))
            BY DEF Scan, CountItems, WriteProgress, Moves
        <3>5. ~WriteItem(p)
            BY Zenon DEF WriteItem, Moves
        <3> QED
            BY <3>1, <3>2, <3>3, <3>4, <3>5
    <2>2. CASE claim_job_items(p)
        BY <2>2 DEF claim_job_items, Claimable, Unsettled
    <2>3. CASE Commit(p)
        <3>1. tx[p].op \in {"release", "reclaim", "complete", "fail"}
            BY <2>3 DEF Commit, StrokeInv, CountInv, LockInv, Types, Tx, Own
        <3>2. CASE \E I \in SUBSET Items : item' = PutBack(I)
            BY <3>2 DEF PutBack, Unsettled
        <3>3. CASE \E j \in Items : \E s : item[j] \in Unsettled /\ item' = [item EXCEPT ![j] = s]
            BY <3>3 DEF StrokeInv, CountInv, LockInv, Types
        <3> QED
            BY <2>3, <3>1, <3>2, <3>3, CommitIs
    <2> QED
        BY <2>1, <2>2, <2>3
<1> QED
    BY <1>1, StrokeAlways, PTL DEF SettledStays, JobSpec

-----------------------------------------------------------------------------
(* Deadlocks *)

\* A set that is not empty and has a larger element for each is not finite.
LEMMA NoEndlessAscent ==
    ASSUME NEW V, IsFiniteSet(V), V \subseteq Nat, \A i \in V : \E j \in V : i < j
    PROVE  V = {}
<1> SUFFICES ASSUME V # {} PROVE FALSE
    OBVIOUS
<1> DEFINE From(i) == {k \in V : i <= k}
           T == {From(i) : i \in V}
<1>1. T \subseteq FiniteSubsetsOf(V) /\ T # {}
    <2>1. FiniteSubsetsOf(V) = SUBSET V
        BY FS_FiniteSubsetsOfFinite
    <2>2. T \in SUBSET (SUBSET V) /\ T # {}
        OBVIOUS
    <2> QED
        BY <2>1, <2>2
<1>2. PICK m \in T : \A y \in T : ~(<<y, m>> \in StrictSubsetOrdering(V))
    BY <1>1, FS_StrictSubsetOrderingWellFounded, WFMin
<1>3. PICK i \in V : m = From(i)
    BY <1>2
<1>4. PICK j \in V : i < j
    BY <1>3
<1>5. i \in Nat /\ j \in Nat /\ \A k \in V : k \in Nat
    OBVIOUS
<1>6. From(j) \subseteq From(i)
    <2> SUFFICES ASSUME NEW k \in V, j <= k PROVE i <= k
        OBVIOUS
    <2>1. k \in Nat
        BY <1>5
    <2> QED
        BY <1>4, <1>5, <2>1
<1>7. i \in From(i) /\ i \notin From(j)
    BY <1>4, <1>5
<1>8. <<From(j), m>> \in StrictSubsetOrdering(V)
    BY <1>3, <1>6, <1>7 DEF StrictSubsetOrdering
<1> QED
    BY <1>2, <1>8

\* Whoever has the row of the job without being a reclaim commits and waits for
\* nobody; all others wait at items, each for one further on.
LEMMA LocksAscend == JobAssumption /\ LockInv => OnlyReclaimDeadlocks
<1> SUFFICES ASSUME JobAssumption, LockInv, NEW P \in SUBSET Processes, Deadlocked(P),
                    \A p \in P : tx[p].op # "reclaim"
             PROVE  FALSE
    BY DEF OnlyReclaimDeadlocks
<1>1. P # {} /\ \A p \in P : \E q \in P : Awaits(p, q)
    BY DEF Deadlocked
<1>2. \A p \in P : tx[p].pc \in {"items", "progress"}
    BY <1>1 DEF Awaits, Visits
<1>3. \A p \in P : ~tx[p].job
    BY <1>2 DEF LockInv, Own
<1>4. \A p \in P : \E q \in P : \E i \in DOMAIN tx[q].writes : Visits(p, i)
    BY <1>1, <1>3 DEF Awaits
<1> DEFINE V == {i \in Items : \E p \in P : Visits(p, i)}
<1>5. \A i \in V : \E j \in V : i < j
    <2> SUFFICES ASSUME NEW p \in P, NEW i \in Items, Visits(p, i)
                 PROVE  \E j \in V : i < j
        OBVIOUS
    <2>1. PICK q \in P : \E k \in DOMAIN tx[q].writes : Visits(p, k)
        BY <1>4
    <2>2. PICK k \in DOMAIN tx[q].writes : Visits(p, k)
        BY <2>1
    <2>3. tx[p].todo \subseteq Items /\ Items \subseteq Nat
        BY DEF LockInv, Types, Tx, JobAssumption
    <2>4. k = i
        <3>1. i \in tx[p].todo /\ k \in tx[p].todo /\ i <= k /\ k <= i
            BY <2>2 DEF Visits
        <3>2. i \in Nat /\ k \in Nat
            BY <2>3, <3>1
        <3> QED
            BY <3>1, <3>2
    <2>5. PICK j \in tx[q].todo : Visits(q, j)
        BY <1>4 DEF Visits
    <2>6. i < j
        BY <2>2, <2>4, <2>5 DEF LockInv, Own
    <2>7. j \in V
        BY <2>5 DEF LockInv, Types, Tx
    <2> QED
        BY <2>6, <2>7
<1>6. IsFiniteSet(V) /\ V \subseteq Nat
    BY FS_Subset DEF JobAssumption
<1>7. V = {}
    BY <1>5, <1>6, NoEndlessAscent
<1>8. PICK p \in P, q \in P : \E i \in DOMAIN tx[q].writes : Visits(p, i)
    BY <1>1, <1>4
<1>9. \E i \in Items : Visits(p, i)
    BY <1>8 DEF Visits, LockInv, Types, Tx
<1> QED
    BY <1>7, <1>9

\* Every deadlock of the queue's transactions involves a reclaim.
\* (queue.py:326-345, 142-199.)
THEOREM ReclaimInDeadlocks == JobAssumption => (JobSpec => []OnlyReclaimDeadlocks)
<1> SUFFICES ASSUME JobAssumption PROVE JobSpec => []OnlyReclaimDeadlocks
    OBVIOUS
<1>1. CountInv => OnlyReclaimDeadlocks
    BY LocksAscend DEF CountInv
<1>2. JobSpec => []CountInv
    BY CountsHold
<1> QED
    BY <1>1, <1>2, PTL
=============================================================================
