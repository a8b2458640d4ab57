------------------------------ MODULE Catalogue ------------------------------
(***************************************************************************)
(* Corpora, documents, datasets and cases, and the three requests that      *)
(* write many rows: importing cases, adding documents, creating a run.       *)
(*                                                                         *)
(* Each of them checks with plain reads and then writes in a transaction    *)
(* (a run's reads are inside it, but every statement has a snapshot of its   *)
(* own), so others act between any two statements.  What a transaction has   *)
(* written is visible to others when it commits; until then an insert of an  *)
(* equal unique key, and a delete of a row it refers to, has to wait.         *)
(***************************************************************************)
EXTENDS Integers, Sequences, FiniteSets

CONSTANTS
    Clients, Projects, Names, Docs, Qids,
    CaseFiles,    \* the files people import: sequences of lines [qid, docs]
    DocLists,     \* the documents people add: sequences without repetition
    MaxEdits,     \* bound: single-statement requests in a behaviour
    Null          \* no answer yet; no corpus

VARIABLES
    corpora,      \* id -> [project, name]
    datasets,     \* id -> [project, name]
    documents,    \* rows [corpus, doc]
    cases,        \* rows [dataset, qid]
    runs,         \* rows [by, project, dataset, corpus, total, items]
    req,          \* the request of every client
    edits

\* documents.go:65 refuses a list that repeats a document.  The rows there are at
\* first have names and identifiers like any other.
CatalogueAssumption ==
    /\ 1 \in Projects /\ "n1" \in Names /\ "a" \in Docs /\ "q1" \in Qids
    /\ CaseFiles \subseteq Seq([qid : Qids, docs : SUBSET Docs])
    /\ DocLists \subseteq Seq(Docs)
    /\ \A list \in DocLists : \A i, j \in 1 .. Len(list) : list[i] = list[j] => i = j
    /\ Null # "ok"

tables == <<corpora, datasets, documents, cases, runs>>
catalogueVars == <<tables, req, edits>>

\* A request: its next statement, the lines left to write, what it has read,
\* rows written but not committed (own) and rows committed (stored).
Fresh(op, target, corpus, lines) ==
    [op |-> op, pc |-> "first", target |-> target, corpus |-> corpus, lines |-> lines,
     left |-> 1 .. Len(lines), project |-> 0, qids |-> {}, count |-> 0,
     imported |-> 0, errors |-> {}, conflicts |-> {}, own |-> {}, stored |-> {}, answer |-> Null]

Idle == Fresh("idle", 0, Null, <<>>)

CatalogueInit ==
    /\ corpora = [i \in {1} |-> [project |-> 1, name |-> "n1"]]
    /\ datasets = [i \in {1} |-> [project |-> 1, name |-> "n1"]]
    /\ documents = {[corpus |-> 1, doc |-> "a"]}
    /\ cases \in {{}, {[dataset |-> 1, qid |-> "q1"]}}
    /\ runs = {}
    /\ req = [c \in Clients |-> Idle]
    /\ edits = 0

(***************************************************************************)
(* Statements.                                                             *)
(***************************************************************************)
At(c, op, pc) == req[c].op = op /\ req[c].pc = pc

Go(c, r) == req' = [req EXCEPT ![c] = r] /\ UNCHANGED <<tables, edits>>

\* The answer; a transaction that did not commit is rolled back.
Answer(c, status) ==
    Go(c, [req[c] EXCEPT !.pc = "done", !.own = {}, !.answer = status])

\* COMMIT of a transaction that wrote its rows.
Commits(c) ==
    /\ req' = [req EXCEPT ![c].pc = "done", ![c].own = {}, ![c].stored = req[c].own,
                          ![c].answer = "ok"]
    /\ UNCHANGED edits

CasesOf(d) == {row \in cases : row.dataset = d}

\* The line the next insert of c is about, the row it writes, and whose commit
\* it has to wait for.
NextLine(c) == CHOOSE i \in req[c].left : \A j \in req[c].left : i <= j

NextRow(c) ==
    LET line == req[c].lines[NextLine(c)]
    IN  IF req[c].op = "import" THEN [dataset |-> req[c].target, qid |-> line.qid]
        ELSE [corpus |-> req[c].target, doc |-> line]

Inserting(c) == req[c].pc = "insert" /\ req[c].left # {}

WaitsFor(c, d) ==
    /\ c # d /\ req[c].op = req[d].op
    /\ Inserting(c) /\ req[c].conflicts = {}
    /\ NextRow(c) \in req[d].own

\* PostgreSQL ends the wait of two transactions on each other: 40P01 for one.
DeadlockDetected(c) ==
    /\ \E d \in Clients : WaitsFor(c, d) /\ WaitsFor(d, c)
    /\ Answer(c, "error")

Free(c) == \A d \in Clients : ~WaitsFor(c, d)

Wrote(c) == [req[c] EXCEPT !.own = @ \cup {NextRow(c)}, !.left = @ \ {NextLine(c)}, !.imported = @ + 1]

(***************************************************************************)
(* Importing cases.                                                        *)
(***************************************************************************)
ImportReadsProject(c) ==
    /\ At(c, "import", "first")
    /\ IF req[c].target \in DOMAIN datasets
       THEN Go(c, [req[c] EXCEPT !.pc = "qids", !.project = datasets[req[c].target].project])
       ELSE Answer(c, "missing")

caseQIDs(c) ==
    /\ At(c, "import", "qids")
    /\ Go(c, [req[c] EXCEPT !.pc = "docs", !.qids = {row.qid : row \in CasesOf(req[c].target)}])

projectDocIDs(project) ==
    {row.doc : row \in {d \in documents : corpora[d.corpus].project = project}}

\* A line is good when its qid is new, its documents exist, and no good line
\* before it has its qid.
GoodLines(r, docs) ==
    LET Good(i) == r.lines[i].qid \notin r.qids /\ r.lines[i].docs \subseteq docs
    IN  {i \in 1 .. Len(r.lines) :
            /\ Good(i)
            /\ \A j \in 1 .. i - 1 : Good(j) => r.lines[j].qid # r.lines[i].qid}

CheckLines(c) ==
    /\ At(c, "import", "docs")
    /\ LET r    == req[c]
           good == GoodLines(r, projectDocIDs(r.project))
           bad  == (1 .. Len(r.lines)) \ good
       IN  Go(c, [r EXCEPT !.left = good, !.errors = bad,
                           !.pc = IF good = {} THEN "done" ELSE "insert",
                           !.answer = IF good = {} THEN "ok" ELSE Null])

\* After a unique violation the code goes on to the next line; the transaction
\* is aborted, though, and the next statement fails whatever it is.
InsertCase(c) ==
    /\ At(c, "import", "insert") /\ Inserting(c) /\ Free(c)
    /\ IF req[c].conflicts # {} \/ req[c].target \notin DOMAIN datasets
       THEN Answer(c, "error")
       ELSE IF NextRow(c) \in cases
       THEN LET line == NextLine(c)
            IN  Go(c, [req[c] EXCEPT !.conflicts = {line}, !.errors = @ \cup {line},
                                     !.left = @ \ {line}, !.own = {}])
       ELSE Go(c, Wrote(c))

\* Mutant: the outcome of the commit is not looked at.
CommitCases_Blind(c) ==
    /\ At(c, "import", "insert") /\ req[c].left = {}
    /\ Commits(c)
    /\ cases' = cases \cup req[c].own
    /\ UNCHANGED <<corpora, datasets, documents, runs>>

\* The commit of an aborted transaction is a rollback, reported as an error.
CommitCases(c) ==
    /\ At(c, "import", "insert") /\ req[c].left = {}
    /\ IF req[c].conflicts # {} THEN Answer(c, "error")
       ELSE /\ Commits(c)
            /\ cases' = cases \cup req[c].own
            /\ UNCHANGED <<corpora, datasets, documents, runs>>

ImportValidCases(c) ==
    ImportReadsProject(c) \/ caseQIDs(c) \/ CheckLines(c) \/ InsertCase(c) \/ CommitCases(c)

(***************************************************************************)
(* Adding documents.                                                       *)
(***************************************************************************)
corpusExists(c) ==
    /\ At(c, "documents", "first")
    /\ IF req[c].target \in DOMAIN corpora
       THEN Go(c, [req[c] EXCEPT !.pc = "existing"])
       ELSE Answer(c, "missing")

existingDocIDs(c) ==
    /\ At(c, "documents", "existing")
    /\ IF \E i \in 1 .. Len(req[c].lines) :
             [corpus |-> req[c].target, doc |-> req[c].lines[i]] \in documents
       THEN Answer(c, "conflict")
       ELSE Go(c, [req[c] EXCEPT !.pc = "insert"])

InsertDocument(c) ==
    /\ At(c, "documents", "insert") /\ Inserting(c) /\ Free(c)
    /\ IF req[c].target \notin DOMAIN corpora THEN Answer(c, "error")
       ELSE IF NextRow(c) \in documents THEN Answer(c, "conflict")
       ELSE Go(c, Wrote(c))

CommitDocuments(c) ==
    /\ At(c, "documents", "insert") /\ req[c].left = {}
    /\ Commits(c)
    /\ documents' = documents \cup req[c].own
    /\ UNCHANGED <<corpora, datasets, cases, runs>>

CreateDocuments(c) ==
    corpusExists(c) \/ existingDocIDs(c) \/ InsertDocument(c) \/ CommitDocuments(c)

(***************************************************************************)
(* Creating a run with its job and one item per case.                      *)
(***************************************************************************)
ReadDataset(c) ==
    /\ At(c, "run", "first")
    /\ IF req[c].target \in DOMAIN datasets
       THEN Go(c, [req[c] EXCEPT !.pc = "corpus", !.project = datasets[req[c].target].project])
       ELSE Answer(c, "missing")

\* Mutant: the corpus may be another project's.
ReadCorpus_AnyProject(c) ==
    /\ At(c, "run", "corpus")
    /\ IF req[c].corpus \notin DOMAIN corpora THEN Answer(c, "missing")
       ELSE Go(c, [req[c] EXCEPT !.pc = "count"])

ReadCorpus(c) ==
    /\ At(c, "run", "corpus")
    /\ IF req[c].corpus \notin DOMAIN corpora THEN Answer(c, "missing")
       ELSE IF corpora[req[c].corpus].project # req[c].project THEN Answer(c, "refused")
       ELSE Go(c, [req[c] EXCEPT !.pc = "count"])

CountCases(c) ==
    /\ At(c, "run", "count")
    /\ LET n == Cardinality(CasesOf(req[c].target))
       IN  IF n = 0 THEN Answer(c, "refused")
           ELSE Go(c, [req[c] EXCEPT !.pc = "run", !.count = n])

InsertRun(c) ==
    /\ At(c, "run", "run")
    /\ IF req[c].target \notin DOMAIN datasets \/ req[c].corpus \notin DOMAIN corpora
       THEN Answer(c, "missing")
       ELSE Go(c, [req[c] EXCEPT !.pc = "items",
                     !.own = {[by |-> c, project |-> req[c].project, dataset |-> req[c].target,
                               corpus |-> req[c].corpus, total |-> req[c].count, items |-> {}]}])

InsertItems(c) ==
    /\ At(c, "run", "items")
    /\ IF Cardinality(CasesOf(req[c].target)) # req[c].count THEN Answer(c, "error")
       ELSE Go(c, [req[c] EXCEPT !.pc = "commit",
                     !.own = {[r EXCEPT !.items = CasesOf(req[c].target)] : r \in @}])

CommitRun(c) ==
    /\ At(c, "run", "commit")
    /\ Commits(c)
    /\ runs' = runs \cup req[c].own
    /\ UNCHANGED <<corpora, datasets, documents, cases>>

CreateRunWithJob(c) ==
    \/ ReadDataset(c) \/ ReadCorpus(c) \/ CountCases(c)
    \/ InsertRun(c) \/ InsertItems(c) \/ CommitRun(c)

(***************************************************************************)
(* Single statements.  A delete waits for rows that refer to what it deletes *)
(* and are not committed, and then takes everything below it along.          *)
(***************************************************************************)
NewId == edits + 2

Pending(op) == UNION {req[c].own : c \in {d \in Clients : req[d].op = op}}

Edit == edits < MaxEdits /\ edits' = edits + 1 /\ UNCHANGED req

NameTaken(table, project, name) ==
    \E i \in DOMAIN table : table[i] = [project |-> project, name |-> name]

Added(table, row) ==
    [i \in DOMAIN table \cup {NewId} |-> IF i = NewId THEN row ELSE table[i]]

Drop(table, id) == [i \in DOMAIN table \ {id} |-> table[i]]

CreateCorpus(project, name) ==
    /\ Edit /\ ~NameTaken(corpora, project, name)
    /\ corpora' = Added(corpora, [project |-> project, name |-> name])
    /\ UNCHANGED <<datasets, documents, cases, runs>>

UpdateCorpus(id, name) ==
    /\ Edit /\ ~NameTaken(corpora, corpora[id].project, name)
    /\ corpora' = [corpora EXCEPT ![id].name = name]
    /\ UNCHANGED <<datasets, documents, cases, runs>>

DeleteCorpus(id) ==
    /\ Edit
    /\ \A d \in Pending("documents") : d.corpus # id
    /\ \A r \in Pending("run") : r.corpus # id
    /\ corpora' = Drop(corpora, id)
    /\ documents' = {d \in documents : d.corpus # id}
    /\ runs' = {[r EXCEPT !.corpus = IF @ = id THEN Null ELSE @] : r \in runs}
    /\ UNCHANGED <<datasets, cases>>

CreateDataset(project, name) ==
    /\ Edit /\ ~NameTaken(datasets, project, name)
    /\ datasets' = Added(datasets, [project |-> project, name |-> name])
    /\ UNCHANGED <<corpora, documents, cases, runs>>

DeleteDataset(id) ==
    /\ Edit
    /\ \A row \in Pending("import") \cup Pending("run") : row.dataset # id
    /\ datasets' = Drop(datasets, id)
    /\ cases' = {row \in cases : row.dataset # id}
    /\ runs' = {r \in runs : r.dataset # id}
    /\ UNCHANGED <<corpora, documents>>

DeleteDocument(row) ==
    /\ Edit
    /\ documents' = documents \ {row}
    /\ UNCHANGED <<corpora, datasets, cases, runs>>

DeleteCase(row) ==
    /\ Edit
    /\ \A r \in Pending("run") : row \notin r.items
    /\ cases' = cases \ {row}
    /\ runs' = {[r EXCEPT !.items = @ \ {row}] : r \in runs}
    /\ UNCHANGED <<corpora, datasets, documents>>

(***************************************************************************)
(* Every client makes one request.                                         *)
(***************************************************************************)
Begin(c) ==
    /\ req[c] = Idle
    /\ \E id \in {1, 2} :
          \/ \E file \in CaseFiles : Go(c, Fresh("import", id, Null, file))
          \/ \E list \in DocLists : Go(c, Fresh("documents", id, Null, list))
          \/ \E corpus \in {1, 2} : Go(c, Fresh("run", id, corpus, <<>>))

\* All requests are answered: nothing more has to happen.
Terminating == (\A c \in Clients : req[c].pc = "done") /\ UNCHANGED catalogueVars

CatalogueNext ==
    \/ \E c \in Clients :
          \/ Begin(c) \/ ImportValidCases(c) \/ CreateDocuments(c) \/ CreateRunWithJob(c)
          \/ DeadlockDetected(c)
    \/ \E p \in Projects, n \in Names : CreateCorpus(p, n) \/ CreateDataset(p, n)
    \/ \E id \in DOMAIN corpora : DeleteCorpus(id) \/ \E n \in Names : UpdateCorpus(id, n)
    \/ \E id \in DOMAIN datasets : DeleteDataset(id)
    \/ \E row \in documents : DeleteDocument(row)
    \/ \E row \in cases : DeleteCase(row)
    \/ Terminating

CatalogueSpec == CatalogueInit /\ [][CatalogueNext]_catalogueVars

(***************************************************************************)
(* Properties.                                                             *)
(***************************************************************************)
Answered(c, op) == At(c, op, "done")

\* Types, and references: cases, runs and items only of rows that are there.
CatalogueTypeOK ==
    /\ \A i \in DOMAIN corpora : corpora[i] \in [project : Projects, name : Names]
    /\ \A i \in DOMAIN datasets : datasets[i] \in [project : Projects, name : Names]
    /\ documents \subseteq [corpus : DOMAIN corpora, doc : Docs]
    /\ cases \subseteq [dataset : DOMAIN datasets, qid : Qids]
    /\ \A r \in runs : r.dataset \in DOMAIN datasets /\ r.items \subseteq CasesOf(r.dataset)

\* What a request answers is what it stored, whoever came in between.  An import
\* with a report stored as many rows as it counts, and every line of the file is
\* stored or in the report; documents are added all or none; a run has an item
\* for each of the cases its progress counts, at least one.  An error means that
\* nothing was stored.  (case.go, document.go, queue.go:59-161.)
AnsweredAsStored ==
    \A c \in Clients :
        LET r == req[c] IN
        IF r.answer # "ok" THEN r.stored = {}
        ELSE CASE r.op = "import" ->
                    /\ Cardinality(r.stored) = r.imported
                    /\ r.imported + Cardinality(r.errors) = Len(r.lines)
               [] r.op = "documents" -> Cardinality(r.stored) = Len(r.lines)
               [] r.op = "run" ->
                    \A row \in r.stored : row.items # {} /\ Cardinality(row.items) = row.total

\* M7-2: a run takes its dataset and its corpus from one project, its own.
RunOfOneProject ==
    \A r \in runs :
        /\ datasets[r.dataset].project = r.project
        /\ r.corpus # Null => corpora[r.corpus].project = r.project

\* case.go:78: a bad line only goes to the report and does not harm the good
\* ones.  A qid that another import stored first makes the whole import fail.
GoodRowsImported ==
    \A c \in Clients : (Answered(c, "import") /\ req[c].conflicts # {}) => req[c].answer = "ok"
=============================================================================
