--------------------------- MODULE CatalogueProofs ---------------------------
(***************************************************************************)
(* Proofs about Catalogue for any number of clients, projects and names,    *)
(* any files and any number of edits: a run stays within one project, an    *)
(* answer tells what was stored, and rows refer to rows that are there.     *)
(*                                                                         *)
(* Of a request and of a run the first proof needs to know which fields     *)
(* they have, and the type of none of them.                                 *)
(***************************************************************************)
EXTENDS Catalogue, FiniteSetTheorems, SequenceTheorems,
        WellFoundedInduction, TLAPS

RequestFields == {"op", "pc", "target", "corpus", "lines", "left", "project", "qids", "count",
                  "imported", "errors", "conflicts", "own", "stored", "answer"}
RunFields == {"by", "project", "dataset", "corpus", "total", "items"}
RowFields == {"project", "name"}

\* Rows that belong to projects; ids below next have been given.
Table(table, next) ==
    \A i \in DOMAIN table : i \in Int /\ i < next /\ DOMAIN table[i] = RowFields

\* An id that was read is of this project, or of nothing any more.
ReadAs(table, id, project, next) ==
    id \in Int /\ id < next /\ (id \in DOMAIN table => table[id].project = project)

\* What a row of runs says of its project is true.
Within(row, ds, cs) ==
    /\ DOMAIN row = RunFields
    /\ row.dataset \in DOMAIN ds /\ ds[row.dataset].project = row.project
    /\ row.corpus # Null => row.corpus \in DOMAIN cs /\ cs[row.corpus].project = row.project

RequestInv(r, ds, cs, next) ==
    /\ DOMAIN r = RequestFields
    /\ r.op = "run" =>
        /\ r.pc \in {"corpus", "count", "run", "items", "commit"} =>
              ReadAs(ds, r.target, r.project, next)
        /\ r.pc \in {"count", "run", "items", "commit"} => ReadAs(cs, r.corpus, r.project, next)
        /\ \A row \in r.own : Within(row, ds, cs)

CatalogueInv ==
    /\ edits \in Nat
    /\ Table(corpora, NewId) /\ Table(datasets, NewId)
    /\ DOMAIN req = Clients
    /\ \A c \in Clients : RequestInv(req[c], datasets, corpora, NewId)
    /\ \A row \in runs : Within(row, datasets, corpora)

-----------------------------------------------------------------------------
(* Steps of requests *)

LEMMA FreshInv ==
    ASSUME NEW op, NEW target, NEW corpus, NEW lines, NEW ds, NEW cs, NEW next
    PROVE  RequestInv(Fresh(op, target, corpus, lines), ds, cs, next)
<1> DEFINE r == Fresh(op, target, corpus, lines)
<1>1. DOMAIN r = RequestFields /\ r.pc = "first" /\ r.own = {}
  BY DEF Fresh, RequestFields
<1> HIDE DEF r
<1>2. RequestInv(r, ds, cs, next)
  BY <1>1 DEF RequestInv
<1> QED BY <1>2 DEF r

LEMMA InitInv == CatalogueInit => CatalogueInv
<1> SUFFICES ASSUME CatalogueInit PROVE CatalogueInv
  OBVIOUS
<1>1. edits \in Nat /\ NewId = 2 /\ runs = {}
  BY DEF CatalogueInit, NewId
<1>2. /\ corpora = [i \in {1} |-> [project |-> 1, name |-> "n1"]]
      /\ datasets = [i \in {1} |-> [project |-> 1, name |-> "n1"]]
  BY DEF CatalogueInit
<1>3. Table(corpora, NewId) /\ Table(datasets, NewId)
  BY <1>1, <1>2 DEF Table, RowFields
<1>4. DOMAIN req = Clients /\ \A c \in Clients : req[c] = Idle
  BY DEF CatalogueInit
<1>5. \A c \in Clients : RequestInv(req[c], datasets, corpora, NewId)
  BY <1>4, FreshInv DEF Idle
<1> QED BY <1>1, <1>3, <1>4, <1>5 DEF CatalogueInv

\* One request goes on to r; the projects stay as they are.
LEMMA StepInv ==
    ASSUME CatalogueInv, NEW c \in Clients, NEW r, req' = [req EXCEPT ![c] = r],
           RequestInv(r, datasets, corpora, NewId),
           UNCHANGED <<corpora, datasets, edits>>,
           \A row \in runs' : Within(row, datasets, corpora)
    PROVE  CatalogueInv'
<1>1. NewId' = NewId
  BY DEF NewId
<1>2. DOMAIN req' = Clients /\ \A d \in Clients : req'[d] = IF d = c THEN r ELSE req[d]
  BY DEF CatalogueInv
<1>3. \A d \in Clients : RequestInv(req'[d], datasets', corpora', NewId')
  BY <1>1, <1>2 DEF CatalogueInv
<1> QED BY <1>1, <1>2, <1>3 DEF CatalogueInv

LEMMA GoInv ==
    ASSUME CatalogueInv, NEW c \in Clients, NEW r, Go(c, r),
           RequestInv(r, datasets, corpora, NewId)
    PROVE  CatalogueInv'
<1>1. /\ req' = [req EXCEPT ![c] = r]
      /\ UNCHANGED <<corpora, datasets, edits>> /\ runs' = runs
  BY DEF Go, tables
<1>2. \A row \in runs' : Within(row, datasets, corpora)
  BY <1>1 DEF CatalogueInv
<1> QED BY <1>1, <1>2, StepInv

LEMMA AnswerInv ==
    ASSUME CatalogueInv, NEW c \in Clients, NEW status, Answer(c, status)
    PROVE  CatalogueInv'
<1> DEFINE r == [req[c] EXCEPT !.pc = "done", !.own = {}, !.answer = status]
<1>1. DOMAIN req[c] = RequestFields
  BY DEF CatalogueInv, RequestInv
<1>2. DOMAIN r = RequestFields /\ r.pc = "done" /\ r.own = {}
  BY <1>1 DEF RequestFields
<1>3. Go(c, r)
  BY DEF Answer
<1> HIDE DEF r
<1>4. RequestInv(r, datasets, corpora, NewId)
  BY <1>2 DEF RequestInv
<1> QED BY <1>3, <1>4, GoInv

\* A request of another kind has nothing to do with runs.
LEMMA OtherInv ==
    ASSUME CatalogueInv, NEW c \in Clients, req[c].op # "run", NEW r, Go(c, r),
           DOMAIN r = RequestFields, r.op = req[c].op
    PROVE  CatalogueInv'
BY GoInv DEF RequestInv

LEMMA CommitsInv ==
    ASSUME CatalogueInv, NEW c \in Clients, Commits(c), UNCHANGED <<corpora, datasets>>,
           \A row \in runs' : Within(row, datasets, corpora)
    PROVE  CatalogueInv'
<1> DEFINE r == [req[c] EXCEPT !.pc = "done", !.own = {}, !.stored = req[c].own, !.answer = "ok"]
<1>1. DOMAIN req[c] = RequestFields /\ DOMAIN req = Clients
  BY DEF CatalogueInv, RequestInv
<1>2. DOMAIN r = RequestFields /\ r.pc = "done" /\ r.own = {}
  BY <1>1 DEF RequestFields
<1>3. req' = [req EXCEPT ![c] = r] /\ UNCHANGED edits
  BY <1>1 DEF Commits
<1> HIDE DEF r
<1>4. RequestInv(r, datasets, corpora, NewId)
  BY <1>2 DEF RequestInv
<1> QED BY <1>3, <1>4, StepInv

LEMMA ImportInv ==
    ASSUME CatalogueInv, NEW c \in Clients, ImportValidCases(c)
    PROVE  CatalogueInv'
<1>1. DOMAIN req[c] = RequestFields
  BY DEF CatalogueInv, RequestInv
<1>2. req[c].op = "import"
  BY DEF ImportValidCases, ImportReadsProject, caseQIDs, CheckLines, InsertCase, CommitCases, At
<1>3. CASE ImportReadsProject(c)
  <2> DEFINE r == [req[c] EXCEPT !.pc = "qids", !.project = datasets[req[c].target].project]
  <2>1. DOMAIN r = RequestFields /\ r.op = req[c].op
    BY <1>1 DEF RequestFields
  <2>2. Go(c, r) \/ Answer(c, "missing")
    BY <1>3 DEF ImportReadsProject
  <2> HIDE DEF r
  <2> QED BY <1>2, <2>1, <2>2, OtherInv, AnswerInv
<1>4. CASE caseQIDs(c)
  <2> DEFINE r == [req[c] EXCEPT !.pc = "docs", !.qids = {row.qid : row \in CasesOf(req[c].target)}]
  <2>1. DOMAIN r = RequestFields /\ r.op = req[c].op
    BY <1>1 DEF RequestFields
  <2>2. Go(c, r)
    BY <1>4 DEF caseQIDs
  <2> HIDE DEF r
  <2> QED BY <1>2, <2>1, <2>2, OtherInv
<1>5. CASE CheckLines(c)
  <2>1. PICK left, errors, pc, answer :
            Go(c, [req[c] EXCEPT !.left = left, !.errors = errors, !.pc = pc, !.answer = answer])
    BY <1>5 DEF CheckLines
  <2> DEFINE r == [req[c] EXCEPT !.left = left, !.errors = errors, !.pc = pc, !.answer = answer]
  <2>2. DOMAIN r = RequestFields /\ r.op = req[c].op
    BY <1>1 DEF RequestFields
  <2>3. Go(c, r)
    BY <2>1
  <2> HIDE DEF r
  <2> QED BY <1>2, <2>2, <2>3, OtherInv
<1>6. CASE InsertCase(c)
  <2> DEFINE line == NextLine(c)
             q == [req[c] EXCEPT !.conflicts = {line}, !.errors = @ \cup {line},
                                 !.left = @ \ {line}, !.own = {}]
  <2>1. DOMAIN q = RequestFields /\ q.op = req[c].op
    BY <1>1 DEF RequestFields
  <2>2. DOMAIN Wrote(c) = RequestFields /\ Wrote(c).op = req[c].op
    BY <1>1 DEF Wrote, RequestFields
  <2>3. Answer(c, "error") \/ Go(c, q) \/ Go(c, Wrote(c))
    BY <1>6 DEF InsertCase
  <2> HIDE DEF q
  <2> QED BY <1>2, <2>1, <2>2, <2>3, OtherInv, AnswerInv
<1>7. CASE CommitCases(c)
  <2>1. Answer(c, "error") \/ (Commits(c) /\ UNCHANGED <<corpora, datasets, runs>>)
    BY <1>7 DEF CommitCases
  <2> QED BY <2>1, AnswerInv, CommitsInv DEF CatalogueInv
<1> QED BY <1>3, <1>4, <1>5, <1>6, <1>7 DEF ImportValidCases

LEMMA DocumentsInv ==
    ASSUME CatalogueInv, NEW c \in Clients, CreateDocuments(c)
    PROVE  CatalogueInv'
<1>1. DOMAIN req[c] = RequestFields
  BY DEF CatalogueInv, RequestInv
<1>2. req[c].op = "documents"
  BY DEF CreateDocuments, corpusExists, existingDocIDs, InsertDocument, CommitDocuments, At
<1>3. ASSUME NEW pc, Go(c, [req[c] EXCEPT !.pc = pc])
      PROVE  CatalogueInv'
  <2> DEFINE r == [req[c] EXCEPT !.pc = pc]
  <2>1. DOMAIN r = RequestFields /\ r.op = req[c].op
    BY <1>1 DEF RequestFields
  <2>2. Go(c, r)
    BY <1>3
  <2> HIDE DEF r
  <2> QED BY <1>2, <2>1, <2>2, OtherInv
<1>4. CASE corpusExists(c) \/ existingDocIDs(c)
  BY <1>3, <1>4, AnswerInv DEF corpusExists, existingDocIDs
<1>5. CASE InsertDocument(c)
  <2>1. DOMAIN Wrote(c) = RequestFields /\ Wrote(c).op = req[c].op
    BY <1>1 DEF Wrote, RequestFields
  <2>2. Answer(c, "error") \/ Answer(c, "conflict") \/ Go(c, Wrote(c))
    BY <1>5 DEF InsertDocument
  <2> QED BY <1>2, <2>1, <2>2, OtherInv, AnswerInv
<1>6. CASE CommitDocuments(c)
  BY <1>6, CommitsInv DEF CommitDocuments, CatalogueInv
<1> QED BY <1>4, <1>5, <1>6 DEF CreateDocuments

\* What a submission has read and written stays within its project.
LEMMA RunInv ==
    ASSUME CatalogueInv, NEW c \in Clients, CreateRunWithJob(c)
    PROVE  CatalogueInv'
<1>1. DOMAIN req[c] = RequestFields /\ RequestInv(req[c], datasets, corpora, NewId)
  BY DEF CatalogueInv, RequestInv
<1>2. req[c].op = "run"
  BY DEF CreateRunWithJob, ReadDataset, ReadCorpus, CountCases, InsertRun, InsertItems, CommitRun, At
<1>3. \A row \in req[c].own : Within(row, datasets, corpora)
  BY <1>1, <1>2 DEF RequestInv
<1>4. CASE ReadDataset(c)
  <2> DEFINE r == [req[c] EXCEPT !.pc = "corpus", !.project = datasets[req[c].target].project]
  <2>1. \/ Answer(c, "missing")
        \/ req[c].target \in DOMAIN datasets /\ Go(c, r)
    BY <1>4 DEF ReadDataset
  <2>2. /\ DOMAIN r = RequestFields /\ r.pc = "corpus" /\ r.own = req[c].own
        /\ r.target = req[c].target /\ r.project = datasets[req[c].target].project
    BY <1>1 DEF RequestFields
  <2> HIDE DEF r
  <2>3. ASSUME req[c].target \in DOMAIN datasets
        PROVE  RequestInv(r, datasets, corpora, NewId)
    <3>1. ReadAs(datasets, r.target, r.project, NewId)
      BY <2>2, <2>3 DEF CatalogueInv, Table, ReadAs
    <3> QED BY <1>3, <2>2, <3>1 DEF RequestInv
  <2> QED BY <2>1, <2>3, AnswerInv, GoInv
<1>5. CASE ReadCorpus(c)
  <2> DEFINE r == [req[c] EXCEPT !.pc = "count"]
  <2>1. \/ Answer(c, "missing") \/ Answer(c, "refused")
        \/ /\ req[c].corpus \in DOMAIN corpora /\ corpora[req[c].corpus].project = req[c].project
           /\ Go(c, r)
    BY <1>5 DEF ReadCorpus
  <2>2. /\ DOMAIN r = RequestFields /\ r.pc = "count" /\ r.own = req[c].own
        /\ r.target = req[c].target /\ r.corpus = req[c].corpus /\ r.project = req[c].project
    BY <1>1 DEF RequestFields
  <2> HIDE DEF r
  <2>3. ASSUME req[c].corpus \in DOMAIN corpora, corpora[req[c].corpus].project = req[c].project
        PROVE  RequestInv(r, datasets, corpora, NewId)
    <3>1. ReadAs(datasets, r.target, r.project, NewId)
      BY <1>1, <1>2, <1>5, <2>2 DEF RequestInv, ReadCorpus, At
    <3>2. ReadAs(corpora, r.corpus, r.project, NewId)
      BY <2>2, <2>3 DEF CatalogueInv, Table, ReadAs
    <3> QED BY <1>3, <2>2, <3>1, <3>2 DEF RequestInv
  <2> QED BY <2>1, <2>3, AnswerInv, GoInv
<1>6. CASE CountCases(c)
  <2> DEFINE n == Cardinality(CasesOf(req[c].target))
             r == [req[c] EXCEPT !.pc = "run", !.count = n]
  <2>1. Answer(c, "refused") \/ Go(c, r)
    BY <1>6 DEF CountCases
  <2>2. /\ DOMAIN r = RequestFields /\ r.pc = "run" /\ r.own = req[c].own
        /\ r.target = req[c].target /\ r.corpus = req[c].corpus /\ r.project = req[c].project
    BY <1>1 DEF RequestFields
  <2> HIDE DEF r
  <2>3. RequestInv(r, datasets, corpora, NewId)
    <3>1. /\ ReadAs(datasets, r.target, r.project, NewId)
          /\ ReadAs(corpora, r.corpus, r.project, NewId)
      BY <1>1, <1>2, <1>6, <2>2 DEF RequestInv, CountCases, At
    <3> QED BY <1>3, <2>2, <3>1 DEF RequestInv
  <2> QED BY <2>1, <2>3, AnswerInv, GoInv
<1>7. CASE InsertRun(c)
  <2> DEFINE row == [by |-> c, project |-> req[c].project, dataset |-> req[c].target,
                     corpus |-> req[c].corpus, total |-> req[c].count, items |-> {}]
             r == [req[c] EXCEPT !.pc = "items", !.own = {row}]
  <2>1. \/ Answer(c, "missing")
        \/ req[c].target \in DOMAIN datasets /\ req[c].corpus \in DOMAIN corpora /\ Go(c, r)
    BY <1>7 DEF InsertRun
  <2>2. /\ DOMAIN row = RunFields /\ row.project = req[c].project
        /\ row.dataset = req[c].target /\ row.corpus = req[c].corpus
    BY DEF RunFields
  <2> HIDE DEF row
  <2>3. /\ DOMAIN r = RequestFields /\ r.pc = "items" /\ r.own = {row}
        /\ r.target = req[c].target /\ r.corpus = req[c].corpus /\ r.project = req[c].project
    BY <1>1 DEF RequestFields
  <2> HIDE DEF r
  <2>4. /\ ReadAs(datasets, req[c].target, req[c].project, NewId)
        /\ ReadAs(corpora, req[c].corpus, req[c].project, NewId)
    BY <1>1, <1>2, <1>7 DEF RequestInv, InsertRun, At
  <2>5. ASSUME req[c].target \in DOMAIN datasets, req[c].corpus \in DOMAIN corpora
        PROVE  RequestInv(r, datasets, corpora, NewId)
    <3>1. Within(row, datasets, corpora)
      BY <2>2, <2>4, <2>5 DEF Within, ReadAs
    <3> QED BY <2>3, <2>4, <3>1 DEF RequestInv
  <2> QED BY <2>1, <2>5, AnswerInv, GoInv
<1>8. CASE InsertItems(c)
  <2> DEFINE own == {[row EXCEPT !.items = CasesOf(req[c].target)] : row \in req[c].own}
             r == [req[c] EXCEPT !.pc = "commit", !.own = own]
  <2>1. Answer(c, "error") \/ Go(c, r)
    BY <1>8 DEF InsertItems
  <2>2. \A row \in own : Within(row, datasets, corpora)
    BY <1>3 DEF Within, RunFields
  <2> HIDE DEF own
  <2>3. /\ DOMAIN r = RequestFields /\ r.pc = "commit" /\ r.own = own
        /\ r.target = req[c].target /\ r.corpus = req[c].corpus /\ r.project = req[c].project
    BY <1>1 DEF RequestFields
  <2> HIDE DEF r
  <2>4. /\ ReadAs(datasets, r.target, r.project, NewId)
        /\ ReadAs(corpora, r.corpus, r.project, NewId)
    BY <1>1, <1>2, <1>8, <2>3 DEF RequestInv, InsertItems, At
  <2>5. RequestInv(r, datasets, corpora, NewId)
    BY <2>2, <2>3, <2>4 DEF RequestInv
  <2> QED BY <2>1, <2>5, AnswerInv, GoInv
<1>9. CASE CommitRun(c)
  <2>1. Commits(c) /\ UNCHANGED <<corpora, datasets>> /\ runs' = runs \cup req[c].own
    BY <1>9 DEF CommitRun
  <2>2. \A row \in runs' : Within(row, datasets, corpora)
    BY <1>3, <2>1 DEF CatalogueInv
  <2> QED BY <2>1, <2>2, CommitsInv
<1> QED BY <1>4, <1>5, <1>6, <1>7, <1>8, <1>9 DEF CreateRunWithJob

-----------------------------------------------------------------------------
(* Edits *)

\* Rows that were there before have the project they had.
Later(table, new, next) ==
    \A i \in DOMAIN new : i < next => i \in DOMAIN table /\ new[i].project = table[i].project

LEMMA EditInv ==
    ASSUME CatalogueInv, Edit,
           Table(corpora', NewId'), Table(datasets', NewId'),
           Later(corpora, corpora', NewId), Later(datasets, datasets', NewId),
           \A row \in runs' : Within(row, datasets', corpora'),
           \A row \in Pending("run") : Within(row, datasets', corpora')
    PROVE  CatalogueInv'
<1>1. edits' = edits + 1 /\ req' = req /\ NewId \in Int /\ NewId' = NewId + 1 /\ edits' \in Nat
  BY DEF Edit, NewId, CatalogueInv
<1>2. ASSUME NEW c \in Clients PROVE RequestInv(req[c], datasets', corpora', NewId')
  <2>1. RequestInv(req[c], datasets, corpora, NewId)
    BY DEF CatalogueInv
  <2>2. \A id, project :
           /\ ReadAs(datasets, id, project, NewId) => ReadAs(datasets', id, project, NewId')
           /\ ReadAs(corpora, id, project, NewId) => ReadAs(corpora', id, project, NewId')
    BY <1>1 DEF ReadAs, Later
  <2>3. req[c].op = "run" => \A row \in req[c].own : row \in Pending("run")
    BY DEF Pending
  <2> QED BY <2>1, <2>2, <2>3 DEF RequestInv
<1> QED BY <1>1, <1>2 DEF CatalogueInv

\* A run stays within its project as long as what it refers to is there.
LEMMA StaysWithin ==
    ASSUME CatalogueInv, NEW row, Within(row, datasets, corpora),
           Later(corpora, corpora', NewId), Later(datasets, datasets', NewId),
           row.dataset \in DOMAIN datasets', row.corpus # Null => row.corpus \in DOMAIN corpora'
    PROVE  Within(row, datasets', corpora')
BY DEF Within, Later, CatalogueInv, Table

LEMMA PendingWithin ==
    ASSUME CatalogueInv PROVE \A row \in Pending("run") : Within(row, datasets, corpora)
BY DEF Pending, CatalogueInv, RequestInv

LEMMA AddedTable ==
    ASSUME NEW table, NewId \in Int, Table(table, NewId), NEW project, NEW name
    PROVE  LET new == Added(table, [project |-> project, name |-> name])
           IN  /\ Table(new, NewId + 1) /\ Later(table, new, NewId)
               /\ DOMAIN table \subseteq DOMAIN new
BY DEF Table, Later, Added, RowFields

LEMMA DroppedTable ==
    ASSUME NEW table, NewId \in Int, Table(table, NewId), NEW id
    PROVE  /\ Table(Drop(table, id), NewId + 1) /\ Later(table, Drop(table, id), NewId)
           /\ DOMAIN Drop(table, id) = DOMAIN table \ {id}
BY DEF Table, Later, Drop

LEMMA SameTable ==
    ASSUME NEW table, NewId \in Int, Table(table, NewId)
    PROVE  Table(table, NewId + 1) /\ Later(table, table, NewId)
BY DEF Table, Later

LEMMA NextId == ASSUME CatalogueInv, Edit PROVE NewId \in Int /\ NewId' = NewId + 1
BY DEF Edit, NewId, CatalogueInv

\* Edits that take no row of a corpus or a dataset away.
LEMMA KeepingInv ==
    ASSUME CatalogueInv, Edit,
           Table(corpora', NewId + 1), Later(corpora, corpora', NewId),
           Table(datasets', NewId + 1), Later(datasets, datasets', NewId),
           DOMAIN corpora \subseteq DOMAIN corpora', DOMAIN datasets \subseteq DOMAIN datasets',
           \A row \in runs' : Within(row, datasets, corpora)
    PROVE  CatalogueInv'
<1>1. \A row : Within(row, datasets, corpora) => Within(row, datasets', corpora')
  BY StaysWithin DEF Within
<1>2. \A row \in Pending("run") : Within(row, datasets', corpora')
  BY <1>1, PendingWithin
<1> QED BY <1>1, <1>2, NextId, EditInv

LEMMA CreateCorpusInv ==
    ASSUME CatalogueInv, NEW project, NEW name,
           CreateCorpus(project, name) \/ CreateDataset(project, name)
    PROVE  CatalogueInv'
<1>1. Edit /\ runs' = runs
  BY DEF CreateCorpus, CreateDataset
<1>2. /\ NewId \in Int /\ Table(corpora, NewId) /\ Table(datasets, NewId)
      /\ \A row \in runs' : Within(row, datasets, corpora)
  BY <1>1, NextId DEF CatalogueInv
<1>3. CASE CreateCorpus(project, name)
  <2>1. corpora' = Added(corpora, [project |-> project, name |-> name]) /\ datasets' = datasets
    BY <1>3 DEF CreateCorpus
  <2>2. /\ Table(corpora', NewId + 1) /\ Later(corpora, corpora', NewId)
        /\ DOMAIN corpora \subseteq DOMAIN corpora'
    BY <1>2, <2>1, AddedTable
  <2>3. Table(datasets', NewId + 1) /\ Later(datasets, datasets', NewId)
    BY <1>2, <2>1, SameTable
  <2> QED BY <1>1, <1>2, <2>1, <2>2, <2>3, KeepingInv
<1>4. CASE CreateDataset(project, name)
  <2>1. datasets' = Added(datasets, [project |-> project, name |-> name]) /\ corpora' = corpora
    BY <1>4 DEF CreateDataset
  <2>2. /\ Table(datasets', NewId + 1) /\ Later(datasets, datasets', NewId)
        /\ DOMAIN datasets \subseteq DOMAIN datasets'
    BY <1>2, <2>1, AddedTable
  <2>3. Table(corpora', NewId + 1) /\ Later(corpora, corpora', NewId)
    BY <1>2, <2>1, SameTable
  <2> QED BY <1>1, <1>2, <2>1, <2>2, <2>3, KeepingInv
<1> QED BY <1>3, <1>4

LEMMA UpdateCorpusInv ==
    ASSUME CatalogueInv, NEW id \in DOMAIN corpora, NEW name, UpdateCorpus(id, name)
    PROVE  CatalogueInv'
<1>1. /\ Edit /\ runs' = runs /\ datasets' = datasets
      /\ corpora' = [corpora EXCEPT ![id].name = name]
  BY DEF UpdateCorpus
<1>2. /\ NewId \in Int /\ Table(corpora, NewId) /\ Table(datasets, NewId)
      /\ \A row \in runs' : Within(row, datasets, corpora)
  BY <1>1, NextId DEF CatalogueInv
<1>3. /\ DOMAIN corpora' = DOMAIN corpora
      /\ \A i \in DOMAIN corpora : DOMAIN corpora'[i] = RowFields
                                   /\ corpora'[i].project = corpora[i].project
  BY <1>1, <1>2 DEF Table, RowFields
<1>4. Table(corpora', NewId + 1) /\ Later(corpora, corpora', NewId)
  BY <1>2, <1>3 DEF Table, Later
<1>5. Table(datasets', NewId + 1) /\ Later(datasets, datasets', NewId)
  BY <1>1, <1>2, SameTable
<1> QED BY <1>1, <1>2, <1>3, <1>4, <1>5, KeepingInv

\* A delete waits for runs that refer to its row, or takes it out of them.
LEMMA DeleteCorpusInv ==
    ASSUME CatalogueInv, NEW id \in DOMAIN corpora, DeleteCorpus(id)
    PROVE  CatalogueInv'
<1>1. /\ Edit /\ corpora' = Drop(corpora, id) /\ datasets' = datasets
      /\ \A row \in Pending("run") : row.corpus # id
      /\ runs' = {[row EXCEPT !.corpus = IF @ = id THEN Null ELSE @] : row \in runs}
  BY DEF DeleteCorpus
<1>2. NewId \in Int /\ NewId' = NewId + 1 /\ Table(corpora, NewId) /\ Table(datasets, NewId)
  BY <1>1, NextId DEF CatalogueInv
<1>3. /\ Table(corpora', NewId') /\ Later(corpora, corpora', NewId)
      /\ DOMAIN corpora' = DOMAIN corpora \ {id}
  BY <1>1, <1>2, DroppedTable
<1>4. Table(datasets', NewId') /\ Later(datasets, datasets', NewId)
  BY <1>1, <1>2, SameTable
<1>5. ASSUME NEW row \in Pending("run") PROVE Within(row, datasets', corpora')
  <2>1. Within(row, datasets, corpora) /\ row.corpus # id
    BY <1>1, PendingWithin
  <2> QED BY <1>1, <1>3, <1>4, <2>1, StaysWithin DEF Within
<1>6. ASSUME NEW row \in runs
      PROVE  Within([row EXCEPT !.corpus = IF @ = id THEN Null ELSE @], datasets', corpora')
  <2> DEFINE kept == [row EXCEPT !.corpus = IF @ = id THEN Null ELSE @]
  <2>1. Within(row, datasets, corpora)
    BY DEF CatalogueInv
  <2>2. /\ DOMAIN kept = RunFields /\ kept.dataset = row.dataset /\ kept.project = row.project
        /\ kept.corpus = IF row.corpus = id THEN Null ELSE row.corpus
    BY <2>1 DEF Within, RunFields
  <2> HIDE DEF kept
  <2>3. Within(kept, datasets, corpora)
    BY <2>1, <2>2 DEF Within
  <2>4. kept.corpus # Null => kept.corpus \in DOMAIN corpora'
    BY <1>3, <2>2, <2>3 DEF Within
  <2>5. Within(kept, datasets', corpora')
    BY <1>1, <1>3, <1>4, <2>3, <2>4, StaysWithin DEF Within
  <2> QED BY <2>5 DEF kept
<1>7. \A row \in runs' : Within(row, datasets', corpora')
  BY <1>1, <1>6
<1> QED BY <1>1, <1>3, <1>4, <1>5, <1>7, EditInv

LEMMA DeleteDatasetInv ==
    ASSUME CatalogueInv, NEW id \in DOMAIN datasets, DeleteDataset(id)
    PROVE  CatalogueInv'
<1>1. /\ Edit /\ datasets' = Drop(datasets, id) /\ corpora' = corpora
      /\ \A row \in Pending("run") : row.dataset # id
      /\ \A row \in runs' : row \in runs /\ row.dataset # id
  BY DEF DeleteDataset
<1>2. NewId \in Int /\ NewId' = NewId + 1 /\ Table(corpora, NewId) /\ Table(datasets, NewId)
  BY <1>1, NextId DEF CatalogueInv
<1>3. /\ Table(datasets', NewId') /\ Later(datasets, datasets', NewId)
      /\ DOMAIN datasets' = DOMAIN datasets \ {id}
  BY <1>1, <1>2, DroppedTable
<1>4. Table(corpora', NewId') /\ Later(corpora, corpora', NewId)
  BY <1>1, <1>2, SameTable
<1>5. \A row : Within(row, datasets, corpora) /\ row.dataset # id => Within(row, datasets', corpora')
  BY <1>1, <1>3, <1>4, StaysWithin DEF Within
<1>6. \A row \in Pending("run") : Within(row, datasets', corpora')
  BY <1>1, <1>5, PendingWithin
<1>7. \A row \in runs' : Within(row, datasets', corpora')
  BY <1>1, <1>5 DEF CatalogueInv
<1> QED BY <1>1, <1>3, <1>4, <1>6, <1>7, EditInv

LEMMA DeleteRowInv ==
    ASSUME CatalogueInv, NEW row, DeleteDocument(row) \/ DeleteCase(row)
    PROVE  CatalogueInv'
<1>1. Edit /\ UNCHANGED <<corpora, datasets>>
  BY DEF DeleteDocument, DeleteCase
<1>2. runs' = runs \/ runs' = {[r EXCEPT !.items = @ \ {row}] : r \in runs}
  BY DEF DeleteDocument, DeleteCase
<1>3. \A r \in runs' : Within(r, datasets, corpora)
  BY <1>2 DEF CatalogueInv, Within, RunFields
<1>4. NewId \in Int /\ Table(corpora, NewId) /\ Table(datasets, NewId)
  BY <1>1, NextId DEF CatalogueInv
<1>5. /\ Table(corpora', NewId + 1) /\ Later(corpora, corpora', NewId)
      /\ Table(datasets', NewId + 1) /\ Later(datasets, datasets', NewId)
  BY <1>1, <1>4, SameTable
<1> QED BY <1>1, <1>3, <1>5, KeepingInv

LEMMA NextInv == CatalogueInv /\ [CatalogueNext]_catalogueVars => CatalogueInv'
<1> SUFFICES ASSUME CatalogueInv, [CatalogueNext]_catalogueVars PROVE CatalogueInv'
  OBVIOUS
<1>1. CASE UNCHANGED catalogueVars
  BY <1>1 DEF catalogueVars, tables, CatalogueInv, NewId
<1>2. ASSUME NEW c \in Clients, Begin(c) PROVE CatalogueInv'
  BY <1>2, FreshInv, GoInv DEF Begin
<1>3. ASSUME NEW c \in Clients, DeadlockDetected(c) PROVE CatalogueInv'
  BY <1>3, AnswerInv DEF DeadlockDetected
<1>4. ASSUME NEW c \in Clients,
             ImportValidCases(c) \/ CreateDocuments(c) \/ CreateRunWithJob(c)
      PROVE  CatalogueInv'
  BY <1>4, ImportInv, DocumentsInv, RunInv
<1>5. CASE \E p \in Projects, n \in Names : CreateCorpus(p, n) \/ CreateDataset(p, n)
  BY <1>5, CreateCorpusInv
<1>6. CASE \E id \in DOMAIN corpora : DeleteCorpus(id) \/ \E n \in Names : UpdateCorpus(id, n)
  BY <1>6, DeleteCorpusInv, UpdateCorpusInv
<1>7. CASE \E id \in DOMAIN datasets : DeleteDataset(id)
  BY <1>7, DeleteDatasetInv
<1>8. CASE (\E row \in documents : DeleteDocument(row)) \/ \E row \in cases : DeleteCase(row)
  BY <1>8, DeleteRowInv
<1> QED BY <1>1, <1>2, <1>3, <1>4, <1>5, <1>6, <1>7, <1>8 DEF CatalogueNext, Terminating

-----------------------------------------------------------------------------
(* Theorem *)

\* A run takes its dataset and its corpus from one project, its own, however
\* deletions, renamings and submissions interleave. (store/queue.go:71-102.)
THEOREM OneProject == CatalogueSpec => []RunOfOneProject
<1>1. CatalogueInv => RunOfOneProject
  BY DEF CatalogueInv, Within, RunOfOneProject
<1> QED BY <1>1, InitInv, NextInv, PTL DEF CatalogueSpec

-----------------------------------------------------------------------------
(* Answers *)

\* The row of a line, and what AnsweredAsStored says of one request.
RowOf(r, i) == IF r.op = "import" THEN [dataset |-> r.target, qid |-> r.lines[i].qid]
               ELSE [corpus |-> r.target, doc |-> r.lines[i]]

Kept(r) ==
    IF r.answer # "ok" THEN r.stored = {}
    ELSE CASE r.op = "import" ->
                /\ Cardinality(r.stored) = r.imported
                /\ r.imported + Cardinality(r.errors) = Len(r.lines)
           [] r.op = "documents" -> Cardinality(r.stored) = Len(r.lines)
           [] r.op = "run" ->
                \A row \in r.stored : row.items # {} /\ Cardinality(row.items) = row.total

\* Every line is written, reported or left, and each one left is a row of its own.
Counts(r) ==
    /\ r.imported \in Nat
    /\ IsFiniteSet(r.own) /\ Cardinality(r.own) = r.imported
    /\ r.left \subseteq 1 .. Len(r.lines) /\ r.errors \subseteq 1 .. Len(r.lines)
    /\ r.imported + Cardinality(r.errors) + Cardinality(r.left) = Len(r.lines)
    /\ \A i, j \in r.left : RowOf(r, i) = RowOf(r, j) => i = j
    /\ \A i \in r.left : RowOf(r, i) \notin r.own

Unread(r) ==
    /\ r.own = {} /\ r.imported = 0 /\ r.errors = {} /\ r.conflicts = {}
    /\ r.left = 1 .. Len(r.lines)

Distinct(lines) == \A i, j \in 1 .. Len(lines) : lines[i] = lines[j] => i = j

HonestRequest(r) ==
    /\ DOMAIN r = RequestFields /\ Len(r.lines) \in Nat
    /\ Kept(r) /\ (r.pc # "done" => r.answer # "ok")
    /\ r.op \in {"import", "documents"} =>
          /\ r.pc \in {"first", "qids", "docs", "existing"} => Unread(r)
          /\ r.pc = "insert" /\ r.conflicts = {} => Counts(r)
    /\ r.op = "documents" => Distinct(r.lines) /\ r.errors = {} /\ r.conflicts = {}
    /\ r.op = "run" =>
          /\ r.pc \in {"run", "items"} => r.count # 0
          /\ r.pc = "items" => \A row \in r.own : DOMAIN row = RunFields /\ row.total = r.count
          /\ r.pc = "commit" =>
                \A row \in r.own : row.items # {} /\ Cardinality(row.items) = row.total

HonestInv == DOMAIN req = Clients /\ \A c \in Clients : HonestRequest(req[c])

LEMMA GoHonest ==
    ASSUME HonestInv, NEW c \in Clients, NEW r, req' = [req EXCEPT ![c] = r], HonestRequest(r)
    PROVE  HonestInv'
BY DEF HonestInv

LEMMA AnswerHonest ==
    ASSUME HonestInv, NEW c \in Clients, req[c].pc # "done", NEW status, status # "ok",
           Answer(c, status)
    PROVE  HonestInv'
<1> DEFINE r == [req[c] EXCEPT !.pc = "done", !.own = {}, !.answer = status]
<1>1. HonestRequest(req[c])
  BY DEF HonestInv
<1>2. req[c].stored = {}
  BY <1>1 DEF HonestRequest, Kept
<1>3. /\ DOMAIN r = RequestFields /\ r.pc = "done" /\ r.answer = status /\ r.own = {}
      /\ r.op = req[c].op /\ r.lines = req[c].lines /\ r.stored = {}
      /\ r.errors = req[c].errors /\ r.conflicts = req[c].conflicts
  BY <1>1, <1>2 DEF HonestRequest, RequestFields
<1>4. req' = [req EXCEPT ![c] = r]
  BY DEF Answer, Go
<1> HIDE DEF r
<1>5. HonestRequest(r)
  BY <1>1, <1>3 DEF HonestRequest, Kept
<1> QED BY <1>4, <1>5, GoHonest

\* A transaction that commits keeps what it has written.
LEMMA CommitsHonest ==
    ASSUME HonestInv, NEW c \in Clients, req[c].op \in {"import", "documents", "run"}, Commits(c),
           req[c].op \in {"import", "documents"} => Counts(req[c]) /\ req[c].left = {},
           req[c].op = "run" =>
              \A row \in req[c].own : row.items # {} /\ Cardinality(row.items) = row.total
    PROVE  HonestInv'
<1> DEFINE r == [req[c] EXCEPT !.pc = "done", !.own = {}, !.stored = req[c].own, !.answer = "ok"]
<1>1. HonestRequest(req[c])
  BY DEF HonestInv
<1>2. /\ DOMAIN r = RequestFields /\ r.pc = "done" /\ r.answer = "ok" /\ r.own = {}
      /\ r.op = req[c].op /\ r.lines = req[c].lines /\ r.stored = req[c].own
      /\ r.errors = req[c].errors /\ r.conflicts = req[c].conflicts
      /\ r.imported = req[c].imported
  BY <1>1 DEF HonestRequest, RequestFields
<1>3. req' = [req EXCEPT ![c] = r]
  BY DEF Commits, HonestInv
<1> HIDE DEF r
<1>4. Kept(r)
  <2>1. CASE r.op = "run"
    BY <1>2, <2>1 DEF Kept
  <2>2. CASE r.op \in {"import", "documents"}
    <3>1. Counts(req[c]) /\ req[c].left = {} /\ Len(req[c].lines) \in Nat
      BY <1>1, <1>2, <2>2 DEF HonestRequest
    <3>2. Cardinality({}) = 0
      BY FS_EmptySet
    <3>3. IsFiniteSet(req[c].errors)
      <4>1. IsFiniteSet(1 .. Len(req[c].lines))
        BY <3>1, FS_Interval
      <4> QED BY <3>1, <4>1, FS_Subset DEF Counts
    <3>4. Cardinality(req[c].errors) \in Nat
      BY <3>3, FS_CardinalityType
    <3>5. /\ Cardinality(req[c].own) = req[c].imported
          /\ req[c].imported + Cardinality(req[c].errors) = Len(req[c].lines)
      BY <3>1, <3>2, <3>4 DEF Counts
    <3>6. r.op = "documents" => Cardinality(req[c].own) = Len(req[c].lines)
      <4> SUFFICES ASSUME r.op = "documents" PROVE Cardinality(req[c].own) = Len(req[c].lines)
        OBVIOUS
      <4>1. Cardinality(req[c].errors) = 0
        BY <1>1, <1>2, <3>2 DEF HonestRequest
      <4> QED BY <3>1, <3>5, <4>1 DEF Counts
    <3> QED BY <1>2, <2>2, <3>5, <3>6 DEF Kept
  <2> QED BY <1>2, <2>1, <2>2
<1>5. HonestRequest(r)
  BY <1>1, <1>2, <1>4 DEF HonestRequest
<1> QED BY <1>3, <1>5, GoHonest

\* Of the lines that are left one comes first.
LEMMA NextIsLeft ==
    ASSUME NEW c, NEW n \in Nat, req[c].left \subseteq 1 .. n, req[c].left # {}
    PROVE  NextLine(c) \in req[c].left
<1> DEFINE V == req[c].left
           UpTo(i) == {k \in V : k <= i}
           T == {UpTo(i) : i \in V}
<1>1. IsFiniteSet(V)
  BY FS_Interval, FS_Subset
<1>2. T \subseteq FiniteSubsetsOf(V) /\ T # {}
  <2>1. FiniteSubsetsOf(V) = SUBSET V
    BY <1>1, FS_FiniteSubsetsOfFinite
  <2>2. T \in SUBSET (SUBSET V) /\ T # {}
    OBVIOUS
  <2> QED BY <2>1, <2>2
<1>3. PICK m \in T : \A y \in T : ~(<<y, m>> \in StrictSubsetOrdering(V))
  BY <1>1, <1>2, FS_StrictSubsetOrderingWellFounded, WFMin
<1>4. PICK i \in V : m = UpTo(i)
  BY <1>3
<1>5. ASSUME NEW j \in V, ~(i <= j) PROVE FALSE
  <2>1. i \in Nat /\ j \in Nat /\ j < i /\ \A k \in V : k \in Nat
    BY <1>5
  <2>2. UpTo(j) \subseteq UpTo(i) /\ i \in UpTo(i) /\ i \notin UpTo(j)
    BY <2>1
  <2>3. <<UpTo(j), m>> \in StrictSubsetOrdering(V)
    BY <1>4, <2>2 DEF StrictSubsetOrdering
  <2> QED BY <1>3, <2>3
<1>6. \E x \in V : \A j \in V : x <= j
  BY <1>5
<1> HIDE DEF V
<1> QED BY <1>6 DEF NextLine, V

\* One line written is one row more and one line less.
LEMMA WroteHonest ==
    ASSUME HonestInv, NEW c \in Clients, req[c].op \in {"import", "documents"},
           req[c].pc = "insert", req[c].left # {}, req[c].conflicts = {}, Go(c, Wrote(c))
    PROVE  HonestInv'
<1> DEFINE q == req[c]
           r == Wrote(c)
           i == NextLine(c)
<1>1. /\ HonestRequest(q) /\ Counts(q)
      /\ q.op \in {"import", "documents"} /\ q.pc = "insert" /\ q.conflicts = {}
  BY DEF HonestInv, HonestRequest
<1>2. i \in q.left /\ NextRow(c) = RowOf(q, i)
  BY <1>1, NextIsLeft DEF NextRow, RowOf, Counts, HonestRequest
<1>3. /\ DOMAIN r = RequestFields /\ r.op = q.op /\ r.pc = "insert" /\ r.target = q.target
      /\ r.lines = q.lines /\ r.errors = q.errors /\ r.conflicts = {} /\ r.stored = q.stored
      /\ r.answer = q.answer /\ r.own = q.own \cup {RowOf(q, i)} /\ r.left = q.left \ {i}
      /\ r.imported = q.imported + 1
  BY <1>1, <1>2 DEF Wrote, HonestRequest, RequestFields
<1>12. req' = [req EXCEPT ![c] = r]
  BY DEF Go
<1> HIDE DEF r, i, q
<1>4. \A j : RowOf(r, j) = RowOf(q, j)
  BY <1>3 DEF RowOf
<1>5. IsFiniteSet(r.own) /\ Cardinality(r.own) = q.imported + 1
  <2>1. /\ IsFiniteSet(q.own) /\ Cardinality(q.own) = q.imported
        /\ RowOf(q, i) \notin q.own
    BY <1>1, <1>2 DEF Counts
  <2>2. /\ IsFiniteSet(q.own \cup {RowOf(q, i)})
        /\ Cardinality(q.own \cup {RowOf(q, i)}) = Cardinality(q.own) + 1
    BY <2>1, FS_AddElement
  <2> QED BY <1>3, <2>1, <2>2
<1>6. IsFiniteSet(q.left) /\ IsFiniteSet(q.errors)
  <2>0. Len(q.lines) \in Nat
    BY <1>1 DEF HonestRequest
  <2>1. IsFiniteSet(1 .. Len(q.lines))
    BY <2>0, FS_Interval
  <2>2. q.left \subseteq 1 .. Len(q.lines) /\ q.errors \subseteq 1 .. Len(q.lines)
    BY <1>1 DEF Counts
  <2> QED BY <2>1, <2>2, FS_Subset
<1>7. Cardinality(r.left) = Cardinality(q.left) - 1
  BY <1>2, <1>3, <1>6, FS_RemoveElement
<1>8. Cardinality(q.left) \in Nat /\ Cardinality(q.errors) \in Nat
  BY <1>6, FS_CardinalityType
<1>9. r.imported + Cardinality(r.errors) + Cardinality(r.left) = Len(r.lines)
  BY <1>1, <1>3, <1>7, <1>8 DEF Counts
<1>10. Counts(r)
  <2>1. r.imported \in Nat /\ r.left \subseteq q.left /\ i \notin r.left
    BY <1>1, <1>3 DEF Counts
  <2>2. \A j \in r.left : RowOf(r, j) \notin r.own
    BY <1>1, <1>2, <1>3, <1>4, <2>1 DEF Counts
  <2> QED BY <1>1, <1>3, <1>4, <1>5, <1>9, <2>1, <2>2 DEF Counts
<1>11. HonestRequest(r)
  BY <1>1, <1>3, <1>10 DEF HonestRequest, Kept
<1> QED BY <1>11, <1>12, GoHonest

\* What the check of a file reports and what it leaves to write is the file.
LEMMA CheckHonest ==
    ASSUME CatalogueAssumption, HonestInv, NEW c \in Clients, CheckLines(c)
    PROVE  HonestInv'
<1> DEFINE q == req[c]
           all == 1 .. Len(q.lines)
           good == GoodLines(q, projectDocIDs(q.project))
           pc == IF good = {} THEN "done" ELSE "insert"
           answer == IF good = {} THEN "ok" ELSE Null
           r == [q EXCEPT !.left = good, !.errors = all \ good, !.pc = pc, !.answer = answer]
<1>1. HonestRequest(q) /\ q.op = "import" /\ q.pc = "docs"
  BY DEF HonestInv, CheckLines, At
<1>2. Unread(q) /\ q.stored = {} /\ Len(q.lines) \in Nat
  BY <1>1 DEF HonestRequest, Kept
<1>3. /\ good \subseteq all
      /\ \A i, j \in good : q.lines[i].qid = q.lines[j].qid => i = j
  <2>1. \A i, j \in good : i < j => q.lines[i].qid # q.lines[j].qid
    BY <1>2 DEF GoodLines
  <2>2. good \subseteq all /\ \A i \in all : i \in Int
    BY DEF GoodLines
  <2> HIDE DEF good
  <2> QED BY <2>1, <2>2
<1>4. req' = [req EXCEPT ![c] = r]
  BY DEF CheckLines, Go
<1> HIDE DEF good
<1>5. /\ DOMAIN r = RequestFields /\ r.op = "import" /\ r.pc = pc /\ r.target = q.target
      /\ r.lines = q.lines /\ r.errors = all \ good /\ r.conflicts = {} /\ r.stored = {}
      /\ r.answer = answer /\ r.own = {} /\ r.left = good /\ r.imported = 0
  BY <1>1, <1>2 DEF HonestRequest, Unread, RequestFields
<1> HIDE DEF r
<1>6. IsFiniteSet(all) /\ Cardinality(all) = Len(q.lines)
  <2> DEFINE n == Len(q.lines)
  <2>1. n \in Nat
    BY <1>2
  <2> HIDE DEF n
  <2>2. 1 \in Int /\ n \in Int
    BY <2>1
  <2>3. IsFiniteSet(1 .. n) /\ Cardinality(1 .. n) = IF 1 > n THEN 0 ELSE n - 1 + 1
    BY <2>2, FS_Interval
  <2>4. Cardinality(1 .. n) = n
    BY <2>1, <2>3
  <2> QED BY <2>3, <2>4 DEF n
<1> HIDE DEF q
<1>7. Cardinality(all \ good) + Cardinality(good) = Len(q.lines)
  <2>1. Cardinality(all \ good) = Cardinality(all) - Cardinality(all \cap good)
    BY <1>6, FS_Difference
  <2>2. all \cap good = good /\ IsFiniteSet(good)
    BY <1>3, <1>6, FS_Subset
  <2>3. Cardinality(good) \in Nat
    BY <2>2, FS_CardinalityType
  <2>4. \A n, g \in Nat : n - g + g = n
    OBVIOUS
  <2> HIDE DEF all
  <2> QED BY <1>2, <1>6, <2>1, <2>2, <2>3, <2>4
<1>8. IsFiniteSet({}) /\ Cardinality({}) = 0
  BY FS_EmptySet
<1>9. /\ Cardinality(all \ good) \in Nat /\ Cardinality(good) \in Nat
  BY <1>3, <1>6, FS_Subset, FS_CardinalityType
<1>10. Counts(r)
  <2>1. \A i, j \in r.left : RowOf(r, i) = RowOf(r, j) => i = j
    BY <1>3, <1>5 DEF RowOf
  <2>2. r.imported + Cardinality(r.errors) + Cardinality(r.left) = Len(r.lines)
    BY <1>5, <1>7, <1>9
  <2> QED BY <1>3, <1>5, <1>8, <2>1, <2>2 DEF Counts
<1>11. Kept(r)
  <2>1. CASE good # {}
    BY <1>5, <2>1 DEF Kept, CatalogueAssumption
  <2>2. CASE good = {}
    BY <1>2, <1>5, <1>7, <1>8, <1>9, <2>2 DEF Kept
  <2> QED BY <2>1, <2>2
<1>12. HonestRequest(r)
  BY <1>2, <1>5, <1>10, <1>11 DEF HonestRequest, CatalogueAssumption
<1> QED BY <1>4, <1>12, GoHonest

\* A request that goes on to read writes nothing and answers nothing yet.
LEMMA ReadHonest ==
    ASSUME HonestInv, NEW c \in Clients, req[c].pc # "done", NEW r, Go(c, r),
           DOMAIN r = RequestFields, r.op = req[c].op, r.lines = req[c].lines,
           r.answer = req[c].answer, r.stored = req[c].stored, r.errors = req[c].errors,
           r.conflicts = req[c].conflicts,
           req[c].op \in {"import", "documents"} =>
              /\ r.pc \in {"first", "qids", "docs", "existing"} => Unread(r)
              /\ r.pc = "insert" /\ r.conflicts = {} => Counts(r),
           req[c].op = "run" =>
              r.pc \in {"corpus", "count"} \/ (r.pc = "run" /\ r.count # 0)
    PROVE  HonestInv'
<1>1. HonestRequest(req[c]) /\ req' = [req EXCEPT ![c] = r]
  BY DEF HonestInv, Go
<1> DEFINE q == req[c]
<1>2. q.answer # "ok" /\ q.stored = {}
  BY <1>1 DEF HonestRequest, Kept
<1>3. HonestRequest(r)
  BY <1>1, <1>2 DEF HonestRequest, Kept
<1> QED BY <1>1, <1>3, GoHonest

LEMMA ImportHonest ==
    ASSUME CatalogueAssumption, HonestInv, NEW c \in Clients, ImportValidCases(c)
    PROVE  HonestInv'
<1>1. HonestRequest(req[c]) /\ DOMAIN req[c] = RequestFields
  BY DEF HonestInv, HonestRequest
<1>2. req[c].op = "import" /\ req[c].pc # "done"
  BY DEF ImportValidCases, ImportReadsProject, caseQIDs, CheckLines, InsertCase, CommitCases, At
<1>3. CASE ImportReadsProject(c)
  <2> DEFINE r == [req[c] EXCEPT !.pc = "qids", !.project = datasets[req[c].target].project]
  <2>1. Go(c, r) \/ Answer(c, "missing")
    BY <1>3 DEF ImportReadsProject
  <2>2. Unread(req[c])
    BY <1>1, <1>2, <1>3 DEF HonestRequest, ImportReadsProject, At
  <2>3. /\ DOMAIN r = RequestFields /\ r.op = req[c].op /\ r.lines = req[c].lines
        /\ r.answer = req[c].answer /\ r.stored = req[c].stored /\ r.errors = req[c].errors
        /\ r.conflicts = req[c].conflicts /\ r.pc = "qids" /\ r.own = req[c].own
        /\ r.imported = req[c].imported /\ r.left = req[c].left
    BY <1>1 DEF RequestFields
  <2> HIDE DEF r
  <2>4. Unread(r)
    BY <2>2, <2>3 DEF Unread
  <2> QED BY <1>2, <2>1, <2>3, <2>4, ReadHonest, AnswerHonest
<1>4. CASE caseQIDs(c)
  <2> DEFINE r == [req[c] EXCEPT !.pc = "docs", !.qids = {row.qid : row \in CasesOf(req[c].target)}]
  <2>1. Go(c, r)
    BY <1>4 DEF caseQIDs
  <2>2. Unread(req[c])
    BY <1>1, <1>2, <1>4 DEF HonestRequest, caseQIDs, At
  <2>3. /\ DOMAIN r = RequestFields /\ r.op = req[c].op /\ r.lines = req[c].lines
        /\ r.answer = req[c].answer /\ r.stored = req[c].stored /\ r.errors = req[c].errors
        /\ r.conflicts = req[c].conflicts /\ r.pc = "docs" /\ r.own = req[c].own
        /\ r.imported = req[c].imported /\ r.left = req[c].left
    BY <1>1 DEF RequestFields
  <2> HIDE DEF r
  <2>4. Unread(r)
    BY <2>2, <2>3 DEF Unread
  <2> QED BY <1>2, <2>1, <2>3, <2>4, ReadHonest
<1>5. CASE CheckLines(c)
  BY <1>5, CheckHonest
<1>6. CASE InsertCase(c)
  <2> DEFINE line == NextLine(c)
             r == [req[c] EXCEPT !.conflicts = {line}, !.errors = @ \cup {line},
                                 !.left = @ \ {line}, !.own = {}]
  <2>1. /\ req[c].pc = "insert" /\ req[c].left # {}
        /\ \/ Answer(c, "error")
           \/ Go(c, r)
           \/ (req[c].conflicts = {} /\ Go(c, Wrote(c)))
    BY <1>6 DEF InsertCase, At, Inserting
  <2>2. /\ DOMAIN r = RequestFields /\ r.op = "import" /\ r.lines = req[c].lines
        /\ r.answer = req[c].answer /\ r.stored = req[c].stored
        /\ r.conflicts # {} /\ r.pc = "insert"
    BY <1>1, <1>2, <2>1 DEF RequestFields
  <2> HIDE DEF r
  <2>3. HonestRequest(r)
    BY <1>1, <1>2, <2>2 DEF HonestRequest, Kept
  <2>4. Go(c, r) => req' = [req EXCEPT ![c] = r]
    BY DEF Go
  <2> QED BY <1>2, <2>1, <2>3, <2>4, AnswerHonest, GoHonest, WroteHonest
<1>7. CASE CommitCases(c)
  <2>1. /\ req[c].pc = "insert" /\ req[c].left = {}
        /\ Answer(c, "error") \/ (req[c].conflicts = {} /\ Commits(c))
    BY <1>7 DEF CommitCases, At
  <2>2. req[c].conflicts = {} => Counts(req[c])
    BY <1>1, <1>2, <2>1 DEF HonestRequest
  <2> QED BY <1>2, <2>1, <2>2, AnswerHonest, CommitsHonest
<1> QED BY <1>3, <1>4, <1>5, <1>6, <1>7 DEF ImportValidCases

LEMMA DocumentsHonest ==
    ASSUME HonestInv, NEW c \in Clients, CreateDocuments(c)
    PROVE  HonestInv'
<1>1. HonestRequest(req[c]) /\ DOMAIN req[c] = RequestFields
  BY DEF HonestInv, HonestRequest
<1>2. /\ req[c].op = "documents" /\ req[c].pc # "done"
      /\ req[c].conflicts = {} /\ Distinct(req[c].lines)
  BY <1>1 DEF HonestRequest, CreateDocuments, corpusExists, existingDocIDs, InsertDocument,
              CommitDocuments, At
<1>3. ASSUME req[c].pc \in {"first", "existing"}, NEW pc \in {"existing", "insert"},
             Go(c, [req[c] EXCEPT !.pc = pc])
      PROVE  HonestInv'
  <2> DEFINE r == [req[c] EXCEPT !.pc = pc]
  <2>1. Go(c, r)
    BY <1>3
  <2>2. Unread(req[c]) /\ Len(req[c].lines) \in Nat
    BY <1>1, <1>2, <1>3 DEF HonestRequest
  <2>3. /\ DOMAIN r = RequestFields /\ r.op = req[c].op /\ r.lines = req[c].lines
        /\ r.answer = req[c].answer /\ r.stored = req[c].stored /\ r.errors = req[c].errors
        /\ r.conflicts = req[c].conflicts /\ r.pc = pc /\ r.own = req[c].own
        /\ r.imported = req[c].imported /\ r.left = req[c].left /\ r.target = req[c].target
    BY <1>1 DEF RequestFields
  <2> HIDE DEF r
  <2>4. Unread(r)
    BY <2>2, <2>3 DEF Unread
  <2>5. Counts(r)
    <3>1. /\ IsFiniteSet({}) /\ Cardinality({}) = 0
          /\ Cardinality(1 .. Len(r.lines)) = Len(r.lines)
      BY <2>2, <2>3, FS_EmptySet, FS_Interval
    <3>2. \A i, j \in r.left : RowOf(r, i) = RowOf(r, j) => i = j
      BY <1>2, <2>2, <2>3 DEF RowOf, Unread, Distinct
    <3> QED BY <2>2, <2>3, <2>4, <3>1, <3>2 DEF Counts, Unread
  <2> QED BY <1>2, <1>3, <2>1, <2>3, <2>4, <2>5, ReadHonest
<1>4. CASE corpusExists(c) \/ existingDocIDs(c)
  <2>1. \/ Answer(c, "missing") \/ Answer(c, "conflict")
        \/ Go(c, [req[c] EXCEPT !.pc = "existing"]) \/ Go(c, [req[c] EXCEPT !.pc = "insert"])
    BY <1>4 DEF corpusExists, existingDocIDs
  <2>2. req[c].pc \in {"first", "existing"}
    BY <1>4 DEF corpusExists, existingDocIDs, At
  <2> QED BY <1>2, <1>3, <2>1, <2>2, AnswerHonest
<1>5. CASE InsertDocument(c)
  <2>1. /\ req[c].pc = "insert" /\ req[c].left # {}
        /\ Answer(c, "error") \/ Answer(c, "conflict") \/ Go(c, Wrote(c))
    BY <1>5 DEF InsertDocument, At, Inserting
  <2> QED BY <1>2, <2>1, AnswerHonest, WroteHonest
<1>6. CASE CommitDocuments(c)
  <2>1. req[c].pc = "insert" /\ req[c].left = {} /\ Commits(c)
    BY <1>6 DEF CommitDocuments, At
  <2>2. Counts(req[c])
    BY <1>1, <1>2, <2>1 DEF HonestRequest
  <2> QED BY <1>2, <2>1, <2>2, CommitsHonest
<1> QED BY <1>4, <1>5, <1>6 DEF CreateDocuments

\* A run's items are as many as its progress counts, and not none.
LEMMA RunHonest ==
    ASSUME HonestInv, NEW c \in Clients, CreateRunWithJob(c)
    PROVE  HonestInv'
<1>1. HonestRequest(req[c]) /\ DOMAIN req[c] = RequestFields
  BY DEF HonestInv, HonestRequest
<1>2. req[c].op = "run" /\ req[c].pc # "done"
  BY DEF CreateRunWithJob, ReadDataset, ReadCorpus, CountCases, InsertRun, InsertItems, CommitRun, At
<1>3. CASE ReadDataset(c)
  <2> DEFINE r == [req[c] EXCEPT !.pc = "corpus", !.project = datasets[req[c].target].project]
  <2>1. Go(c, r) \/ Answer(c, "missing")
    BY <1>3 DEF ReadDataset
  <2>2. /\ DOMAIN r = RequestFields /\ r.op = req[c].op /\ r.lines = req[c].lines
        /\ r.answer = req[c].answer /\ r.stored = req[c].stored /\ r.errors = req[c].errors
        /\ r.conflicts = req[c].conflicts /\ r.pc = "corpus"
    BY <1>1 DEF RequestFields
  <2> HIDE DEF r
  <2> QED BY <1>2, <2>1, <2>2, ReadHonest, AnswerHonest
<1>4. CASE ReadCorpus(c)
  <2> DEFINE r == [req[c] EXCEPT !.pc = "count"]
  <2>1. Go(c, r) \/ Answer(c, "missing") \/ Answer(c, "refused")
    BY <1>4 DEF ReadCorpus
  <2>2. /\ DOMAIN r = RequestFields /\ r.op = req[c].op /\ r.lines = req[c].lines
        /\ r.answer = req[c].answer /\ r.stored = req[c].stored /\ r.errors = req[c].errors
        /\ r.conflicts = req[c].conflicts /\ r.pc = "count"
    BY <1>1 DEF RequestFields
  <2> HIDE DEF r
  <2> QED BY <1>2, <2>1, <2>2, ReadHonest, AnswerHonest
<1>5. CASE CountCases(c)
  <2> DEFINE n == Cardinality(CasesOf(req[c].target))
             r == [req[c] EXCEPT !.pc = "run", !.count = n]
  <2>1. (n # 0 /\ Go(c, r)) \/ Answer(c, "refused")
    BY <1>5 DEF CountCases
  <2> HIDE DEF n
  <2>2. /\ DOMAIN r = RequestFields /\ r.op = req[c].op /\ r.lines = req[c].lines
        /\ r.answer = req[c].answer /\ r.stored = req[c].stored /\ r.errors = req[c].errors
        /\ r.conflicts = req[c].conflicts /\ r.pc = "run" /\ r.count = n
    BY <1>1 DEF RequestFields
  <2> HIDE DEF r
  <2> QED BY <1>2, <2>1, <2>2, ReadHonest, AnswerHonest
<1>6. CASE InsertRun(c)
  <2> DEFINE row == [by |-> c, project |-> req[c].project, dataset |-> req[c].target,
                     corpus |-> req[c].corpus, total |-> req[c].count, items |-> {}]
             r == [req[c] EXCEPT !.pc = "items", !.own = {row}]
  <2>1. req[c].pc = "run" /\ (Answer(c, "missing") \/ Go(c, r))
    BY <1>6 DEF InsertRun, At
  <2>2. DOMAIN row = RunFields /\ row.total = req[c].count
    BY DEF RunFields
  <2> HIDE DEF row
  <2>3. /\ DOMAIN r = RequestFields /\ r.op = req[c].op /\ r.lines = req[c].lines
        /\ r.answer = req[c].answer /\ r.stored = req[c].stored /\ r.own = {row}
        /\ r.pc = "items" /\ r.count = req[c].count
    BY <1>1 DEF RequestFields
  <2> HIDE DEF r
  <2>4. HonestRequest(r)
    BY <1>1, <1>2, <2>1, <2>2, <2>3 DEF HonestRequest, Kept
  <2>5. Go(c, r) => req' = [req EXCEPT ![c] = r]
    BY DEF Go
  <2> QED BY <1>2, <2>1, <2>4, <2>5, AnswerHonest, GoHonest
<1>7. CASE InsertItems(c)
  <2> DEFINE own == {[row EXCEPT !.items = CasesOf(req[c].target)] : row \in req[c].own}
             r == [req[c] EXCEPT !.pc = "commit", !.own = own]
  <2>1. /\ req[c].pc = "items"
        /\ \/ Answer(c, "error")
           \/ Cardinality(CasesOf(req[c].target)) = req[c].count /\ Go(c, r)
    BY <1>7 DEF InsertItems, At
  <2>2. /\ req[c].count # 0
        /\ \A row \in req[c].own : DOMAIN row = RunFields /\ row.total = req[c].count
    BY <1>1, <1>2, <2>1 DEF HonestRequest
  <2>3. ASSUME Cardinality(CasesOf(req[c].target)) = req[c].count
        PROVE  \A row \in own : row.items # {} /\ Cardinality(row.items) = row.total
    <3>1. CasesOf(req[c].target) # {}
      BY <2>2, <2>3, FS_EmptySet
    <3>2. \A row \in own : row.items = CasesOf(req[c].target) /\ row.total = req[c].count
      BY <2>2 DEF RunFields
    <3> HIDE DEF own
    <3> QED BY <2>3, <3>1, <3>2
  <2> HIDE DEF own
  <2>4. /\ DOMAIN r = RequestFields /\ r.op = req[c].op /\ r.lines = req[c].lines
        /\ r.answer = req[c].answer /\ r.stored = req[c].stored /\ r.own = own
        /\ r.pc = "commit"
    BY <1>1 DEF RequestFields
  <2> HIDE DEF r
  <2>5. ASSUME Cardinality(CasesOf(req[c].target)) = req[c].count
        PROVE  HonestRequest(r)
    BY <1>1, <1>2, <2>1, <2>3, <2>4, <2>5 DEF HonestRequest, Kept
  <2>6. Go(c, r) => req' = [req EXCEPT ![c] = r]
    BY DEF Go
  <2> QED BY <1>2, <2>1, <2>5, <2>6, AnswerHonest, GoHonest
<1>8. CASE CommitRun(c)
  <2>1. Commits(c) /\ req[c].pc = "commit"
    BY <1>8 DEF CommitRun, At
  <2>2. \A row \in req[c].own : row.items # {} /\ Cardinality(row.items) = row.total
    BY <1>1, <1>2, <2>1 DEF HonestRequest
  <2> QED BY <1>2, <2>1, <2>2, CommitsHonest
<1> QED BY <1>3, <1>4, <1>5, <1>6, <1>7, <1>8 DEF CreateRunWithJob

LEMMA FreshHonest ==
    ASSUME CatalogueAssumption, NEW op, NEW target, NEW corpus, NEW lines,
           Len(lines) \in Nat, op = "documents" => Distinct(lines)
    PROVE  HonestRequest(Fresh(op, target, corpus, lines))
<1> DEFINE r == Fresh(op, target, corpus, lines)
<1>1. /\ DOMAIN r = RequestFields /\ r.op = op /\ r.pc = "first" /\ r.lines = lines
      /\ r.left = 1 .. Len(lines) /\ r.imported = 0 /\ r.errors = {} /\ r.conflicts = {}
      /\ r.own = {} /\ r.stored = {} /\ r.answer = Null
  BY DEF Fresh, RequestFields
<1> HIDE DEF r
<1>2. HonestRequest(r)
  BY <1>1 DEF HonestRequest, Kept, Unread, CatalogueAssumption
<1> QED BY <1>2 DEF r

LEMMA HonestNext ==
    ASSUME CatalogueAssumption, HonestInv, [CatalogueNext]_catalogueVars
    PROVE  HonestInv'
<1>1. CASE UNCHANGED req
  BY <1>1 DEF HonestInv
<1>2. ASSUME NEW c \in Clients, Begin(c) PROVE HonestInv'
  <2>1. PICK op, id, corpus, lines :
          /\ req' = [req EXCEPT ![c] = Fresh(op, id, corpus, lines)]
          /\ Len(lines) \in Nat /\ (op = "documents" => Distinct(lines))
    <3>1. \A file \in CaseFiles : Len(file) \in Nat
      BY LenProperties DEF CatalogueAssumption
    <3>2. \A list \in DocLists : Len(list) \in Nat /\ Distinct(list)
      BY LenProperties DEF CatalogueAssumption, Distinct
    <3>3. Len(<<>>) \in Nat
      BY EmptySeq
    <3> QED BY <1>2, <3>1, <3>2, <3>3 DEF Begin, Go
  <2> QED BY <2>1, FreshHonest, GoHonest
<1>3. ASSUME NEW c \in Clients, DeadlockDetected(c) PROVE HonestInv'
  <2>1. req[c].pc = "insert" /\ Answer(c, "error")
    BY <1>3 DEF DeadlockDetected, WaitsFor, Inserting
  <2> QED BY <2>1, AnswerHonest
<1>4. ASSUME NEW c \in Clients,
             ImportValidCases(c) \/ CreateDocuments(c) \/ CreateRunWithJob(c)
      PROVE  HonestInv'
  BY <1>4, ImportHonest, DocumentsHonest, RunHonest
<1> QED BY <1>1, <1>2, <1>3, <1>4
        DEF CatalogueNext, Terminating, catalogueVars, Edit, CreateCorpus, UpdateCorpus,
            DeleteCorpus, CreateDataset, DeleteDataset, DeleteDocument, DeleteCase

\* What a request answers is what it stored, whoever came in between.
\* (case.go, document.go, queue.go:59-161.)
THEOREM AnswersHonest == CatalogueAssumption => (CatalogueSpec => []AnsweredAsStored)
<1> SUFFICES ASSUME CatalogueAssumption PROVE CatalogueSpec => []AnsweredAsStored
  OBVIOUS
<1>1. CatalogueInit => HonestInv
  <2>1. Len(<<>>) \in Nat
    BY EmptySeq
  <2> QED BY <2>1, FreshHonest DEF CatalogueInit, HonestInv, Idle
<1>2. HonestInv /\ [CatalogueNext]_catalogueVars => HonestInv'
  BY HonestNext
<1>3. HonestInv => AnsweredAsStored
  BY DEF HonestInv, HonestRequest, Kept, AnsweredAsStored
<1> QED BY <1>1, <1>2, <1>3, PTL DEF CatalogueSpec

-----------------------------------------------------------------------------
(* References *)

\* What a transaction has not committed yet refers to rows that are there, and
\* the items of a run it creates are cases of the run's dataset.
OwnRefers(r, ds, cs, rows) ==
    /\ r.op = "import" => /\ r.lines \in Seq([qid : Qids, docs : SUBSET Docs])
                          /\ r.own \subseteq [dataset : DOMAIN ds, qid : Qids]
    /\ r.op = "documents" => /\ r.lines \in Seq(Docs)
                             /\ r.own \subseteq [corpus : DOMAIN cs, doc : Docs]
    /\ r.op = "run" => \A row \in r.own :
          /\ DOMAIN row = RunFields /\ row.dataset = r.target /\ row.dataset \in DOMAIN ds
          /\ \A x \in row.items : x \in rows /\ x.dataset = row.dataset

RefersInv ==
    /\ CatalogueTypeOK
    /\ \A c \in Clients : OwnRefers(req[c], datasets, corpora, cases)

\* A request goes on with what it had, or with less.
LEMMA SameRefers ==
    ASSUME RefersInv, NEW c \in Clients, NEW r,
           r.op = req[c].op, r.lines = req[c].lines, r.target = req[c].target,
           r.own \subseteq req[c].own
    PROVE  OwnRefers(r, datasets, corpora, cases)
BY DEF RefersInv, OwnRefers

LEMMA GoRefers ==
    ASSUME RefersInv, DOMAIN req = Clients, NEW c \in Clients, NEW r, Go(c, r),
           OwnRefers(r, datasets, corpora, cases)
    PROVE  RefersInv'
<1>1. /\ req' = [req EXCEPT ![c] = r]
      /\ UNCHANGED <<corpora, datasets, documents, cases, runs>>
  BY DEF Go, tables
<1>2. CatalogueTypeOK'
  BY <1>1 DEF RefersInv, CatalogueTypeOK, CasesOf
<1>3. \A d \in Clients : OwnRefers(req'[d], datasets', corpora', cases')
  BY <1>1 DEF RefersInv
<1> QED BY <1>2, <1>3 DEF RefersInv

LEMMA AnswerRefers ==
    ASSUME RefersInv, CatalogueInv, NEW c \in Clients, NEW status, Answer(c, status)
    PROVE  RefersInv'
<1> DEFINE r == [req[c] EXCEPT !.pc = "done", !.own = {}, !.answer = status]
<1>1. DOMAIN req[c] = RequestFields /\ DOMAIN req = Clients
  BY DEF CatalogueInv, RequestInv
<1>2. r.op = req[c].op /\ r.lines = req[c].lines /\ r.target = req[c].target /\ r.own = {}
  BY <1>1 DEF RequestFields
<1>3. Go(c, r)
  BY DEF Answer
<1> HIDE DEF r
<1> QED BY <1>1, <1>2, <1>3, SameRefers, GoRefers

\* More rows are there than before, and a request has committed its own.
LEMMA CommitsRefers ==
    ASSUME RefersInv, CatalogueInv, NEW c \in Clients, Commits(c),
           UNCHANGED <<corpora, datasets>>, cases \subseteq cases', CatalogueTypeOK'
    PROVE  RefersInv'
<1> DEFINE r == [req[c] EXCEPT !.pc = "done", !.own = {}, !.stored = req[c].own, !.answer = "ok"]
<1>1. DOMAIN req[c] = RequestFields /\ DOMAIN req = Clients
  BY DEF CatalogueInv, RequestInv
<1>2. r.op = req[c].op /\ r.lines = req[c].lines /\ r.target = req[c].target /\ r.own = {}
  BY <1>1 DEF RequestFields
<1>3. req' = [req EXCEPT ![c] = r]
  BY <1>1 DEF Commits
<1> HIDE DEF r
<1>4. OwnRefers(r, datasets, corpora, cases)
  BY <1>2, SameRefers
<1>5. \A d \in Clients : OwnRefers(req'[d], datasets, corpora, cases)
  BY <1>1, <1>3, <1>4 DEF RefersInv
<1>6. \A d \in Clients : OwnRefers(req'[d], datasets', corpora', cases')
  BY <1>5 DEF OwnRefers
<1> QED BY <1>6 DEF RefersInv

\* The row of the line that is written refers to the request's target.
LEMMA WroteRefers ==
    ASSUME RefersInv, CatalogueInv, HonestInv, NEW c \in Clients, Go(c, Wrote(c)),
           Inserting(c), req[c].conflicts = {},
           \/ req[c].op = "import" /\ req[c].target \in DOMAIN datasets
           \/ req[c].op = "documents" /\ req[c].target \in DOMAIN corpora
    PROVE  RefersInv'
<1> DEFINE q == req[c]
           r == Wrote(c)
           i == NextLine(c)
<1>1. /\ DOMAIN q = RequestFields /\ DOMAIN req = Clients /\ HonestRequest(q)
      /\ OwnRefers(q, datasets, corpora, cases)
  BY DEF CatalogueInv, RequestInv, HonestInv, RefersInv
<1>2. Len(q.lines) \in Nat /\ q.left \subseteq 1 .. Len(q.lines)
  BY <1>1 DEF HonestRequest, Counts, Inserting
<1>3. i \in 1 .. Len(q.lines)
  BY <1>2, NextIsLeft DEF Inserting
<1>4. /\ r.op = q.op /\ r.lines = q.lines /\ r.target = q.target
      /\ r.own = q.own \cup {NextRow(c)}
  BY <1>1 DEF Wrote, RequestFields
<1> HIDE DEF r, i
<1>5. CASE q.op = "import"
  <2>1. q.lines \in Seq([qid : Qids, docs : SUBSET Docs])
    BY <1>1, <1>5 DEF OwnRefers
  <2>2. q.lines[i] \in [qid : Qids, docs : SUBSET Docs]
    BY <1>3, <2>1, ElementOfSeq
  <2>3. NextRow(c) = [dataset |-> q.target, qid |-> q.lines[i].qid]
    BY <1>5 DEF NextRow, i
  <2>4. NextRow(c) \in [dataset : DOMAIN datasets, qid : Qids]
    BY <1>5, <2>2, <2>3
  <2>5. OwnRefers(r, datasets, corpora, cases)
    BY <1>1, <1>4, <1>5, <2>4 DEF OwnRefers
  <2> QED BY <1>1, <2>5, GoRefers DEF r
<1>6. CASE q.op = "documents"
  <2>1. q.lines \in Seq(Docs)
    BY <1>1, <1>6 DEF OwnRefers
  <2>2. q.lines[i] \in Docs
    BY <1>3, <2>1, ElementOfSeq
  <2>3. NextRow(c) = [corpus |-> q.target, doc |-> q.lines[i]]
    BY <1>6 DEF NextRow, i
  <2>4. NextRow(c) \in [corpus : DOMAIN corpora, doc : Docs]
    BY <1>6, <2>2, <2>3
  <2>5. OwnRefers(r, datasets, corpora, cases)
    BY <1>1, <1>4, <1>6, <2>4 DEF OwnRefers
  <2> QED BY <1>1, <2>5, GoRefers DEF r
<1> QED BY <1>5, <1>6

\* A step after which a request remembers something else and has written nothing.
LEMMA RememberRefers ==
    ASSUME RefersInv, CatalogueInv, NEW c \in Clients, NEW r, Go(c, r),
           r.op = req[c].op, r.lines = req[c].lines, r.target = req[c].target,
           r.own = req[c].own
    PROVE  RefersInv'
BY SameRefers, GoRefers DEF CatalogueInv

LEMMA ImportRefers ==
    ASSUME RefersInv, CatalogueInv, HonestInv, NEW c \in Clients, ImportValidCases(c)
    PROVE  RefersInv'
<1>1. DOMAIN req[c] = RequestFields /\ DOMAIN req = Clients
  BY DEF CatalogueInv, RequestInv
<1>2. CASE ImportReadsProject(c)
  <2> DEFINE r == [req[c] EXCEPT !.pc = "qids", !.project = datasets[req[c].target].project]
  <2>1. r.op = req[c].op /\ r.lines = req[c].lines /\ r.target = req[c].target /\ r.own = req[c].own
    BY <1>1 DEF RequestFields
  <2>2. Go(c, r) \/ Answer(c, "missing")
    BY <1>2 DEF ImportReadsProject
  <2> HIDE DEF r
  <2> QED BY <2>1, <2>2, RememberRefers, AnswerRefers
<1>3. CASE caseQIDs(c)
  <2> DEFINE r == [req[c] EXCEPT !.pc = "docs", !.qids = {row.qid : row \in CasesOf(req[c].target)}]
  <2>1. r.op = req[c].op /\ r.lines = req[c].lines /\ r.target = req[c].target /\ r.own = req[c].own
    BY <1>1 DEF RequestFields
  <2>2. Go(c, r)
    BY <1>3 DEF caseQIDs
  <2> HIDE DEF r
  <2> QED BY <2>1, <2>2, RememberRefers
<1>4. CASE CheckLines(c)
  <2> DEFINE good == GoodLines(req[c], projectDocIDs(req[c].project))
             r == [req[c] EXCEPT !.left = good, !.errors = (1 .. Len(req[c].lines)) \ good,
                                 !.pc = IF good = {} THEN "done" ELSE "insert",
                                 !.answer = IF good = {} THEN "ok" ELSE Null]
  <2>1. Go(c, r)
    BY <1>4, Zenon DEF CheckLines
  <2>2. r.op = req[c].op /\ r.lines = req[c].lines /\ r.target = req[c].target /\ r.own = req[c].own
    BY <1>1 DEF RequestFields
  <2> HIDE DEF r
  <2> QED BY <2>1, <2>2, RememberRefers
<1>5. CASE InsertCase(c)
  <2> DEFINE line == NextLine(c)
             r == [req[c] EXCEPT !.conflicts = {line}, !.errors = @ \cup {line},
                                 !.left = @ \ {line}, !.own = {}]
  <2>1. r.op = req[c].op /\ r.lines = req[c].lines /\ r.target = req[c].target /\ r.own = {}
    BY <1>1 DEF RequestFields
  <2>2. CASE Answer(c, "error")
    BY <2>2, AnswerRefers
  <2>3. CASE Go(c, r)
    <3> HIDE DEF r
    <3> QED BY <1>1, <2>1, <2>3, SameRefers, GoRefers
  <2>4. CASE Go(c, Wrote(c)) /\ req[c].conflicts = {} /\ req[c].target \in DOMAIN datasets
    BY <1>5, <2>4, WroteRefers DEF InsertCase, At
  <2> QED BY <1>5, <2>2, <2>3, <2>4 DEF InsertCase
<1>6. CASE CommitCases(c)
  <2>1. CASE Answer(c, "error")
    BY <2>1, AnswerRefers
  <2>2. CASE /\ Commits(c) /\ cases' = cases \cup req[c].own
             /\ UNCHANGED <<corpora, datasets, documents, runs>>
    <3>1. req[c].own \subseteq [dataset : DOMAIN datasets, qid : Qids]
      BY <1>6 DEF CommitCases, At, RefersInv, OwnRefers
    <3>2. CatalogueTypeOK'
      BY <2>2, <3>1 DEF RefersInv, CatalogueTypeOK, CasesOf
    <3> QED BY <2>2, <3>2, CommitsRefers
  <2> QED BY <1>6, <2>1, <2>2 DEF CommitCases
<1> QED BY <1>2, <1>3, <1>4, <1>5, <1>6 DEF ImportValidCases

LEMMA DocumentsRefers ==
    ASSUME RefersInv, CatalogueInv, HonestInv, NEW c \in Clients, CreateDocuments(c)
    PROVE  RefersInv'
<1>1. DOMAIN req[c] = RequestFields /\ DOMAIN req = Clients
  BY DEF CatalogueInv, RequestInv
<1>2. ASSUME NEW pc, Go(c, [req[c] EXCEPT !.pc = pc])
      PROVE  RefersInv'
  <2> DEFINE r == [req[c] EXCEPT !.pc = pc]
  <2>1. r.op = req[c].op /\ r.lines = req[c].lines /\ r.target = req[c].target /\ r.own = req[c].own
    BY <1>1 DEF RequestFields
  <2>2. Go(c, r)
    BY <1>2
  <2> HIDE DEF r
  <2> QED BY <2>1, <2>2, RememberRefers
<1>3. CASE corpusExists(c) \/ existingDocIDs(c)
  BY <1>2, <1>3, AnswerRefers DEF corpusExists, existingDocIDs
<1>4. CASE InsertDocument(c)
  <2>1. req[c].conflicts = {}
    BY <1>4 DEF InsertDocument, At, HonestInv, HonestRequest
  <2>2. \/ Answer(c, "error") \/ Answer(c, "conflict")
        \/ Go(c, Wrote(c)) /\ req[c].target \in DOMAIN corpora
    BY <1>4 DEF InsertDocument
  <2> QED BY <1>4, <2>1, <2>2, AnswerRefers, WroteRefers DEF InsertDocument, At
<1>5. CASE CommitDocuments(c)
  <2>1. req[c].own \subseteq [corpus : DOMAIN corpora, doc : Docs]
    BY <1>5 DEF CommitDocuments, At, RefersInv, OwnRefers
  <2>2. CatalogueTypeOK'
    BY <1>5, <2>1 DEF CommitDocuments, RefersInv, CatalogueTypeOK, CasesOf
  <2> QED BY <1>5, <2>2, CommitsRefers DEF CommitDocuments
<1> QED BY <1>3, <1>4, <1>5 DEF CreateDocuments

LEMMA RunRefers ==
    ASSUME RefersInv, CatalogueInv, NEW c \in Clients, CreateRunWithJob(c)
    PROVE  RefersInv'
<1> DEFINE q == req[c]
<1>1. DOMAIN q = RequestFields /\ DOMAIN req = Clients /\ OwnRefers(q, datasets, corpora, cases)
  BY DEF CatalogueInv, RequestInv, RefersInv
<1>2. q.op = "run"
  BY DEF CreateRunWithJob, ReadDataset, ReadCorpus, CountCases, InsertRun, InsertItems, CommitRun, At
<1>3. ASSUME NEW r, Go(c, r), r.op = "run",
             \A row \in r.own : /\ DOMAIN row = RunFields
                                /\ row.dataset = r.target /\ row.dataset \in DOMAIN datasets
                                /\ \A x \in row.items : x \in cases /\ x.dataset = row.dataset
      PROVE  RefersInv'
  <2>1. OwnRefers(r, datasets, corpora, cases)
    BY <1>3 DEF OwnRefers
  <2> QED BY <1>1, <1>3, <2>1, GoRefers
<1>4. CASE ReadDataset(c)
  <2> DEFINE r == [req[c] EXCEPT !.pc = "corpus", !.project = datasets[req[c].target].project]
  <2>1. r.op = req[c].op /\ r.lines = req[c].lines /\ r.target = req[c].target /\ r.own = req[c].own
    BY <1>1 DEF RequestFields
  <2>2. Go(c, r) \/ Answer(c, "missing")
    BY <1>4 DEF ReadDataset
  <2> HIDE DEF r
  <2> QED BY <2>1, <2>2, RememberRefers, AnswerRefers
<1>5. CASE ReadCorpus(c)
  <2> DEFINE r == [req[c] EXCEPT !.pc = "count"]
  <2>1. r.op = req[c].op /\ r.lines = req[c].lines /\ r.target = req[c].target /\ r.own = req[c].own
    BY <1>1 DEF RequestFields
  <2>2. Go(c, r) \/ Answer(c, "missing") \/ Answer(c, "refused")
    BY <1>5 DEF ReadCorpus
  <2> HIDE DEF r
  <2> QED BY <2>1, <2>2, RememberRefers, AnswerRefers
<1>6. CASE CountCases(c)
  <2> DEFINE n == Cardinality(CasesOf(req[c].target))
             r == [req[c] EXCEPT !.pc = "run", !.count = n]
  <2>1. r.op = req[c].op /\ r.lines = req[c].lines /\ r.target = req[c].target /\ r.own = req[c].own
    BY <1>1 DEF RequestFields
  <2>2. Go(c, r) \/ Answer(c, "refused")
    BY <1>6 DEF CountCases
  <2> HIDE DEF r
  <2> QED BY <2>1, <2>2, RememberRefers, AnswerRefers
<1>7. CASE InsertRun(c)
  <2> DEFINE row == [by |-> c, project |-> req[c].project, dataset |-> req[c].target,
                     corpus |-> req[c].corpus, total |-> req[c].count, items |-> {}]
             r == [req[c] EXCEPT !.pc = "items", !.own = {row}]
  <2>1. /\ DOMAIN row = RunFields /\ row.dataset = q.target /\ row.items = {}
    BY DEF RunFields
  <2>2. r.op = "run" /\ r.target = q.target /\ r.own = {row}
    BY <1>1, <1>2 DEF RequestFields
  <2>3. Answer(c, "missing") \/ (q.target \in DOMAIN datasets /\ Go(c, r))
    BY <1>7 DEF InsertRun
  <2> HIDE DEF row, r
  <2>4. CASE Answer(c, "missing")
    BY <2>4, AnswerRefers
  <2>5. CASE q.target \in DOMAIN datasets /\ Go(c, r)
    BY <1>3, <2>1, <2>2, <2>5
  <2> QED BY <2>3, <2>4, <2>5
<1>8. CASE InsertItems(c)
  <2> DEFINE full(row) == [row EXCEPT !.items = CasesOf(req[c].target)]
             r == [req[c] EXCEPT !.pc = "commit", !.own = {full(row) : row \in @}]
  <2>1. ASSUME NEW row \in q.own
        PROVE  /\ DOMAIN full(row) = RunFields
               /\ full(row).dataset = q.target /\ full(row).dataset \in DOMAIN datasets
               /\ full(row).items = CasesOf(q.target)
    BY <1>1, <1>2 DEF OwnRefers, RunFields
  <2>2. r.op = "run" /\ r.target = q.target /\ r.own = {full(row) : row \in q.own}
    BY <1>1, <1>2 DEF RequestFields
  <2>3. Answer(c, "error") \/ Go(c, r)
    BY <1>8, Zenon DEF InsertItems
  <2> HIDE DEF full, r
  <2>4. \A row \in r.own : /\ DOMAIN row = RunFields
                           /\ row.dataset = r.target /\ row.dataset \in DOMAIN datasets
                           /\ row.items = CasesOf(r.target)
    BY <2>1, <2>2
  <2>5. \A row \in r.own : \A x \in row.items : x \in cases /\ x.dataset = row.dataset
    BY <2>4 DEF CasesOf
  <2>6. CASE Go(c, r)
    BY <1>3, <2>2, <2>4, <2>5, <2>6
  <2>7. CASE Answer(c, "error")
    BY <2>7, AnswerRefers
  <2> QED BY <2>3, <2>6, <2>7
<1>9. CASE CommitRun(c)
  <2>1. /\ runs' = runs \cup q.own /\ UNCHANGED <<corpora, datasets, documents, cases>>
        /\ Commits(c)
    BY <1>9 DEF CommitRun
  <2>2. \A row \in q.own : row.dataset \in DOMAIN datasets /\ row.items \subseteq CasesOf(row.dataset)
    BY <1>1, <1>2 DEF OwnRefers, CasesOf
  <2>3. CatalogueTypeOK'
    BY <2>1, <2>2 DEF RefersInv, CatalogueTypeOK, CasesOf
  <2> QED BY <2>1, <2>3, CommitsRefers
<1> QED BY <1>4, <1>5, <1>6, <1>7, <1>8, <1>9 DEF CreateRunWithJob

\* A delete takes along what refers to its row, and waits for what will.
LEMMA EditRefers ==
    ASSUME RefersInv, Edit, CatalogueTypeOK',
           \A row \in Pending("import") : row.dataset \in DOMAIN datasets',
           \A row \in Pending("documents") : row.corpus \in DOMAIN corpora',
           \A row \in Pending("run") :
               row.dataset \in DOMAIN datasets' /\ \A x \in row.items : x \in cases'
    PROVE  RefersInv'
<1>1. ASSUME NEW c \in Clients PROVE OwnRefers(req[c], datasets', corpora', cases')
  <2>1. OwnRefers(req[c], datasets, corpora, cases)
    BY DEF RefersInv
  <2>2. req[c].own \subseteq Pending(req[c].op)
    BY DEF Pending
  <2>3. CASE req[c].op = "import"
    <3>1. \A row \in req[c].own : row \in [dataset : DOMAIN datasets, qid : Qids]
      BY <2>1, <2>3 DEF OwnRefers
    <3>2. \A row \in req[c].own : row \in [dataset : DOMAIN datasets', qid : Qids]
      BY <2>2, <2>3, <3>1
    <3> QED BY <2>1, <2>3, <3>2 DEF OwnRefers
  <2>4. CASE req[c].op = "documents"
    <3>1. \A row \in req[c].own : row \in [corpus : DOMAIN corpora, doc : Docs]
      BY <2>1, <2>4 DEF OwnRefers
    <3>2. \A row \in req[c].own : row \in [corpus : DOMAIN corpora', doc : Docs]
      BY <2>2, <2>4, <3>1
    <3> QED BY <2>1, <2>4, <3>2 DEF OwnRefers
  <2>5. CASE req[c].op = "run"
    BY <2>1, <2>2, <2>5 DEF OwnRefers
  <2> QED BY <2>3, <2>4, <2>5 DEF OwnRefers
<1> QED BY <1>1 DEF RefersInv, Edit

LEMMA PendingRefers ==
    ASSUME RefersInv
    PROVE  /\ \A row \in Pending("import") : row.dataset \in DOMAIN datasets
           /\ \A row \in Pending("documents") : row.corpus \in DOMAIN corpora
           /\ \A row \in Pending("run") :
                 row.dataset \in DOMAIN datasets
                 /\ \A x \in row.items : x \in cases /\ x.dataset = row.dataset
<1>1. ASSUME NEW c \in Clients PROVE OwnRefers(req[c], datasets, corpora, cases)
  BY DEF RefersInv
<1> QED BY <1>1 DEF Pending, OwnRefers

LEMMA CreateRefers ==
    ASSUME RefersInv, NEW project \in Projects, NEW name \in Names,
           CreateCorpus(project, name) \/ CreateDataset(project, name)
    PROVE  RefersInv'
<1> DEFINE row == [project |-> project, name |-> name]
<1>1. row \in [project : Projects, name : Names]
  OBVIOUS
<1>2. ASSUME NEW table, \A i \in DOMAIN table : table[i] \in [project : Projects, name : Names]
      PROVE  /\ DOMAIN table \subseteq DOMAIN Added(table, row)
             /\ \A i \in DOMAIN Added(table, row) :
                   Added(table, row)[i] \in [project : Projects, name : Names]
  BY <1>1, <1>2 DEF Added
<1>3. /\ Edit /\ UNCHANGED <<documents, cases, runs>>
      /\ corpora' = corpora \/ corpora' = Added(corpora, row)
      /\ datasets' = datasets \/ datasets' = Added(datasets, row)
  BY DEF CreateCorpus, CreateDataset
<1> HIDE DEF row
<1>4. /\ DOMAIN corpora \subseteq DOMAIN corpora' /\ DOMAIN datasets \subseteq DOMAIN datasets'
      /\ \A i \in DOMAIN corpora' : corpora'[i] \in [project : Projects, name : Names]
      /\ \A i \in DOMAIN datasets' : datasets'[i] \in [project : Projects, name : Names]
  BY <1>2, <1>3 DEF RefersInv, CatalogueTypeOK
<1>5. CatalogueTypeOK'
  BY <1>3, <1>4 DEF RefersInv, CatalogueTypeOK, CasesOf
<1> QED BY <1>3, <1>4, <1>5, PendingRefers, EditRefers

LEMMA UpdateRefers ==
    ASSUME RefersInv, NEW id \in DOMAIN corpora, NEW name \in Names, UpdateCorpus(id, name)
    PROVE  RefersInv'
<1>1. /\ Edit /\ UNCHANGED <<datasets, documents, cases, runs>>
      /\ corpora' = [corpora EXCEPT ![id].name = name]
  BY DEF UpdateCorpus
<1>2. \A i \in DOMAIN corpora : corpora[i] \in [project : Projects, name : Names]
  BY DEF RefersInv, CatalogueTypeOK
<1>3. /\ DOMAIN corpora' = DOMAIN corpora
      /\ \A i \in DOMAIN corpora' : corpora'[i] \in [project : Projects, name : Names]
  BY <1>1, <1>2
<1>4. CatalogueTypeOK'
  BY <1>1, <1>3 DEF RefersInv, CatalogueTypeOK, CasesOf
<1> QED BY <1>1, <1>3, <1>4, PendingRefers, EditRefers

LEMMA DeleteRefers ==
    ASSUME RefersInv, CatalogueInv,
           \/ \E id \in DOMAIN corpora : DeleteCorpus(id)
           \/ \E id \in DOMAIN datasets : DeleteDataset(id)
           \/ \E row \in documents : DeleteDocument(row)
           \/ \E row \in cases : DeleteCase(row)
    PROVE  RefersInv'
<1>1. \A r \in runs : DOMAIN r = RunFields
  BY DEF CatalogueInv, Within
<1>2. /\ \A i \in DOMAIN corpora : corpora[i] \in [project : Projects, name : Names]
      /\ \A i \in DOMAIN datasets : datasets[i] \in [project : Projects, name : Names]
      /\ \A d \in documents : d \in [corpus : DOMAIN corpora, doc : Docs]
      /\ \A x \in cases : x \in [dataset : DOMAIN datasets, qid : Qids]
      /\ \A r \in runs : /\ r.dataset \in DOMAIN datasets
                         /\ \A x \in r.items : x \in cases /\ x.dataset = r.dataset
  BY DEF RefersInv, CatalogueTypeOK, CasesOf
<1>3. ASSUME /\ \A i \in DOMAIN corpora' : corpora'[i] \in [project : Projects, name : Names]
             /\ \A i \in DOMAIN datasets' : datasets'[i] \in [project : Projects, name : Names]
             /\ \A d \in documents' : d \in [corpus : DOMAIN corpora', doc : Docs]
             /\ \A x \in cases' : x \in [dataset : DOMAIN datasets', qid : Qids]
             /\ \A r \in runs' : /\ r.dataset \in DOMAIN datasets'
                                 /\ \A x \in r.items : x \in cases' /\ x.dataset = r.dataset
      PROVE  CatalogueTypeOK'
  BY <1>3 DEF CatalogueTypeOK, CasesOf
<1>4. ASSUME NEW id \in DOMAIN corpora, DeleteCorpus(id) PROVE RefersInv'
  <2> DEFINE kept(r) == [r EXCEPT !.corpus = IF @ = id THEN Null ELSE @]
  <2>1. /\ Edit /\ corpora' = Drop(corpora, id) /\ documents' = {d \in documents : d.corpus # id}
        /\ UNCHANGED <<datasets, cases>>
        /\ \A d \in Pending("documents") : d.corpus # id
        /\ runs' = {kept(r) : r \in runs}
    BY <1>4 DEF DeleteCorpus
  <2>2. /\ DOMAIN corpora' = DOMAIN corpora \ {id}
        /\ \A i \in DOMAIN corpora' : corpora'[i] = corpora[i]
    BY <2>1 DEF Drop
  <2>3. \A r \in runs : kept(r).dataset = r.dataset /\ kept(r).items = r.items
    BY <1>1 DEF RunFields
  <2> HIDE DEF kept
  <2>4. \A r \in runs' : /\ r.dataset \in DOMAIN datasets'
                         /\ \A x \in r.items : x \in cases' /\ x.dataset = r.dataset
    BY <1>2, <2>1, <2>3
  <2>5. \A d \in documents' : d \in [corpus : DOMAIN corpora', doc : Docs]
    BY <1>2, <2>1, <2>2
  <2>6. CatalogueTypeOK'
    BY <1>2, <1>3, <2>1, <2>2, <2>4, <2>5
  <2> QED BY <2>1, <2>2, <2>6, PendingRefers, EditRefers
<1>5. ASSUME NEW id \in DOMAIN datasets, DeleteDataset(id) PROVE RefersInv'
  <2>1. /\ Edit /\ datasets' = Drop(datasets, id) /\ cases' = {row \in cases : row.dataset # id}
        /\ runs' = {r \in runs : r.dataset # id} /\ UNCHANGED <<corpora, documents>>
        /\ \A row \in Pending("import") \cup Pending("run") : row.dataset # id
    BY <1>5 DEF DeleteDataset
  <2>2. /\ DOMAIN datasets' = DOMAIN datasets \ {id}
        /\ \A i \in DOMAIN datasets' : datasets'[i] = datasets[i]
    BY <2>1 DEF Drop
  <2>3. \A r \in runs' : /\ r.dataset \in DOMAIN datasets'
                         /\ \A x \in r.items : x \in cases' /\ x.dataset = r.dataset
    BY <1>2, <2>1, <2>2
  <2>4. \A x \in cases' : x \in [dataset : DOMAIN datasets', qid : Qids]
    BY <1>2, <2>1, <2>2
  <2>5. CatalogueTypeOK'
    BY <1>2, <1>3, <2>1, <2>2, <2>3, <2>4
  <2>6. \A row \in Pending("run") : \A x \in row.items : x \in cases'
    BY <2>1, PendingRefers
  <2> QED BY <2>1, <2>2, <2>5, <2>6, PendingRefers, EditRefers
<1>6. ASSUME NEW row \in documents, DeleteDocument(row) PROVE RefersInv'
  <2>1. Edit /\ documents' = documents \ {row} /\ UNCHANGED <<corpora, datasets, cases, runs>>
    BY <1>6 DEF DeleteDocument
  <2>2. CatalogueTypeOK'
    BY <1>2, <1>3, <2>1
  <2> QED BY <2>1, <2>2, PendingRefers, EditRefers
<1>7. ASSUME NEW row \in cases, DeleteCase(row) PROVE RefersInv'
  <2> DEFINE kept(r) == [r EXCEPT !.items = @ \ {row}]
  <2>1. /\ Edit /\ cases' = cases \ {row} /\ UNCHANGED <<corpora, datasets, documents>>
        /\ runs' = {kept(r) : r \in runs}
        /\ \A r \in Pending("run") : row \notin r.items
    BY <1>7 DEF DeleteCase
  <2>2. \A r \in runs : kept(r).dataset = r.dataset /\ kept(r).items = r.items \ {row}
    BY <1>1 DEF RunFields
  <2> HIDE DEF kept
  <2>3. \A r \in runs' : /\ r.dataset \in DOMAIN datasets'
                         /\ \A x \in r.items : x \in cases' /\ x.dataset = r.dataset
    BY <1>2, <2>1, <2>2
  <2>4. CatalogueTypeOK'
    BY <1>2, <1>3, <2>1, <2>3
  <2>5. \A r \in Pending("run") : \A x \in r.items : x \in cases'
    BY <2>1, PendingRefers
  <2> QED BY <2>1, <2>4, <2>5, PendingRefers, EditRefers
<1> QED BY <1>4, <1>5, <1>6, <1>7

LEMMA RefersNext ==
    ASSUME CatalogueAssumption, CatalogueInv, HonestInv, RefersInv,
           [CatalogueNext]_catalogueVars
    PROVE  RefersInv'
<1>1. CASE UNCHANGED catalogueVars
  BY <1>1 DEF catalogueVars, tables, RefersInv, CatalogueTypeOK, CasesOf
<1>2. ASSUME NEW c \in Clients, Begin(c) PROVE RefersInv'
  <2>1. ASSUME NEW op, NEW id, NEW corpus, NEW lines, Go(c, Fresh(op, id, corpus, lines)),
               op = "import" => lines \in Seq([qid : Qids, docs : SUBSET Docs]),
               op = "documents" => lines \in Seq(Docs)
        PROVE  RefersInv'
    <3> DEFINE r == Fresh(op, id, corpus, lines)
    <3>1. r.op = op /\ r.lines = lines /\ r.own = {}
      BY DEF Fresh
    <3>2. Go(c, r)
      BY <2>1
    <3> HIDE DEF r
    <3>3. OwnRefers(r, datasets, corpora, cases)
      BY <2>1, <3>1 DEF OwnRefers
    <3> QED BY <3>2, <3>3, GoRefers DEF CatalogueInv
  <2>2. /\ \A file \in CaseFiles : file \in Seq([qid : Qids, docs : SUBSET Docs])
        /\ \A list \in DocLists : list \in Seq(Docs)
    BY DEF CatalogueAssumption
  <2>3. ASSUME NEW id, NEW file \in CaseFiles, Go(c, Fresh("import", id, Null, file))
        PROVE  RefersInv'
    BY <2>1, <2>2, <2>3
  <2>4. ASSUME NEW id, NEW list \in DocLists, Go(c, Fresh("documents", id, Null, list))
        PROVE  RefersInv'
    BY <2>1, <2>2, <2>4
  <2>5. ASSUME NEW id, NEW corpus, Go(c, Fresh("run", id, corpus, <<>>)) PROVE RefersInv'
    BY <2>1, <2>5
  <2> QED BY <1>2, <2>3, <2>4, <2>5 DEF Begin
<1>3. ASSUME NEW c \in Clients, DeadlockDetected(c) PROVE RefersInv'
  BY <1>3, AnswerRefers DEF DeadlockDetected
<1>4. ASSUME NEW c \in Clients,
             ImportValidCases(c) \/ CreateDocuments(c) \/ CreateRunWithJob(c)
      PROVE  RefersInv'
  BY <1>4, ImportRefers, DocumentsRefers, RunRefers
<1>5. CASE \E p \in Projects, n \in Names : CreateCorpus(p, n) \/ CreateDataset(p, n)
  BY <1>5, CreateRefers
<1>6. CASE \E id \in DOMAIN corpora : \E n \in Names : UpdateCorpus(id, n)
  BY <1>6, UpdateRefers
<1> QED BY <1>1, <1>2, <1>3, <1>4, <1>5, <1>6, DeleteRefers DEF CatalogueNext, Terminating

\* Types; and a document belongs to a corpus that is there, a case and a run to a
\* dataset that is there, an item to a case of the run's dataset, whatever is
\* deleted between the statements of a request. (000002_add_core_entities.up.sql.)
THEOREM ReferencesKept == CatalogueAssumption => (CatalogueSpec => []CatalogueTypeOK)
<1> SUFFICES ASSUME CatalogueAssumption PROVE CatalogueSpec => []CatalogueTypeOK
  OBVIOUS
<1> DEFINE I == CatalogueInv /\ HonestInv /\ RefersInv
<1>1. CatalogueInit => I
  <2> SUFFICES ASSUME CatalogueInit PROVE HonestInv /\ RefersInv
    BY InitInv
  <2>1. Len(<<>>) \in Nat
    BY EmptySeq
  <2>2. HonestInv
    BY <2>1, FreshHonest DEF CatalogueInit, HonestInv, Idle
  <2>3. /\ corpora = [i \in {1} |-> [project |-> 1, name |-> "n1"]]
        /\ datasets = [i \in {1} |-> [project |-> 1, name |-> "n1"]]
        /\ documents = {[corpus |-> 1, doc |-> "a"]}
        /\ cases \in {{}, {[dataset |-> 1, qid |-> "q1"]}} /\ runs = {}
    BY DEF CatalogueInit
  <2>4. CatalogueTypeOK
    BY <2>3 DEF CatalogueAssumption, CatalogueTypeOK
  <2>5. ASSUME NEW c \in Clients PROVE OwnRefers(req[c], datasets, corpora, cases)
    <3>1. req[c].op = "idle"
      BY DEF CatalogueInit, Idle, Fresh
    <3> QED BY <3>1 DEF OwnRefers
  <2> QED BY <2>2, <2>4, <2>5 DEF RefersInv
<1>2. I /\ [CatalogueNext]_catalogueVars => I'
  BY NextInv, HonestNext, RefersNext
<1>3. I => CatalogueTypeOK
  BY DEF RefersInv
<1> QED BY <1>1, <1>2, <1>3, PTL DEF CatalogueSpec
=============================================================================
