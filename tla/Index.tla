-------------------------------- MODULE Index --------------------------------
(***************************************************************************)
(* The vector index: who builds it, who searches it, and what the case page *)
(* shows of it later.  Jobs and command-line builds work on the same         *)
(* collections without a lock; a worker may die at any point; documents are  *)
(* deleted and uploaded again meanwhile.                                     *)
(*                                                                         *)
(* A chunk is the triple of text, cutting and index it is cut from.  Which    *)
(* points a search finds is up to the embedding: any of them, here listed in  *)
(* the order of the documents.                                               *)
(***************************************************************************)
EXTENDS Integers, Sequences, FiniteSets, FiniteSetsExt, SequencesExt

CONSTANTS
    Workers,
    IndexedDocs, \* doc_id, ordered
    Texts,       \* versions of a document's raw_text
    Cuttings,    \* chunking configurations
    ChunkCount,  \* how many chunks a document has under a cutting
    Builds,      \* builds from the command line: [cfg, recreate]
    Corpus, TopK, UpsertBatch, MaxUploads,
    Missing

IndexAssumption ==
    /\ IsFiniteSet(IndexedDocs) /\ IndexedDocs \subseteq Int /\ Texts # {}
    /\ ChunkCount \in [IndexedDocs -> [Cuttings -> Nat]]
    /\ Builds \subseteq [cfg : Cuttings, recreate : BOOLEAN]
    /\ UpsertBatch \in Nat \ {0}

VARIABLES
    texts,       \* doc_id -> text
    collections, \* name -> point id -> payload
    worker,
    caseResult,  \* retrieved of the last case result, with the texts found then
    reuploaded,  \* history: doc_ids that came back with another text
    uploads

indexVars == <<texts, collections, worker, caseResult, reuploaded, uploads>>

\* Mutant: the cutting is not part of the name.
collection_name_CorpusOnly(corpus, cfg) == <<corpus>>

collection_name(corpus, cfg) == <<corpus, cfg>>

\* Mutant: the chunk's index is not part of the id.
point_id_Document(corpus, doc, i, cfg) == <<corpus, doc, cfg>>

point_id(corpus, doc, i, cfg) == <<corpus, doc, i, cfg>>

chunk_document(doc, text, cfg) == {[text |-> text, cfg |-> cfg, index |-> i] : i \in 1 .. ChunkCount[doc][cfg]}

Before(x, y) == x.doc < y.doc \/ (x.doc = y.doc /\ x.chunk.index < y.chunk.index)

\* All chunks of the documents read, by document and by index: there is one
\* such list.
Entries(docs, cfg) ==
    LET chunks == UNION {{[doc |-> d, chunk |-> k] : k \in chunk_document(d, docs[d], cfg)} :
                            d \in DOMAIN docs}
    IN  {list \in SetToSeqs(chunks) :
            \A i, j \in DOMAIN list : i < j => Before(list[i], list[j])}

IdleWorker == [pc |-> "idle", cfg |-> 0, recreate |-> FALSE, job |-> FALSE,
         read |-> <<>>, written |-> 0, disturbed |-> FALSE]

IndexInit ==
    /\ texts = [d \in IndexedDocs |-> CHOOSE t \in Texts : TRUE]
    /\ collections = <<>>
    /\ worker = [w \in Workers |-> IdleWorker]
    /\ caseResult = Missing
    /\ reuploaded = {}
    /\ uploads = 0

Name(w) == collection_name(Corpus, worker[w].cfg)
Exists(name) == name \in DOMAIN collections
Uses(w) == worker[w].pc \in {"read", "upsert", "search"}

Becomes(w, r) == worker' = [worker EXCEPT ![w] = r]
Pc(w, pc) == Becomes(w, [worker[w] EXCEPT !.pc = pc])

(***************************************************************************)
(* A job builds the collection when there is none; the command line always  *)
(* builds, and may drop the old one first.                                  *)
(***************************************************************************)
\* The executor asks collection_exists first, and searches what is there.
StartJob(w, cfg) ==
    /\ worker[w] = IdleWorker
    /\ Becomes(w, [IdleWorker EXCEPT !.pc = IF Exists(collection_name(Corpus, cfg)) THEN "search" ELSE "ensure",
                          !.cfg = cfg, !.job = TRUE])
    /\ UNCHANGED <<texts, collections, caseResult, reuploaded, uploads>>

StartBuild(w, build) ==
    /\ worker[w] = IdleWorker
    /\ Becomes(w, [IdleWorker EXCEPT !.pc = "ensure", !.cfg = build.cfg, !.recreate = build.recreate])
    /\ UNCHANGED <<texts, collections, caseResult, reuploaded, uploads>>

\* ensure_collection asks first and acts later, in steps of its own: others may
\* create or drop the collection in between.
ensure_collection(w) ==
    /\ worker[w].pc = "ensure"
    /\ \/ Exists(Name(w)) /\ worker[w].recreate /\ Pc(w, "drop")
       \/ Exists(Name(w)) /\ ~worker[w].recreate /\ Pc(w, "size")
       \/ ~Exists(Name(w)) /\ Pc(w, "create")
    /\ UNCHANGED <<texts, collections, caseResult, reuploaded, uploads>>

\* Dropping a collection takes away what others wrote to it or are searching in
\* it; one that is gone already is dropped without complaint.
delete_collection(w) ==
    /\ worker[w].pc = "drop"
    /\ collections' = [n \in DOMAIN collections \ {Name(w)} |-> collections[n]]
    /\ worker' = [v \in Workers |->
                    IF v = w THEN [worker[v] EXCEPT !.pc = "create"]
                    ELSE [worker[v] EXCEPT !.disturbed = @ \/ (Uses(v) /\ Name(v) = Name(w))]]
    /\ UNCHANGED <<texts, caseResult, reuploaded, uploads>>

create_collection(w) ==
    /\ worker[w].pc = "create" /\ ~Exists(Name(w))
    /\ Pc(w, "read")
    /\ collections' = [n \in DOMAIN collections \cup {Name(w)} |->
                          IF Exists(n) THEN collections[n] ELSE <<>>]
    /\ UNCHANGED <<texts, caseResult, reuploaded, uploads>>

\* The collection that was there is asked for its vector size; every build uses
\* the dimension of the settings, so that the answer is the right one.
vector_size(w) ==
    /\ worker[w].pc = "size" /\ Exists(Name(w))
    /\ Pc(w, "read")
    /\ UNCHANGED <<texts, collections, caseResult, reuploaded, uploads>>

list_documents(w) ==
    /\ worker[w].pc = "read"
    /\ \E list \in Entries(texts, worker[w].cfg) :
          Becomes(w, [worker[w] EXCEPT !.pc = "upsert", !.read = list])
    /\ UNCHANGED <<texts, collections, caseResult, reuploaded, uploads>>

BatchEnd(r) == Min({r.written + UpsertBatch, Len(r.read)})

\* One batch; a point that is there is overwritten.
upsert_chunks(w) ==
    LET r     == worker[w]
        batch == {r.read[i] : i \in (r.written + 1 .. BatchEnd(r)) \cap DOMAIN r.read}
        Id(e) == point_id(Corpus, e.doc, e.chunk.index, r.cfg)
        ids   == {Id(e) : e \in batch}
    IN  /\ r.pc = "upsert" /\ r.written < Len(r.read) /\ Exists(Name(w))
        /\ collections' = [collections EXCEPT ![Name(w)] =
              [p \in DOMAIN @ \cup ids |->
                  IF p \in ids THEN CHOOSE e \in batch : Id(e) = p ELSE @[p]]]
        /\ Becomes(w, [r EXCEPT !.written = BatchEnd(r)])
        /\ UNCHANGED <<texts, caseResult, reuploaded, uploads>>

\* A collection somebody else dropped, or created, meanwhile: the call raises, the
\* build fails, and with it the job.
BuildFails(w) ==
    /\ \/ worker[w].pc = "size" /\ ~Exists(Name(w))
       \/ worker[w].pc = "create" /\ Exists(Name(w))
       \/ worker[w].pc = "upsert" /\ worker[w].written < Len(worker[w].read) /\ ~Exists(Name(w))
    /\ Becomes(w, IdleWorker)
    /\ UNCHANGED <<texts, collections, caseResult, reuploaded, uploads>>

BuildDone(w) ==
    /\ worker[w].pc = "upsert" /\ worker[w].written = Len(worker[w].read)
    /\ IF worker[w].job THEN Pc(w, "search") ELSE Becomes(w, IdleWorker)
    /\ UNCHANGED <<texts, collections, caseResult, reuploaded, uploads>>

\* Retrieved keeps point id, document and score; found is what was searched.
Search(w) ==
    LET points == collections[Name(w)]
        n      == Min({Cardinality(DOMAIN points), TopK})
    IN  /\ worker[w].pc = "search" /\ Exists(Name(w))
        /\ \E ids \in [1 .. n -> DOMAIN points] :
              /\ \A i, j \in 1 .. n : i < j => Before(points[ids[i]], points[ids[j]])
              /\ caseResult' = [name |-> Name(w), retrieved |-> ids,
                            found |-> [i \in 1 .. n |-> points[ids[i]]]]
        /\ Becomes(w, IdleWorker)
        /\ UNCHANGED <<texts, collections, reuploaded, uploads>>

\* The query raises when the collection is gone: the item fails, and keeps the
\* result it had.
SearchFails(w) ==
    /\ worker[w].pc = "search" /\ ~Exists(Name(w))
    /\ Becomes(w, IdleWorker)
    /\ UNCHANGED <<texts, collections, caseResult, reuploaded, uploads>>

WorkerCrash(w) ==
    /\ worker[w] # IdleWorker
    /\ Becomes(w, IdleWorker)
    /\ UNCHANGED <<texts, collections, caseResult, reuploaded, uploads>>

(***************************************************************************)
(* Documents have no update: they are deleted and uploaded again.           *)
(***************************************************************************)
WithdrawDocument(d) ==
    /\ texts' = [e \in DOMAIN texts \ {d} |-> texts[e]]
    /\ UNCHANGED <<collections, worker, caseResult, reuploaded, uploads>>

UploadDocument(d, text) ==
    /\ d \notin DOMAIN texts /\ uploads < MaxUploads
    /\ texts' = [e \in DOMAIN texts \cup {d} |-> IF e = d THEN text ELSE texts[e]]
    /\ reuploaded' = IF text = CHOOSE t \in Texts : TRUE THEN reuploaded ELSE reuploaded \cup {d}
    /\ uploads' = uploads + 1
    /\ UNCHANGED <<collections, worker, caseResult>>

IndexNext ==
    \/ \E w \in Workers :
          \/ \E cfg \in Cuttings : StartJob(w, cfg)
          \/ \E build \in Builds : StartBuild(w, build)
          \/ ensure_collection(w) \/ delete_collection(w) \/ create_collection(w) \/ vector_size(w)
          \/ list_documents(w) \/ upsert_chunks(w) \/ BuildFails(w) \/ BuildDone(w)
          \/ Search(w) \/ SearchFails(w) \/ WorkerCrash(w)
    \/ \E d \in DOMAIN texts : WithdrawDocument(d)
    \/ \E d \in IndexedDocs, text \in Texts : UploadDocument(d, text)

IndexSpec == IndexInit /\ [][IndexNext]_indexVars

(***************************************************************************)
(* The case page asks for the retrieved points by id.                       *)
(***************************************************************************)
RetrievePoints(name, ids) ==
    IF Exists(name)
    THEN [p \in DOMAIN collections[name] \cap Range(ids) |-> collections[name][p]]
    ELSE <<>>

\* Mutant: the answer is paired with the list by position.
chunksOf_ByPosition(retrieved, points) ==
    LET there == SelectSeq(retrieved, LAMBDA p : p \in DOMAIN points)
    IN  [i \in DOMAIN retrieved |-> IF i \in DOMAIN there THEN points[there[i]] ELSE Missing]

chunksOf(retrieved, points) ==
    [i \in DOMAIN retrieved |-> IF retrieved[i] \in DOMAIN points THEN points[retrieved[i]] ELSE Missing]

CaseContext == chunksOf(caseResult.retrieved, RetrievePoints(caseResult.name, caseResult.retrieved))

(***************************************************************************)
(* Properties.                                                             *)
(***************************************************************************)
\* Types; and a collection holds the chunks of one cutting, whoever builds it.
IndexTypeOK ==
    /\ \A d \in DOMAIN texts : d \in IndexedDocs /\ texts[d] \in Texts
    /\ \A w \in Workers : worker[w].written \in 0 .. Len(worker[w].read)
    /\ \A n \in DOMAIN collections : \A p, q \in DOMAIN collections[n] :
          /\ collections[n][p].doc \in IndexedDocs
          /\ collections[n][p].chunk.cfg = collections[n][q].chunk.cfg

\* A worker that has written all it read finds, for every chunk of its list, a
\* point of that document and index in the collection, and so does the job that
\* goes on to search it: under any mixture with other builds, half builds, lost
\* races to create and crashes before it, as long as nobody dropped the
\* collection meanwhile. (The text of the point may be a later one's.)
BuildComplete ==
    \A w \in Workers :
        (Uses(w) /\ worker[w].written = Len(worker[w].read) /\ ~worker[w].disturbed) =>
            /\ Exists(Name(w))
            /\ \A i \in DOMAIN worker[w].read :
                \E p \in DOMAIN collections[Name(w)] :
                    LET e == collections[Name(w)][p]
                    IN  e.doc = worker[w].read[i].doc /\ e.chunk.index = worker[w].read[i].chunk.index

\* Not so: a job finds the collection there, builds nothing and searches it, while
\* the worker that created it has written half of it, or died half way.  Nothing
\* tells such a collection from a whole one.
SearchedWhole ==
    \A w \in Workers : (worker[w].pc = "search" /\ ~worker[w].disturbed /\ uploads = 0) =>
        \A d \in DOMAIN texts : \A k \in chunk_document(d, texts[d], worker[w].cfg) :
            \E p \in DOMAIN collections[Name(w)] :
                /\ collections[Name(w)][p].doc = d
                /\ collections[Name(w)][p].chunk.index = k.index

\* A text shown beside an old answer is the one that was retrieved, or is marked
\* missing: never another chunk's.
ContextHonest ==
    caseResult # Missing => \A i \in DOMAIN CaseContext :
        \/ CaseContext[i] = Missing
        \/ caseResult.found[i].doc \in reuploaded
        \/ CaseContext[i] = caseResult.found[i]

\* process.md D17, qdrant.go:16: an old run gets the very text of its time.  A
\* document that came back with another text overwrites the point.
ContextAsRetrieved ==
    caseResult # Missing => \A i \in DOMAIN CaseContext : CaseContext[i] \in {Missing, caseResult.found[i]}
=============================================================================
