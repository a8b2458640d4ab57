------------------------------ MODULE MCStores ------------------------------
(***************************************************************************)
(* Four parts that write shared stores from several processes at once: the  *)
(* cache of the judge, the catalogue, the vector index, and the tables of    *)
(* one job.  They share no state; one behaviour is a behaviour of one of     *)
(* them: the first state says which, and the others stay as they begin.      *)
(***************************************************************************)
EXTENDS JudgeCache, Catalogue, Index, JobTransactions, TLC

VARIABLE part

ASSUME StoresAssumption == IndexAssumption /\ JobAssumption /\ CatalogueAssumption

\* The same two processes act in every part.
Symmetry == Permutations(Threads) \cup Permutations(Unfounded)

Line(q, d) == [qid |-> q, docs |-> d]

\* Two new cases; two that cite documents; a file that repeats a qid.
MCCaseFiles ==
    {<<Line("q1", {}), Line("q2", {})>>,
     <<Line("q2", {"b"}), Line("q1", {"a"})>>,
     <<Line("q2", {"b"}), Line("q2", {})>>}

MCDocLists == {<<"b">>, <<"b", "c">>, <<"c", "b">>}

\* One document, of two chunks under the first cutting and one under the second.
MCChunkCount ==
    [d \in IndexedDocs |-> [cfg \in Cuttings |-> IF cfg = 1 THEN 2 ELSE 1]]

MCBuilds == {[cfg |-> 1, recreate |-> TRUE]}

storeVars == <<part, vars, catalogueVars, indexVars, jobVars>>

StoresInit ==
    /\ part \in {"judge", "catalogue", "index", "job"}
    /\ Init /\ IndexInit /\ JobInit /\ CatalogueInit
    /\ part # "catalogue" => cases = {}

StoresNext ==
    /\ UNCHANGED part
    /\ \/ part = "judge" /\ Next /\ UNCHANGED <<catalogueVars, indexVars, jobVars>>
       \/ part = "catalogue" /\ CatalogueNext /\ UNCHANGED <<vars, indexVars, jobVars>>
       \/ part = "index" /\ IndexNext /\ UNCHANGED <<vars, catalogueVars, jobVars>>
       \/ part = "job" /\ JobNext /\ UNCHANGED <<vars, catalogueVars, indexVars>>

StoresSpec == StoresInit /\ [][StoresNext]_storeVars

\* Every part keeps its types; references lead to rows that are there, and a
\* collection of the index holds the chunks of one cutting.
StoresTypeOK == TypeOK /\ CatalogueTypeOK /\ IndexTypeOK /\ JobTypeOK
=============================================================================
