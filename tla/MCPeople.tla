------------------------------ MODULE MCPeople ------------------------------
(***************************************************************************)
(* What people do through the pages, and the test behind the reports: five  *)
(* parts that share no state.  One behaviour is a behaviour of one of them:  *)
(* the first state says which, and the others stay as they begin.            *)
(***************************************************************************)
EXTENDS UserAdmin, Annotations, HumanGold, Submission, WilcoxonSamples

VARIABLE part

RequestSymmetry == Permutations(Clients)

ASSUME PeopleAssumption == AnnotationAssumption /\ GoldAssumption /\ SubmissionAssumption

\* Reasons are the empty one and another.
MCReasons == {"", "retrieval"}

\* Nothing found, or a metric that is not stored; and all found. Not judged, no
\* claims, one unfounded claim, a founded one with a modest score.
Judged(s, u, rubric) == [supported |-> s, unsupported |-> u, irrelevant |-> 0, rubric |-> rubric]

Found(n) == IF n = 0 THEN NoMetric ELSE [name \in MetricsCompared |-> n]

MCCaseResults ==
    {[metrics |-> Found(Scale), judge |-> NoJudge],
     [metrics |-> Found(0),     judge |-> Judged(0, 0, NoRubric)],
     [metrics |-> Found(0),     judge |-> Judged(1, 1, NoRubric)],
     [metrics |-> Found(Scale), judge |-> Judged(1, 0, [relevance |-> 2, helpfulness |-> 2])]}

MCCategory == [c \in Cases |-> "any"]

MCDifferences == {-3, -2, 0, 1}

MCChunking == [chunk_size |-> 2, overlap |-> 1]

MCServers ==
    {[embedding  |-> s[1],
      generation |-> [model |-> s[2], temperature |-> 1],
      judge      |-> [model |-> s[2], temperature |-> 1, enable_rubric |-> TRUE]] :
        s \in {<<"e1", "m1">>, <<"e1", "m2">>, <<"e2", "m2">>}}

Body(c, k, g, j) == [chunking |-> c, top_k |-> k, generation |-> g, judge |-> j]
Overlapping(n) == [chunk_size |-> 2, overlap |-> n]

\* Everything left out, everything sent, all the mixtures of the two, and one
\* body for each reason to refuse it.
MCBodies ==
    {Body(c, k, g, j) :
        c \in {Absent, Overlapping(0)}, k \in {0, 3},
        g \in {Absent, [model |-> Blank, temperature |-> Absent], [model |-> "m1", temperature |-> 0]},
        j \in {Absent, [model |-> Blank, temperature |-> Absent, enable_rubric |-> Absent],
              [model |-> "m1", temperature |-> 0, enable_rubric |-> FALSE]}}
    \cup {Body(Overlapping(2), 3, Absent, Absent),
          Body(Overlapping(0), MaxTopK + 1, Absent, Absent),
          Body(Overlapping(0), 3, [model |-> Blank, temperature |-> MaxTemperature + 1], Absent),
          Body(Overlapping(0), 3, [model |-> Blank, temperature |-> 0],
               [model |-> Blank, temperature |-> MaxTemperature + 1, enable_rubric |-> FALSE])}

MCEmptyForm ==
    [chunking          |-> MCChunking,
     topK              |-> 5,
     generationEnabled |-> FALSE,
     generation        |-> [model |-> "m1", temperature |-> 0],
     judgeEnabled      |-> FALSE,
     judge             |-> [model |-> "m1", temperature |-> 0, enable_rubric |-> TRUE]]

MCForms ==
    {[MCEmptyForm EXCEPT !.topK = k, !.generationEnabled = g, !.judgeEnabled = j] :
        k \in {1, 5, MaxTopK + 1}, g \in BOOLEAN, j \in BOOLEAN}

peopleVars == <<part, vars, annotationVars, goldVars, submissionVars, sample>>

PeopleInit ==
    /\ part \in {"users", "annotations", "gold", "submission", "samples"}
    /\ Init /\ AnnotationsInit /\ GoldInit /\ SamplesInit
    /\ IF part = "submission" THEN SubmissionInit
       ELSE server = Empty /\ template = Empty /\ run = Empty

PeopleNext ==
    /\ UNCHANGED part
    /\ \/ /\ part = "users" /\ Next
          /\ UNCHANGED <<annotationVars, goldVars, submissionVars, sample>>
       \/ /\ part = "annotations" /\ AnnotationsNext
          /\ UNCHANGED <<vars, goldVars, submissionVars, sample>>
       \/ /\ part = "gold" /\ GoldNext
          /\ UNCHANGED <<vars, annotationVars, submissionVars, sample>>
       \/ /\ part = "submission" /\ SubmissionNext
          /\ UNCHANGED <<vars, annotationVars, goldVars, sample>>
       \/ /\ part = "samples" /\ SamplesNext
          /\ UNCHANGED <<vars, annotationVars, goldVars, submissionVars>>

PeopleSpec == PeopleInit /\ [][PeopleNext]_peopleVars

\* Every part keeps its types; a stored template is complete and valid.
PeopleTypeOK ==
    /\ TypeOK /\ AnnotationsTypeOK /\ GoldTypeOK
    /\ part = "submission" => SubmissionTypeOK
=============================================================================
