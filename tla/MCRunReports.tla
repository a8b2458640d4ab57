---------------------------- MODULE MCRunReports ----------------------------
(* RunReports on two cases; values in thousandths. *)
EXTENDS RunReports

MCCategory == [c \in Cases |-> IF c = 1 THEN "policy" ELSE ""]

\* The baseline searches one deep, the candidate two.
MCTopKs == {[run \in Runs |-> IF run = "baseline" THEN 1 ELSE 2]}

\* The default thresholds and looser ones.
MCYardsticks == {[low_rank_ratio |-> 50, quality_line |-> 3],
                 [low_rank_ratio |-> 100, quality_line |-> 2]}

\* A true answer of little help: bad by the default line, good by the other.
Middling == [supported |-> 1, unsupported |-> 0, irrelevant |-> 0,
             rubric |-> [relevance |-> 5, helpfulness |-> 3]]

Unfounded == [supported |-> 1, unsupported |-> 1, irrelevant |-> 0, rubric |-> NoRubric]

\* The evidence comes first; or it comes second, too late for a search one deep,
\* and the answer makes things up.
MCOutcomes ==
    {[gold |-> {"p"}, retrieved |-> <<"p", "q">>, judge |-> Middling],
     [gold |-> {"p"}, retrieved |-> <<"q", "p">>, judge |-> Unfounded]}
=============================================================================
