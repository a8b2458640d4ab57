------------------------------ MODULE HumanGold ------------------------------
(***************************************************************************)
(* Judgements of people about the answers of one run, and the report that  *)
(* compares the judge with them: server/internal/http/human_gold.go and    *)
(* server/internal/store/human_gold.go over eval/calibration.go.           *)
(*                                                                         *)
(* Every write is one statement. The report reads the gold rows and then   *)
(* the results of the run; no write changes both tables or depends on the  *)
(* other one, so what it reads in two statements is a state that can also  *)
(* be read at once, and the properties look at the report of every state.  *)
(* Left out are the row's second score, which is written and compared like *)
(* the first one, its note, and its mark of having been reviewed, which    *)
(* the report only counts.                                                 *)
(***************************************************************************)
EXTENDS Calibration, Compare, Requests

CONSTANTS
    Cases, GoldAnnotators, \* 1..n each, in the order of their names
    GoldScores,            \* the scores people give, in 1..5
    CaseResults,           \* metrics and judgement the worker may store of a case
    ReadLimits,            \* how many results a report may read (500 in the code)
    NoGold,                \* "no row in human_gold_scores"
    NoResult               \* "no row in case_results"

GoldAssumption ==
    /\ Cases \subseteq Nat /\ IsFiniteSet(Cases)
    /\ GoldAnnotators \subseteq Nat /\ IsFiniteSet(GoldAnnotators)
    /\ MaxDisagreements \in Nat
    /\ ReadLimits \subseteq Nat
    /\ NoGold \notin [verdict : Verdicts, score : GoldScores \cup {NoScore}]
    /\ NoResult \notin CaseResults
    /\ \A result \in CaseResults :
          /\ floatField(result.metrics, "recall") \in Int
          /\ result.judge # NoJudge => judgeSummary(result.judge) # NoJudge

VARIABLES
    gold,    \* the human_gold_scores of the run by their unique key
    results, \* the metrics and the judgement in the case_results of the run
    given    \* history: the last score of each row somebody gave and nobody withdrew

goldVars == <<gold, results, given>>

GoldKeys == Cases \X GoldAnnotators

GoldRow == [verdict : Verdicts, score : GoldScores \cup {NoScore}]

GoldTypeOK ==
    /\ gold \in [GoldKeys -> GoldRow \cup {NoGold}]
    /\ results \in [Cases -> CaseResults \cup {NoResult}]
    /\ given \in [GoldKeys -> GoldScores \cup {NoScore}]

Rows == {k \in GoldKeys : gold[k] # NoGold}

GoldInit ==
    /\ gold = [k \in GoldKeys |-> NoGold]
    /\ results = [c \in Cases |-> NoResult]
    /\ given = [k \in GoldKeys |-> NoScore]

-----------------------------------------------------------------------------
(* Writers *)

\* Mutant: the row is replaced as a whole.
MergedGold_Overwrite(old, verdict, score) ==
    [verdict |-> verdict, score |-> coalesce(score, NoScore)]

\* ON CONFLICT DO UPDATE: what the request leaves out keeps its value.
MergedGold(old, verdict, score) ==
    [verdict |-> verdict, score |-> coalesce(score, old.score)]

\* POST /human-gold: at most one row for each case and annotator.
UpsertGold(k, verdict, score) ==
    /\ gold' = [gold EXCEPT ![k] =
          IF @ = NoGold THEN [verdict |-> verdict, score |-> coalesce(score, NoScore)]
          ELSE MergedGold(@, verdict, score)]
    /\ given' = [given EXCEPT ![k] = coalesce(score, @)]
    /\ UNCHANGED results

\* PATCH /human-gold/:id: a score of 0 withdraws the score.
UpdateGold(k, verdict, score) ==
    /\ k \in Rows
    /\ gold' = [gold EXCEPT ![k] =
          [verdict |-> coalesce(verdict, @.verdict),
           score |-> IF score = 0 THEN NoScore ELSE coalesce(score, @.score)]]
    /\ given' = [given EXCEPT ![k] = IF score = 0 THEN NoScore ELSE coalesce(score, @)]
    /\ UNCHANGED results

DeleteGold(k) ==
    /\ k \in Rows
    /\ gold' = [gold EXCEPT ![k] = NoGold]
    /\ given' = [given EXCEPT ![k] = NoScore]
    /\ UNCHANGED results

\* The worker stores the result of a case.
CompleteItem(c, result) ==
    /\ results[c] = NoResult
    /\ results' = [results EXCEPT ![c] = result]
    /\ UNCHANGED <<gold, given>>

-----------------------------------------------------------------------------
(* GET /judge-calibration *)

\* A rubric score of the judge as people give it.
rubricScore(hasRubric, value) ==
    IF ~hasRubric \/ value <= 0 THEN NoScore ELSE IF value > 5 THEN 5 ELSE value

WithResult == {c \in Cases : results[c] # NoResult}

\* The results the report reads: of a run beyond the limit, the worst by recall.
Read(limit) == ListRunCaseResults([c \in WithResult |-> results[c]], limit)

\* What the report makes of a gold row and the results it has read. A judgement
\* it has not read is none.
Item(read, k) ==
    LET summary == IF k[1] \in DOMAIN read THEN judgeSummary(read[k[1]].judge) ELSE NoJudge
        judged == summary # NoJudge
    IN [verdict |-> gold[k].verdict, humanScore |-> gold[k].score,
        judgeHasOpinion |-> judged /\ summary.claims > 0,
        judgeUnsupported |-> IF judged THEN summary.unsupported ELSE 0,
        judgeScore |-> IF judged THEN rubricScore(summary.hasRubric, summary.helpfulness)
                       ELSE NoScore]

Items(limit) == LET read == Read(limit) IN [k \in Rows |-> Item(read, k)]

\* The body of the answer; it is empty if nobody has judged anything yet.
Calibrated(limit) == ComputeCalibration(Items(limit), Cardinality(Cases))

GoldNext ==
    \/ \E k \in GoldKeys, verdict \in Verdicts, score \in GoldScores \cup {Absent} :
          UpsertGold(k, verdict, score)
    \/ \E k \in GoldKeys, verdict \in Verdicts \cup {Absent}, score \in GoldScores \cup {0, Absent} :
          UpdateGold(k, verdict, score)
    \/ \E k \in GoldKeys : DeleteGold(k)
    \/ \E c \in Cases, result \in CaseResults : CompleteItem(c, result)

GoldSpec == GoldInit /\ [][GoldNext]_goldVars

-----------------------------------------------------------------------------
(* Properties *)

\* Kappa lies between -1 and 1; it is 1 only if judge and annotator always agree
\* and say both things; a judge, or an annotator, that says the same of every
\* answer has a kappa of 0, however often it is right. (calibration.go:15-16.)
KappaDiscounts ==
    \A limit \in ReadLimits : Rows # {} =>
        LET r == Calibrated(limit).binary
            judgeYes == r.truePositive + r.falsePositive
            humanYes == r.truePositive + r.falseNegative
            k == r.kappa
        IN /\ k.den > 0 /\ k.num <= k.den /\ k.num >= -k.den
           /\ judgeYes \in {0, r.pairs} \/ humanYes \in {0, r.pairs} => k.num = 0
           /\ k.num = k.den <=>
                r.agreement = r.pairs /\ judgeYes > 0 /\ judgeYes < r.pairs

\* Whoever has no opinion is no evidence: the numbers are the same without the
\* cases the annotator found unclear and those without a claim to judge, and no
\* case of a run that was read as a whole is missing from them. Of a longer run
\* the report leaves out what it has not read, be it judged or not: it takes such
\* a case for one without an opinion of the judge. (calibration.go:18-20, 46-47;
\* http/human_gold.go:244-245.)
SilentOut ==
    \A limit \in ReadLimits : Rows # {} =>
        LET items == Items(limit)
            own == ItemsOf(items, PrimaryAnnotator(items))
            read == DOMAIN Read(limit)
            spoken == {k \in DOMAIN own : /\ own[k].verdict # "unclear"
                                          /\ k[1] \in read /\ results[k[1]].judge # NoJudge
                                          /\ judgeSummary(results[k[1]].judge).claims > 0}
            r == computeBinary(own)
            without == computeBinary([k \in spoken |-> own[k]])
        IN /\ Cardinality(WithResult) <= limit => read = WithResult
           /\ r.pairs = Cardinality(spoken)
           /\ [r EXCEPT !.excludedUnclear = 0] = without

\* The parts of the report tell one story. The list of disagreements has every
\* case the table counts as missed or as a false alarm, up to its limit, and a
\* false alarm only when no missed one is left out. The matrix has people in its
\* rows and the judge in its columns, as the sign of the bias has it. And two
\* people who disagree are not mistaken for a wrong judge: nothing depends on the
\* rows of anyone but the primary annotator. (calibration.go:77-78, 91-94, 155-157.)
ReportCoherent ==
    \A limit \in ReadLimits : Rows # {} =>
        LET r == Calibrated(limit)
            wrong == r.binary.falseNegative + r.binary.falsePositive
            missed == {k \in r.disagreements : gold[k].verdict = "hallucinated"}
            own == {k \in Rows : k[2] = r.primaryAnnotator}
            items == Items(limit)
            alone == ComputeCalibration([k \in own |-> items[k]], Cardinality(Cases))
            off == [p \in (1..5) \X (1..5) |-> (p[2] - p[1]) * r.scores.confusion[p]]
        IN /\ Cardinality(r.disagreements) = Min({wrong, MaxDisagreements})
           /\ Cardinality(missed) = Min({r.binary.falseNegative, MaxDisagreements})
           /\ SumFunction(off) = r.scores.bias
           /\ SumFunction([h \in 1..5 |-> r.scores.confusion[<<h, h>>]]) = r.scores.exact
           /\ [alone EXCEPT !.interAnnotator = r.interAnnotator] = r
           /\ \A a \in GoldAnnotators :
                Cardinality({k \in Rows : k[2] = a}) <= Cardinality(own)

\* Submitting a verdict again loses no score: the report compares the judge with
\* the last score somebody gave, over any number of requests that leave scores
\* out, until one withdraws it or deletes the row. (store/human_gold.go:95-98.)
LastGivenStands ==
    /\ \A k \in Rows : gold[k].score = given[k]
    /\ \A k \in GoldKeys \ Rows : given[k] = NoScore

=============================================================================
