------------------------------ MODULE Compare ------------------------------
(***************************************************************************)
(* The report that compares two runs of one dataset, a left and a right    *)
(* one: server/internal/eval/ab.go, and what                               *)
(* server/internal/http/runs_compare.go makes of the stored results.       *)
(*                                                                         *)
(* One side of a comparison is a function from the cases it has results    *)
(* for to records of metrics, flags and judgement; a case stands for its   *)
(* qid and for its id, which are one to one within a dataset. Values are   *)
(* integers in units of 1/Scale. Means are kept as sums over the compared  *)
(* cases, and compared after multiplication with their number.             *)
(***************************************************************************)
EXTENDS FiniteSets, FiniteSetsExt, SequencesExt, Wilcoxon

CONSTANTS
    Category,   \* the category of each case; its difficulty is treated alike
    Scale,      \* the value that stands for 1.0
    NoiseFloor, \* DefaultNoiseFloor in these units, rounded down
    NoValue,    \* "the metric has no value"
    NoMetric,   \* the stored metrics of a case without gold: {}
    NoJudge,    \* no stored judgement: {} or NULL
    NoRubric    \* no rubric scores in a judgement

MetricsCompared == {"recall", "reciprocal_rank", "hit", "precision"}

Rates == {"claim_support_rate", "hallucination_rate", "irrelevant_rate"}

RubricScores == {"helpfulness", "relevance"}

GenerationMetrics == Rates \cup RubricScores

\* Rates of unfounded and of irrelevant claims are better when they are lower.
HigherIsBetter(name) == name \notin {"hallucination_rate", "irrelevant_rate"}

\* What a rate counts among the claims of a judgement.
Counted(name) ==
    CASE name = "claim_support_rate" -> "supported"
      [] name = "hallucination_rate" -> "unsupported"
      [] name = "irrelevant_rate" -> "irrelevant"

\* Mutant: a case without judgement counts as one without unfounded claims.
Value_Zero(name, item) ==
    IF name \in MetricsCompared THEN item.metrics[name]
    ELSE IF item.judge = NoJudge THEN 0
    ELSE IF name \in Rates
         THEN IF item.judge.claims = 0 THEN 0
              ELSE (Scale * item.judge[Counted(name)]) \div item.judge.claims
    ELSE IF item.judge.hasRubric THEN item.judge[name] * Scale ELSE 0

\* MetricSpec.Value: the value of a metric for a case, or NoValue if the case
\* cannot be compared on it.
Value(name, item) ==
    IF name \in MetricsCompared THEN item.metrics[name]
    ELSE IF item.judge = NoJudge THEN NoValue
    ELSE IF name \in Rates
         THEN IF item.judge.claims = 0 THEN NoValue
              ELSE (Scale * item.judge[Counted(name)]) \div item.judge.claims
    ELSE IF item.judge.hasRubric THEN item.judge[name] * Scale ELSE NoValue

-----------------------------------------------------------------------------
(* From stored results to the cases of a report. *)

\* judgeSummary: the counts and scores of a stored judgement.
judgeSummary(judge) ==
    IF judge = NoJudge THEN NoJudge
    ELSE [claims |-> judge.supported + judge.unsupported + judge.irrelevant,
          supported |-> judge.supported, unsupported |-> judge.unsupported,
          irrelevant |-> judge.irrelevant,
          hasRubric |-> judge.rubric # NoRubric,
          relevance |-> IF judge.rubric = NoRubric THEN 0 ELSE judge.rubric.relevance,
          helpfulness |-> IF judge.rubric = NoRubric THEN 0 ELSE judge.rubric.helpfulness]

\* floatField: a metric that is not stored reads as 0.
floatField(metric, name) == IF metric = NoMetric THEN 0 ELSE metric[name]

toABCase(row) ==
    [metrics |-> [name \in MetricsCompared |-> floatField(row.metrics, name)],
     flags |-> row.flags, judge |-> judgeSummary(row.judge)]

toABCases(rows) == [c \in DOMAIN rows |-> toABCase(rows[c])]

\* The runs.metrics.attribution of a run whose flags the rules have written.
hasAttribution(scope) == scope # "none"

\* The results of a run, its worst cases first, cut off at the limit.
ListRunCaseResults(rows, limit) ==
    LET Before(c) == {d \in DOMAIN rows :
            \/ floatField(rows[d].metrics, "recall") < floatField(rows[c].metrics, "recall")
            \/ floatField(rows[d].metrics, "recall") = floatField(rows[c].metrics, "recall")
               /\ d < c}
    IN [c \in {d \in DOMAIN rows : Cardinality(Before(d)) < limit} |-> rows[c]]

-----------------------------------------------------------------------------
(* The comparison. *)

\* Mutant: a case whose flags are others than before is fixed, too.
FlagTransition_OtherFlags(left, right) ==
    IF left # {} /\ right # left THEN "fixed"
    ELSE IF left = {} /\ right # {} THEN "broke"
    ELSE "stable"

\* What happened to a case between the two runs, by its flags alone.
FlagTransition(left, right) ==
    IF left # {} /\ right = {} THEN "fixed"
    ELSE IF left = {} /\ right # {} THEN "broke"
    ELSE IF left # right THEN "changed"
    ELSE "stable"

\* The side whose flags nobody has written although the other side's are.
attributionMismatch(leftAttribution, rightAttribution) ==
    IF leftAttribution /\ ~rightAttribution THEN "right"
    ELSE IF ~leftAttribution /\ rightAttribution THEN "left"
    ELSE "none"

\* Only cases with a value on both sides are compared.
Pairs(left, right, shared, name) ==
    {c \in shared : Value(name, left[c]) # NoValue /\ Value(name, right[c]) # NoValue}

MetricDelta(left, right, pairs, name) ==
    LET Diff(c) == Value(name, right[c]) - Value(name, left[c])
        Improvement(c) == IF HigherIsBetter(name) THEN Diff(c) ELSE -Diff(c)
        delta == MapThenSumSet(Diff, pairs)
        belowNoise == abs(delta) <= NoiseFloor * Cardinality(pairs)
    IN [cases |-> Cardinality(pairs),
        delta |-> delta,
        improved |-> Cardinality({c \in pairs : Improvement(c) > NoiseFloor}),
        worsened |-> Cardinality({c \in pairs : Improvement(c) < -NoiseFloor}),
        unchanged |-> Cardinality({c \in pairs : abs(Diff(c)) <= NoiseFloor}),
        belowNoise |-> belowNoise,
        significant |-> /\ ~belowNoise
                        /\ LET order == SetToSeq(pairs) IN
                           BelowFivePercent([i \in DOMAIN order |-> Diff(order[i])])]

compareMetric(left, right, shared, name) ==
    MetricDelta(left, right, Pairs(left, right, shared, name), name)

\* What stratify and stratifyByFlag say of a group of cases.
Stratum(left, right, group) ==
    LET Diff(c) == right[c].metrics["recall"] - left[c].metrics["recall"] IN
    [cases |-> Cardinality(group),
     delta |-> MapThenSumSet(Diff, group),
     improved |-> Cardinality({c \in group : Diff(c) > NoiseFloor}),
     worsened |-> Cardinality({c \in group : Diff(c) < -NoiseFloor})]

\* stratify: the cases of each category, those without one in a group of their own.
stratify(left, right, shared) ==
    LET keys == {Category[c] : c \in shared}
        Group(k) == {c \in shared : Category[c] = k}
    IN [k \in keys |-> [stratum |-> Stratum(left, right, Group(k)),
                        flaggedLeft |-> Cardinality({c \in Group(k) : left[c].flags # {}}),
                        flaggedRight |-> Cardinality({c \in Group(k) : right[c].flags # {}})]]

\* stratifyByFlag: a case counts for every flag it has on either side.
stratifyByFlag(left, right, shared) ==
    LET keys == UNION {left[c].flags \cup right[c].flags : c \in shared}
        Left(k) == {c \in shared : k \in left[c].flags}
        Right(k) == {c \in shared : k \in right[c].flags}
    IN [k \in keys |-> [stratum |-> Stratum(left, right, Left(k) \cup Right(k)),
                        flaggedLeft |-> Cardinality(Left(k)),
                        flaggedRight |-> Cardinality(Right(k))]]

\* At least half of the larger side's cases are shared.
Comparable(left, right, shared) ==
    /\ shared # {}
    /\ 2 * Cardinality(shared) >= Cardinality(DOMAIN left)
    /\ 2 * Cardinality(shared) >= Cardinality(DOMAIN right)

ComputeAB(left, right, leftAttribution, rightAttribution) ==
    LET shared == DOMAIN left \cap DOMAIN right
        comparable == Comparable(left, right, shared)
        compared == IF comparable THEN shared ELSE {}
        Moved(t) == {c \in compared : FlagTransition(left[c].flags, right[c].flags) = t}
    IN [comparable |-> comparable,
        attributionMissing |-> attributionMismatch(leftAttribution, rightAttribution),
        leftCases |-> Cardinality(DOMAIN left),
        rightCases |-> Cardinality(DOMAIN right),
        sharedCases |-> Cardinality(shared),
        summary |-> [name \in MetricsCompared \cup GenerationMetrics |->
                        compareMetric(left, right, compared, name)],
        judgedCases |-> Cardinality({c \in compared :
                            left[c].judge # NoJudge /\ right[c].judge # NoJudge}),
        fixed |-> Moved("fixed"), broke |-> Moved("broke"), changed |-> Moved("changed"),
        byCategory |-> stratify(left, right, compared),
        byFlag |-> stratifyByFlag(left, right, compared)]

=============================================================================
