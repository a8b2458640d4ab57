---------------------------- MODULE Attribution ----------------------------
(***************************************************************************)
(* What the worker says of one executed case: its retrieval metrics        *)
(* (worker/app/metrics/retrieval.py) and the flags the rules derive from   *)
(* these metrics and the judgement (worker/app/eval/attribution.py).       *)
(*                                                                         *)
(* Fractions are integers in units of 1/Scale. The flags of a case are a   *)
(* set: sort_flags only orders them, and the rules repeat none. The        *)
(* thresholds the rules are asked with, [k, low_rank_ratio, quality_line], *)
(* are a parameter: k is the top_k of the run, the other two belong to the *)
(* process that asks.                                                      *)
(***************************************************************************)
EXTENDS Integers, Sequences, FiniteSets

CONSTANTS
    Scale,    \* the value that stands for 1.0
    NoMetric, \* "the case has no gold, nothing could be measured"
    NoJudge,  \* "no judgement": {} or NULL
    NoRubric  \* "no rubric scores in the judgement"

\* What the rules are asked with; a ratio is in hundredths.
Thresholds == [k : Nat \ {0}, low_rank_ratio : 1..100, quality_line : 1..5]

\* The positions of the first k results that hit gold.
HitPositions(gold, retrieved, k) ==
    {i \in 1..Len(retrieved) : i <= k /\ retrieved[i] \in gold}

\* CaseMetric of one case; a case without gold cannot be evaluated.
evaluate_case(gold, retrieved, k) ==
    LET positions == HitPositions(gold, retrieved, k)
        hits == Cardinality(positions)
        first == CHOOSE i \in positions : \A j \in positions : i <= j
    IN IF gold = {} THEN NoMetric
       ELSE [gold_count |-> Cardinality(gold), hits |-> hits,
             recall |-> (Scale * hits) \div Cardinality(gold),
             precision |-> (Scale * hits) \div k,
             reciprocal_rank |-> IF hits = 0 THEN 0 ELSE Scale \div first,
             hit |-> IF hits = 0 THEN 0 ELSE Scale,
             first_hit_rank |-> IF hits = 0 THEN 0 ELSE first]

\* A first hit behind this rank is a low one: the ratio of k, rounded up.
low_rank_limit(thresholds) == (thresholds.k * thresholds.low_rank_ratio + 99) \div 100

\* The claims of a judgement.
claims_total(judge) == judge.supported + judge.unsupported + judge.irrelevant

\* The judgement found claims and evidence for every one of them.
is_grounded(judge) ==
    /\ judge # NoJudge
    /\ claims_total(judge) > 0
    /\ judge.unsupported = 0 /\ judge.irrelevant = 0

\* The flags that need the retrieval metrics only.
RetrievalFlags(metric, judge, thresholds) ==
    IF metric = NoMetric THEN {"no_gold"}
    ELSE IF metric.hits = 0
         THEN {"retrieval_miss"} \cup (IF is_grounded(judge) THEN {"anchor_incomplete"} ELSE {})
         ELSE (IF metric.hits < metric.gold_count THEN {"retrieval_partial"} ELSE {})
              \cup (IF metric.first_hit_rank > low_rank_limit(thresholds)
                    THEN {"retrieval_low_rank"} ELSE {})

\* Evidence was found and used, and still the answer scores badly.
PoorQuality(metric, judge, thresholds) ==
    /\ metric # NoMetric /\ metric.hits > 0
    /\ judge.unsupported = 0 /\ judge.irrelevant = 0
    /\ judge.rubric # NoRubric
    /\ \/ judge.rubric.relevance <= thresholds.quality_line
       \/ judge.rubric.helpfulness <= thresholds.quality_line

\* The flags that need a judgement; without one there are none of them.
JudgeFlags(metric, judge, thresholds) ==
    IF judge = NoJudge THEN {}
    ELSE (IF claims_total(judge) = 0 THEN {"no_claims"} ELSE {})
         \cup (IF judge.unsupported > 0 THEN {"hallucination"} ELSE {})
         \cup (IF judge.irrelevant > 0 THEN {"off_topic"} ELSE {})
         \cup (IF PoorQuality(metric, judge, thresholds) THEN {"generation_quality"} ELSE {})

\* Mutant: a case without flags is given the flag ok.
attribute_case_Ok(metric, judge, thresholds) ==
    LET flags == RetrievalFlags(metric, judge, thresholds)
                 \cup JudgeFlags(metric, judge, thresholds)
    IN IF flags = {} THEN {"ok"} ELSE flags

\* Every rule is asked; a case without flags is one they find nothing wrong with.
attribute_case(metric, judge, thresholds) ==
    RetrievalFlags(metric, judge, thresholds) \cup JudgeFlags(metric, judge, thresholds)

\* How much of the pipeline the flags of a run cover.
scope_for(judge_enabled) == IF judge_enabled THEN "retrieval+judge" ELSE "retrieval"

=============================================================================
