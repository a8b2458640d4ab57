---------------------------- MODULE Calibration ----------------------------
(***************************************************************************)
(* How far the judge of a run agrees with people:                          *)
(* server/internal/eval/calibration.go.                                    *)
(*                                                                         *)
(* The items are a function from pairs of a case and an annotator to what  *)
(* the annotator and the judge say of the case; annotators are numbered in *)
(* the order of their names. Relevance and helpfulness are treated alike:  *)
(* an item has one score of each side. Means and rates are kept as sums.   *)
(***************************************************************************)
EXTENDS Integers, FiniteSets, FiniteSetsExt, Functions

CONSTANTS
    NoScore,         \* "no score was given"
    MaxDisagreements \* how many disagreements a report lists (50 in the code)

Verdicts == {"faithful", "hallucinated", "unclear"}

Magnitude(x) == IF x < 0 THEN -x ELSE x

\* Mutant: a judgement without claims says that there is no hallucination.
Paired_Silent(items) == {k \in DOMAIN items : items[k].verdict # "unclear"}

\* The items both sides have an opinion on.
Paired(items) ==
    {k \in DOMAIN items : items[k].verdict # "unclear" /\ items[k].judgeHasOpinion}

\* Mutant: the expected agreement leaves out the negative answers.
cohenKappa_PositiveOnly(bothYes, onlyA, onlyB, bothNo) ==
    LET n == bothYes + onlyA + onlyB + bothNo
        chance == (bothYes + onlyA) * (bothYes + onlyB)
    IN IF n = 0 \/ chance >= n * n THEN [num |-> 0, den |-> 1]
       ELSE [num |-> n * (bothYes + bothNo) - chance, den |-> n * n - chance]

\* Cohen's kappa as a fraction: observed less expected agreement over one less
\* expected agreement, and 0 if nothing else could be expected.
cohenKappa(bothYes, onlyA, onlyB, bothNo) ==
    LET n == bothYes + onlyA + onlyB + bothNo
        chance == (bothYes + onlyA) * (bothYes + onlyB) + (bothNo + onlyB) * (bothNo + onlyA)
    IN IF n = 0 \/ chance >= n * n THEN [num |-> 0, den |-> 1]
       ELSE [num |-> n * (bothYes + bothNo) - chance, den |-> n * n - chance]

HumanYes(item) == item.verdict = "hallucinated"

JudgeYes(item) == item.judgeUnsupported > 0

\* The items on which both sides say what is given.
Cell(items, human, judge) ==
    {k \in Paired(items) : HumanYes(items[k]) = human /\ JudgeYes(items[k]) = judge}

\* computeBinary: who sees a hallucination.
computeBinary(items) ==
    LET Count(human, judge) == Cardinality(Cell(items, human, judge))
        tp == Count(TRUE, TRUE)  fn == Count(TRUE, FALSE)
        fp == Count(FALSE, TRUE) tn == Count(FALSE, FALSE)
    IN [pairs |-> Cardinality(Paired(items)),
        truePositive |-> tp, falseNegative |-> fn, falsePositive |-> fp, trueNegative |-> tn,
        agreement |-> tp + tn,
        kappa |-> cohenKappa(tp, fn, fp, tn),
        excludedUnclear |-> Cardinality({k \in DOMAIN items : items[k].verdict = "unclear"})]

\* collectDisagreements: missed hallucinations first, then false alarms, each by
\* case, as far as the list goes.
collectDisagreements(items) ==
    LET found == {k \in DOMAIN items :
            /\ items[k].verdict # "unclear" /\ items[k].judgeHasOpinion
            /\ HumanYes(items[k]) # JudgeYes(items[k])}
        Precedes(j, k) ==
            \/ HumanYes(items[j]) /\ ~HumanYes(items[k])
            \/ HumanYes(items[j]) = HumanYes(items[k]) /\ j[1] < k[1]
    IN {k \in found : Cardinality({j \in found : Precedes(j, k)}) < MaxDisagreements}

Scored(items) ==
    {k \in DOMAIN items : items[k].humanScore \in 1..5 /\ items[k].judgeScore \in 1..5}

\* Mutant: the matrix has the judge's scores in its rows.
computeScores_Transposed(items) ==
    LET Diff(k) == items[k].judgeScore - items[k].humanScore
        scored == Scored(items)
    IN [pairs |-> Cardinality(scored),
        exact |-> Cardinality({k \in scored : Diff(k) = 0}),
        within1 |-> Cardinality({k \in scored : Magnitude(Diff(k)) <= 1}),
        error |-> SumFunction([k \in scored |-> Magnitude(Diff(k))]),
        bias |-> SumFunction([k \in scored |-> Diff(k)]),
        confusion |-> [p \in (1..5) \X (1..5) |-> Cardinality({k \in scored :
                          <<items[k].judgeScore, items[k].humanScore>> = p})]]

\* computeScores: only cases both sides scored.
computeScores(items) ==
    LET Diff(k) == items[k].judgeScore - items[k].humanScore
        scored == Scored(items)
    IN [pairs |-> Cardinality(scored),
        exact |-> Cardinality({k \in scored : Diff(k) = 0}),
        within1 |-> Cardinality({k \in scored : Magnitude(Diff(k)) <= 1}),
        error |-> SumFunction([k \in scored |-> Magnitude(Diff(k))]),
        bias |-> SumFunction([k \in scored |-> Diff(k)]),
        confusion |-> [p \in (1..5) \X (1..5) |-> Cardinality({k \in scored :
                          <<items[k].humanScore, items[k].judgeScore>> = p})]]

\* computeInterAnnotator: the agreement of two people, from two common cases on.
computeInterAnnotator(items, a, b) ==
    LET common == {k[1] : k \in {j \in DOMAIN items :
                      j[2] = a /\ <<j[1], b>> \in DOMAIN items}}
        clear == {c \in common : /\ items[<<c, a>>].verdict # "unclear"
                                 /\ items[<<c, b>>].verdict # "unclear"}
        scored == {c \in common : /\ items[<<c, a>>].humanScore # NoScore
                                  /\ items[<<c, b>>].humanScore # NoScore}
        Count(x, y) == Cardinality({c \in clear : /\ HumanYes(items[<<c, a>>]) = x
                                                  /\ HumanYes(items[<<c, b>>]) = y})
    IN [binaryPairs |-> IF Cardinality(clear) >= 2 THEN Cardinality(clear) ELSE 0,
        kappa |-> cohenKappa(Count(TRUE, TRUE), Count(TRUE, FALSE),
                             Count(FALSE, TRUE), Count(FALSE, FALSE)),
        scorePairs |-> Cardinality(scored),
        error |-> SumFunction([c \in scored |->
                     Magnitude(items[<<c, a>>].humanScore - items[<<c, b>>].humanScore)])]

ItemsOf(items, a) == [k \in {j \in DOMAIN items : j[2] = a} |-> items[k]]

Annotators(items) == {k[2] : k \in DOMAIN items}

\* The annotator with the most items; of several, the first by name.
PrimaryAnnotator(items) ==
    LET Count(a) == Cardinality({k \in DOMAIN items : k[2] = a}) IN
    CHOOSE a \in Annotators(items) : \A b \in Annotators(items) :
        Count(b) < Count(a) \/ (Count(b) = Count(a) /\ a <= b)

\* ComputeCalibration, for at least one item.
ComputeCalibration(items, totalCases) ==
    LET primary == PrimaryAnnotator(items)
        own == ItemsOf(items, primary)
        first == CHOOSE a \in Annotators(items) : \A b \in Annotators(items) : a <= b
        second == CHOOSE a \in Annotators(items) \ {first} :
                     \A b \in Annotators(items) \ {first} : a <= b
    IN [primaryAnnotator |-> primary,
        totalCases |-> totalCases,
        casesWithGold |-> Cardinality({k[1] : k \in DOMAIN own}),
        goldJudged |-> Cardinality({k \in DOMAIN own : own[k].judgeHasOpinion}),
        goldUnjudged |-> Cardinality({k \in DOMAIN own : ~own[k].judgeHasOpinion}),
        binary |-> computeBinary(own),
        disagreements |-> collectDisagreements(own),
        scores |-> computeScores(own),
        interAnnotator |-> IF Cardinality(Annotators(items)) < 2 THEN NoScore
                           ELSE computeInterAnnotator(items, first, second)]

=============================================================================
