------------------------------ MODULE Wilcoxon ------------------------------
(***************************************************************************)
(* The exact signed-rank test of server/internal/eval/ab.go for at most    *)
(* 25 pairs. A sample is a sequence of differences, integers in the units  *)
(* of the metric; ranks and rank sums are doubled, as in the code, so that *)
(* the average ranks of ties are whole.                                    *)
(***************************************************************************)
EXTENDS Integers, Sequences, FiniteSets, Functions

abs(x) == IF x < 0 THEN -x ELSE x

\* Pair by pair: those without a difference are left out.
NonZero(diffs) ==
    LET kept[n \in 0..Len(diffs)] ==
            IF n = 0 THEN <<>>
            ELSE IF diffs[n] = 0 THEN kept[n - 1] ELSE Append(kept[n - 1], diffs[n])
    IN kept[Len(diffs)]

\* The rank of the i-th of the differences d by absolute value: of a group of
\* ties between the positions s+1 and s+e, the average s + (e+1)/2.
Rank(d, i) ==
    2 * Cardinality({j \in 1..Len(d) : abs(d[j]) < abs(d[i])})
    + Cardinality({j \in 1..Len(d) : abs(d[j]) = abs(d[i])}) + 1

Ranks(d) == [i \in 1..Len(d) |-> Rank(d, i)]

\* W+: the sum of the ranks of the positive differences.
WPlus(d) == SumFunctionOnSet(Ranks(d), {i \in 1..Len(d) : d[i] > 0})

\* The largest sum of ranks.
Highest(d) == Len(d) * (Len(d) + 1)

Center(d) == Highest(d) \div 2

\* Mutant: a sum the rank has just made counts again for the same rank.
Counts_Repeat(d) ==
    LET sums == 0..Highest(d)
        counts[k \in 0..Len(d)] ==
            IF k = 0 THEN [s \in sums |-> IF s = 0 THEN 1 ELSE 0]
            ELSE LET before == counts[k - 1]
                     next[s \in sums] ==
                         before[s] + IF s >= Rank(d, k) THEN next[s - Rank(d, k)] ELSE 0
                 IN next
    IN counts[Len(d)]

\* In how many ways each sum comes about when every rank is taken or not: for
\* each rank a table is made from the one before.
Counts(d) ==
    LET sums == 0..Highest(d)
        counts[k \in 0..Len(d)] ==
            IF k = 0 THEN [s \in sums |-> IF s = 0 THEN 1 ELSE 0]
            ELSE LET before == counts[k - 1]
                 IN [s \in sums |->
                        before[s] + IF s >= Rank(d, k) THEN before[s - Rank(d, k)] ELSE 0]
    IN counts[Len(d)]

\* Of the 2^n sign assignments, those at least as far from the center.
Extreme(d) ==
    LET far == {s \in 0..Highest(d) : abs(s - Center(d)) >= abs(WPlus(d) - Center(d))}
    IN SumFunctionOnSet(Counts(d), far)

\* The p-value as a fraction; a sample without differences is not tested, and
\* its p is 1.
WilcoxonSignedRank(diffs) ==
    LET d == NonZero(diffs) IN
    [ok |-> Len(d) > 0, extreme |-> Extreme(d), total |-> 2 ^ Len(d)]

\* p < 0.05.
BelowFivePercent(diffs) ==
    LET w == WilcoxonSignedRank(diffs) IN w.ok /\ 20 * w.extreme < w.total

=============================================================================
