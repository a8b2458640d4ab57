---------------------------- MODULE WilcoxonProofs ----------------------------
(***************************************************************************)
(* The table of rank sums counts what it stands for: for every sample, of  *)
(* any length and with any ties, the p-value of Wilcoxon is the share of   *)
(* the sign assignments whose rank sum is as far from the center as the    *)
(* observed one.                                                           *)
(*                                                                         *)
(* The ranks are numbers and add up to Highest, so that every rank sum has *)
(* its entry in the table; an assignment over the first k ranks either     *)
(* leaves the k-th out or is one over the first k - 1 with the k-th added, *)
(* which is the equation of the table; the equation has one solution.      *)
(***************************************************************************)
EXTENDS WilcoxonSamples, CountingProofs, TLAPS

RankSum(d, positive) == SumFunctionOnSet(Ranks(d), positive)

\* The sign assignments over the first k differences with rank sum s.
SignChoices(d, k, s) == {positive \in SUBSET (1..k) : RankSum(d, positive) = s}

Ways(d, k, s) == Cardinality(SignChoices(d, k, s))

-----------------------------------------------------------------------------
(* The ranks. *)

LEMMA SizesOfThree ==
    ASSUME NEW A, IsFiniteSet(A), NEW B, IsFiniteSet(B), NEW C, IsFiniteSet(C),
           A \cap B = {}, (A \cup B) \cap C = {}
    PROVE  /\ Cardinality((A \cup B) \cup C) = Cardinality(A) + Cardinality(B) + Cardinality(C)
           /\ Cardinality(A) \in Nat /\ Cardinality(B) \in Nat /\ Cardinality(C) \in Nat
<1>1. Cardinality(A) \in Nat /\ Cardinality(B) \in Nat /\ Cardinality(C) \in Nat
    BY FS_CardinalityType
<1>2. Cardinality({}) = 0
    BY FS_EmptySet
<1>3. IsFiniteSet(A \cup B)
      /\ Cardinality(A \cup B) = Cardinality(A) + Cardinality(B) - Cardinality(A \cap B)
    BY FS_Union
<1>4. Cardinality((A \cup B) \cup C)
         = Cardinality(A \cup B) + Cardinality(C) - Cardinality((A \cup B) \cap C)
    BY <1>3, FS_Union
<1>5. Cardinality(A \cap B) = 0 /\ Cardinality((A \cup B) \cap C) = 0
    BY <1>2, Zenon
<1> QED
    BY <1>1, <1>3, <1>4, <1>5

\* A rank is a number, and all of them add up to n (n + 1), whatever the ties.
LEMMA RanksAddUp ==
    ASSUME NEW d \in Seq(Int)
    PROVE  /\ Ranks(d) \in [1..Len(d) -> Nat]
           /\ RankSum(d, 1..Len(d)) = Highest(d)
           /\ Highest(d) \in Nat
<1> DEFINE n == Len(d)
           N == 1..n
           smaller == {p \in N \X N : abs(d[p[1]]) < abs(d[p[2]])}
           L(i) == {j \in N : abs(d[j]) < abs(d[i])}
           E(i) == {j \in N : abs(d[j]) = abs(d[i])}
           G(i) == {j \in N : abs(d[i]) < abs(d[j])}
           b == Before(smaller, N)
           a == After(smaller, N)
           f == Ranks(d)
           g == [i \in N |-> n + 1]
           h == [i \in N |-> b[i] - a[i]]
<1>1. n \in Nat /\ IsFiniteSet(N) /\ Cardinality(N) = n
    BY NumbersUpTo
<1>2. smaller \in SUBSET (N \X N)
    OBVIOUS
<1>3. /\ SumFunctionOnSet(b, N) = Cardinality(smaller) /\ b \in [N -> Nat]
      /\ SumFunctionOnSet(a, N) = Cardinality(smaller) /\ a \in [N -> Nat]
    <2> HIDE DEF smaller, N
    <2> QED
        BY <1>1, <1>2, PairsByFirst, PairsBySecond
<1>4. \A i \in N : b[i] = Cardinality(L(i)) /\ a[i] = Cardinality(G(i))
    <2> SUFFICES ASSUME NEW i \in N
                 PROVE  b[i] = Cardinality(L(i)) /\ a[i] = Cardinality(G(i))
        OBVIOUS
    <2>1. {j \in N : <<j, i>> \in smaller} = L(i) /\ {j \in N : <<i, j>> \in smaller} = G(i)
        OBVIOUS
    <2> HIDE DEF smaller, N, L, G
    <2> QED
        BY <2>1 DEF Before, After
<1>5. \A i \in N : /\ Cardinality(L(i)) + Cardinality(E(i)) + Cardinality(G(i)) = n
                   /\ Cardinality(L(i)) \in Nat /\ Cardinality(E(i)) \in Nat
                   /\ Cardinality(G(i)) \in Nat
    <2> SUFFICES ASSUME NEW i \in N
                 PROVE  /\ Cardinality(L(i)) + Cardinality(E(i)) + Cardinality(G(i)) = n
                        /\ Cardinality(L(i)) \in Nat /\ Cardinality(E(i)) \in Nat
                        /\ Cardinality(G(i)) \in Nat
        OBVIOUS
    <2>1. \A j \in N : abs(d[j]) \in Int
        BY DEF abs
    <2> DEFINE Li == L(i)
               Ei == E(i)
               Gi == G(i)
    <2>2. Li \in SUBSET N /\ Ei \in SUBSET N /\ Gi \in SUBSET N
        OBVIOUS
    <2>3. (Li \cup Ei) \cup Gi = N /\ Li \cap Ei = {} /\ (Li \cup Ei) \cap Gi = {}
        BY <2>1
    <2>4. /\ Cardinality(Li) + Cardinality(Ei) + Cardinality(Gi) = n
          /\ Cardinality(Li) \in Nat /\ Cardinality(Ei) \in Nat /\ Cardinality(Gi) \in Nat
        <3> HIDE DEF N, Li, Ei, Gi, n, smaller, L, E, G, f, g, h, a, b
        <3>1. IsFiniteSet(Li) /\ IsFiniteSet(Ei) /\ IsFiniteSet(Gi)
            BY <1>1, <2>2, FS_Subset
        <3>2. /\ Cardinality((Li \cup Ei) \cup Gi)
                    = Cardinality(Li) + Cardinality(Ei) + Cardinality(Gi)
              /\ Cardinality(Li) \in Nat /\ Cardinality(Ei) \in Nat /\ Cardinality(Gi) \in Nat
            BY <2>3, <3>1, SizesOfThree
        <3>3. Cardinality((Li \cup Ei) \cup Gi) = n
            BY <1>1, <2>3, Zenon
        <3> QED
            BY <3>2, <3>3
    <2> QED
        BY <2>4
<1>6. \A i \in N : f[i] = 2 * Cardinality(L(i)) + Cardinality(E(i)) + 1
    BY DEF Ranks, Rank
<1>7. \A i \in N : f[i] \in Nat /\ f[i] \in Int /\ g[i] \in Int /\ g[i] = n + 1
                   /\ h[i] = f[i] - g[i] /\ h[i] = b[i] - a[i]
    <2> SUFFICES ASSUME NEW i \in N
                 PROVE  f[i] \in Nat /\ g[i] = n + 1 /\ h[i] = b[i] - a[i]
                        /\ b[i] - a[i] = f[i] - (n + 1)
        BY <1>1
    <2>1. ASSUME NEW l \in Nat, NEW e \in Nat, NEW r \in Nat, l + e + r = n
          PROVE  2 * l + e + 1 \in Nat /\ l - r = (2 * l + e + 1) - (n + 1)
        <3> HIDE DEF N, n
        <3> QED
            BY <1>1, <2>1
    <2>2. g[i] = n + 1 /\ h[i] = b[i] - a[i]
        OBVIOUS
    <2>3. f[i] \in Nat /\ b[i] - a[i] = f[i] - (n + 1)
        <3> HIDE DEF L, E, G, f, b, a, N, n
        <3> QED
            BY <1>4, <1>5, <1>6, <2>1
    <2> QED
        BY <2>2, <2>3
<1>8. SumFunctionOnSet(h, N) = SumFunctionOnSet(f, N) - SumFunctionOnSet(g, N)
    <2> HIDE DEF f, g, h, N
    <2> QED
        BY <1>1, <1>7, SumDifference
<1>9. SumFunctionOnSet(h, N) = SumFunctionOnSet(b, N) - SumFunctionOnSet(a, N)
    <2>1. \A i \in N : b[i] \in Int /\ a[i] \in Int /\ h[i] = b[i] - a[i]
        <3> HIDE DEF b, a
        <3> QED
            BY <1>3
    <2> HIDE DEF b, a, h, N
    <2> QED
        BY <1>1, <2>1, SumDifference
<1>10. SumFunctionOnSet(g, N) = (n + 1) * n
    <2>1. \A i \in N : g[i] = n + 1
        OBVIOUS
    <2>2. n + 1 \in Int
        BY <1>1
    <2> HIDE DEF g, N
    <2>3. SumFunctionOnSet(g, N) = (n + 1) * Cardinality(N)
        BY <1>1, <2>1, <2>2, SumConstant
    <2> QED
        BY <1>1, <2>3
<1>11. SumFunctionOnSet(f, N) \in Int /\ Cardinality(smaller) \in Int
    <2>1. IsFiniteSet(N \X N)
        BY <1>1, FS_Product
    <2>2. IsFiniteSet(smaller)
        BY <1>2, <2>1, FS_Subset
    <2>3. Cardinality(smaller) \in Nat
        BY <2>2, FS_CardinalityType
    <2> HIDE DEF f, N, smaller
    <2> QED
        BY <1>1, <1>7, <2>3, SumInt
<1>12. (n + 1) * n \in Nat /\ (n + 1) * n = n * (n + 1)
    BY <1>1
<1>13. SumFunctionOnSet(f, N) = n * (n + 1)
    <2> HIDE DEF f, g, h, a, b, N, n, smaller
    <2> QED
        BY <1>3, <1>8, <1>9, <1>10, <1>11, <1>12
<1>14. f \in [N -> Nat]
    <2>1. f = [i \in N |-> Rank(d, i)] /\ \A i \in N : f[i] = Rank(d, i)
        BY DEF Ranks
    <2> HIDE DEF f
    <2> QED
        BY <1>7, <2>1
<1> QED
    BY <1>12, <1>13, <1>14 DEF RankSum, Highest

\* Every rank sum is one of the sums the table has an entry for.
LEMMA RankSums ==
    ASSUME NEW d \in Seq(Int), NEW positive \in SUBSET (1..Len(d))
    PROVE  RankSum(d, positive) \in 0..Highest(d)
<1> DEFINE N == 1..Len(d)
<1>1. IsFiniteSet(N)
    BY NumbersUpTo
<1>2. \A i \in N : Ranks(d)[i] \in Nat
    BY RanksAddUp
<1>3. RankSum(d, positive) \in 0..RankSum(d, N)
    <2> HIDE DEF N
    <2> QED
        BY <1>1, <1>2, SumOfPart DEF RankSum, N
<1> QED
    BY <1>3, RanksAddUp

-----------------------------------------------------------------------------
(* The table. *)

LEMMA FiniteChoices ==
    ASSUME NEW d, NEW k \in Nat, NEW s
    PROVE  IsFiniteSet(SignChoices(d, k, s)) /\ Ways(d, k, s) \in Nat
<1>1. IsFiniteSet(1..k)
    BY NumbersUpTo
<1>2. IsFiniteSet(SUBSET (1..k))
    BY <1>1, FS_SUBSET
<1>3. SignChoices(d, k, s) \in SUBSET SUBSET (1..k)
    BY DEF SignChoices
<1>4. IsFiniteSet(SignChoices(d, k, s))
    BY <1>2, <1>3, FS_Subset
<1> QED
    BY <1>4, FS_CardinalityType DEF Ways

\* Of no ranks, only the sum 0 can be made, in one way.
LEMMA NoRank ==
    ASSUME NEW d, NEW s
    PROVE  Ways(d, 0, s) = IF s = 0 THEN 1 ELSE 0
<1>1. SUBSET (1..0) = {{}} /\ RankSum(d, {}) = 0
    BY SumEmpty DEF RankSum
<1>2. SignChoices(d, 0, s) = IF s = 0 THEN {{}} ELSE {}
    BY <1>1 DEF SignChoices
<1>3. Cardinality({{}}) = 1 /\ Cardinality({}) = 0
    BY FS_Singleton, FS_EmptySet
<1> QED
    BY <1>2, <1>3 DEF Ways

\* The k-th rank is left out, or added to a choice among the others.
LEMMA OneRankMore ==
    ASSUME NEW d \in Seq(Int), NEW k \in 1..Len(d), NEW s \in Nat
    PROVE  Ways(d, k, s) = Ways(d, k - 1, s)
                           + IF s >= Rank(d, k) THEN Ways(d, k - 1, s - Rank(d, k)) ELSE 0
<1> DEFINE r == Rank(d, k)
           without == SignChoices(d, k - 1, s)
           before == SignChoices(d, k - 1, s - r)
           with == {positive \in SignChoices(d, k, s) : k \in positive}
           add == [positive \in before |-> positive \cup {k}]
<1>1. r \in Nat /\ Ranks(d)[k] = r
    BY RanksAddUp DEF Ranks
<1>2. \A P \in SUBSET (1..k) : IsFiniteSet(P) /\ RankSum(d, P) \in Nat
    <2> SUFFICES ASSUME NEW P \in SUBSET (1..k)
                 PROVE  IsFiniteSet(P) /\ RankSum(d, P) \in Nat
        OBVIOUS
    <2>1. P \in SUBSET (1..Len(d))
        OBVIOUS
    <2>2. IsFiniteSet(1..Len(d))
        BY NumbersUpTo
    <2>3. IsFiniteSet(P)
        BY <2>1, <2>2, FS_Subset
    <2>4. RankSum(d, P) \in 0..Highest(d) /\ Highest(d) \in Nat
        BY <2>1, RankSums, RanksAddUp
    <2> QED
        BY <2>3, <2>4
<1>3. \A P \in SUBSET (1..k) : k \in P => RankSum(d, P) = r + RankSum(d, P \ {k})
    <2> SUFFICES ASSUME NEW P \in SUBSET (1..k), k \in P
                 PROVE  RankSum(d, P) = r + RankSum(d, P \ {k})
        OBVIOUS
    <2>1. IsFiniteSet(P) /\ \A x \in P : Ranks(d)[x] \in Int
        BY <1>2, RanksAddUp
    <2> QED
        BY <1>1, <2>1, SumPoint DEF RankSum
<1>4. add \in [before -> with]
    <2> SUFFICES ASSUME NEW P \in before PROVE P \cup {k} \in with
        OBVIOUS
    <2>1. P \in SUBSET (1..(k - 1)) /\ RankSum(d, P) = s - r
        BY DEF SignChoices
    <2>2. P \cup {k} \in SUBSET (1..k) /\ (P \cup {k}) \ {k} = P
        BY <2>1
    <2>3. RankSum(d, P \cup {k}) = r + RankSum(d, P)
        BY <1>3, <2>2
    <2>4. RankSum(d, P \cup {k}) = s
        BY <1>1, <2>1, <2>3
    <2> QED
        BY <2>2, <2>4 DEF SignChoices
<1>5. \A P, Q \in before : add[P] = add[Q] => P = Q
    <2>1. \A P \in before : k \notin P
        BY DEF SignChoices
    <2>2. \A P \in before : add[P] = P \cup {k} /\ P = add[P] \ {k}
        BY <2>1
    <2> HIDE DEF before, add
    <2> QED
        BY <2>2
<1>6. \A Q \in with : \E P \in before : add[P] = Q
    <2> SUFFICES ASSUME NEW Q \in with PROVE Q \ {k} \in before /\ (Q \ {k}) \cup {k} = Q
        OBVIOUS
    <2>1. Q \in SUBSET (1..k) /\ k \in Q /\ RankSum(d, Q) = s
        BY DEF SignChoices
    <2>2. Q \ {k} \in SUBSET (1..(k - 1)) /\ Q \ {k} \in SUBSET (1..k)
        BY <2>1
    <2>3. RankSum(d, Q \ {k}) = s - r
        BY <1>1, <1>2, <1>3, <2>1, <2>2
    <2> QED
        BY <2>1, <2>2, <2>3 DEF SignChoices
<1>7. IsFiniteSet(before) /\ IsFiniteSet(without) /\ IsFiniteSet(SignChoices(d, k, s))
    BY FiniteChoices
<1>8. IsFiniteSet(with) /\ Cardinality(with) = Cardinality(before)
    <2> HIDE DEF with, before, add
    <2> QED
        BY <1>4, <1>5, <1>6, <1>7, SameSize
<1>9. SignChoices(d, k, s) = without \cup with /\ without \cap with = {}
    <2>1. SignChoices(d, k, s) \subseteq without \cup with
        BY DEF SignChoices
    <2>2. without \cup with \subseteq SignChoices(d, k, s)
        BY DEF SignChoices
    <2>3. without \cap with = {}
        BY DEF SignChoices
    <2> QED
        BY <2>1, <2>2, <2>3
<1>10. /\ Cardinality(SignChoices(d, k, s)) = Cardinality(without) + Cardinality(before)
       /\ Cardinality(without) \in Nat
    <2>1. Cardinality(without \cup with)
             = Cardinality(without) + Cardinality(with) - Cardinality(without \cap with)
        <3> HIDE DEF with, without, before
        <3> QED
            BY <1>7, <1>8, FS_Union
    <2>2. Cardinality(without \cap with) = 0
        <3> HIDE DEF with, without
        <3> QED
            BY <1>9, FS_EmptySet, Zenon
    <2>3. Cardinality(without) \in Nat /\ Cardinality(with) \in Nat
        BY <1>7, <1>8, FS_CardinalityType
    <2>4. Cardinality(SignChoices(d, k, s)) = Cardinality(without \cup with)
        <3> HIDE DEF with, without
        <3> QED
            BY <1>9, Zenon
    <2> HIDE DEF with, without, before
    <2> QED
        BY <1>8, <2>1, <2>2, <2>3, <2>4
<1>11. CASE s >= r
    <2> HIDE DEF r
    <2> QED
        BY <1>10, <1>11 DEF Ways, r
<1>12. CASE ~(s >= r)
    <2>1. before = {}
        <3> SUFFICES ASSUME NEW P \in before PROVE FALSE
            OBVIOUS
        <3>1. P \in SUBSET (1..k) /\ RankSum(d, P) = s - r
            BY DEF SignChoices
        <3>2. RankSum(d, P) \in Nat
            BY <1>2, <3>1
        <3> HIDE DEF r
        <3> QED
            BY <1>1, <1>12, <3>1, <3>2
    <2>2. Cardinality(before) = 0
        <3> HIDE DEF before
        <3> QED
            BY <2>1, FS_EmptySet
    <2> HIDE DEF before, r
    <2> QED
        BY <1>10, <1>12, <2>2 DEF Ways, r
<1> QED
    BY <1>11, <1>12

FirstRow(h) == [s \in 0..h |-> IF s = 0 THEN 1 ELSE 0]

NextRow(row, d, h, k) ==
    [s \in 0..h |-> row[s] + IF s >= Rank(d, k) THEN row[s - Rank(d, k)] ELSE 0]

\* The equation of the tables, for the sums up to h.
CountsOf(c, d, h) ==
    c = [k \in 0..Len(d) |-> IF k = 0 THEN FirstRow(h) ELSE NextRow(c[k - 1], d, h, k)]

LEMMA CountsEntry ==
    ASSUME NEW d, NEW c, NEW h, CountsOf(c, d, h), NEW k \in 0..Len(d)
    PROVE  c[k] = IF k = 0 THEN FirstRow(h) ELSE NextRow(c[k - 1], d, h, k)
BY DEF CountsOf

\* The ways to make each sum of the first k ranks.
Row(d, h, k) == [s \in 0..h |-> Ways(d, k, s)]

LEMMA RowStep ==
    ASSUME NEW d \in Seq(Int), NEW h \in Nat, NEW k \in 0..Len(d)
    PROVE  Row(d, h, k) = IF k = 0 THEN FirstRow(h) ELSE NextRow(Row(d, h, k - 1), d, h, k)
<1>1. CASE k = 0
    BY <1>1, NoRank DEF Row, FirstRow
<1>2. CASE k # 0
    <2>1. k \in 1..Len(d)
        BY <1>2
    <2>2. Rank(d, k) \in Nat
        BY <2>1, RanksAddUp DEF Ranks
    <2>3. ASSUME NEW s \in 0..h
          PROVE  Ways(d, k, s) =
                    Row(d, h, k - 1)[s]
                    + IF s >= Rank(d, k) THEN Row(d, h, k - 1)[s - Rank(d, k)] ELSE 0
        <3>1. s >= Rank(d, k) => s - Rank(d, k) \in 0..h
            BY <2>2
        <3>2. \A x \in 0..h : Row(d, h, k - 1)[x] = Ways(d, k - 1, x)
            BY DEF Row
        <3> QED
            BY <2>1, <3>1, <3>2, OneRankMore
    <2>4. Row(d, h, k) = [s \in 0..h |-> Ways(d, k, s)]
        BY DEF Row
    <2> QED
        BY <1>2, <2>3, <2>4 DEF NextRow
<1> QED
    BY <1>1, <1>2

\* The rows solve the equation, and nothing else does.
LEMMA CountsSolved ==
    ASSUME NEW d \in Seq(Int), NEW h \in Nat
    PROVE  CountsOf([k \in 0..Len(d) |-> Row(d, h, k)], d, h)
<1> DEFINE rows == [k \in 0..Len(d) |-> Row(d, h, k)]
           step(k) == IF k = 0 THEN FirstRow(h) ELSE NextRow(rows[k - 1], d, h, k)
<1>1. \A k \in 0..Len(d) : rows[k] = Row(d, h, k)
    OBVIOUS
<1>2. ASSUME NEW k \in 0..Len(d) PROVE Row(d, h, k) = step(k)
    <2>1. k # 0 => rows[k - 1] = Row(d, h, k - 1)
        BY <1>1
    <2> HIDE DEF rows
    <2> QED
        BY <2>1, RowStep
<1>3. rows = [k \in 0..Len(d) |-> step(k)]
    <2> HIDE DEF step
    <2> QED
        BY <1>2
<1> HIDE DEF rows
<1> QED
    BY <1>3 DEF CountsOf, rows

LEMMA CountsOnly ==
    ASSUME NEW d \in Seq(Int), NEW h \in Nat, NEW c, CountsOf(c, d, h)
    PROVE  c[Len(d)] = Row(d, h, Len(d))
<1> DEFINE Good == {k \in 0..Len(d) : c[k] = Row(d, h, k)}
<1>1. 0 \in Good
    <2>1. 0 \in 0..Len(d)
        OBVIOUS
    <2> QED
        BY <2>1, CountsEntry, RowStep
<1>2. ASSUME NEW k \in 1..Len(d), k - 1 \in Good PROVE k \in Good
    <2>1. k \in 0..Len(d) /\ k # 0
        OBVIOUS
    <2>2. c[k - 1] = Row(d, h, k - 1)
        BY <1>2
    <2>3. c[k] = NextRow(c[k - 1], d, h, k)
        BY <2>1, CountsEntry
    <2> QED
        BY <2>1, <2>2, <2>3, RowStep
<1>3. Len(d) \in Good
    <2>1. Len(d) \in Nat
        OBVIOUS
    <2> HIDE DEF Good
    <2> QED
        BY <1>1, <1>2, <2>1, NumberInduction
<1> QED
    BY <1>3

LEMMA CountsRight ==
    ASSUME NEW d \in Seq(Int)
    PROVE  Counts(d) = Row(d, Highest(d), Len(d))
<1> DEFINE h == Highest(d)
           c == CHOOSE x : CountsOf(x, d, h)
<1>1. h \in Nat
    BY RanksAddUp
<1>2. CountsOf(c, d, h)
    <2> HIDE DEF h
    <2> QED
        BY <1>1, CountsSolved
<1>3. Counts(d) = c[Len(d)]
    BY DEF Counts, CountsOf, FirstRow, NextRow
<1> HIDE DEF c, h
<1>4. c[Len(d)] = Row(d, h, Len(d))
    BY <1>1, <1>2, CountsOnly
<1> QED
    BY <1>3, <1>4 DEF h

-----------------------------------------------------------------------------
(* The p-value. *)

\* As far from the center as the observed rank sum, or further.
Far(d, s) == abs(s - Center(d)) >= abs(WPlus(d) - Center(d))

\* Adding up the entries of the far sums counts the far sign assignments.
LEMMA ExtremeRight ==
    ASSUME NEW d \in Seq(Int)
    PROVE  Extreme(d) = Cardinality({positive \in SUBSET (1..Len(d)) : Far(d, RankSum(d, positive))})
<1> DEFINE h == Highest(d)
           n == Len(d)
           N == 1..n
           far == {s \in 0..h : Far(d, s)}
           S == {P \in SUBSET N : Far(d, RankSum(d, P))}
           key == [P \in S |-> RankSum(d, P)]
           groups == [s \in far |-> Cardinality({P \in S : key[P] = s})]
<1>1. h \in Nat /\ n \in Nat /\ IsFiniteSet(0..h) /\ IsFiniteSet(N)
    <2>1. h \in Nat /\ n \in Nat
        BY RanksAddUp
    <2>2. IsFiniteSet(0..h)
        <3>1. h \in Int /\ 0 \in Int
            BY <2>1
        <3> HIDE DEF h
        <3> QED
            BY <3>1, FS_Interval
    <2> QED
        BY <2>1, <2>2, NumbersUpTo
<1>2. IsFiniteSet(far) /\ IsFiniteSet(S)
    <2>1. far \in SUBSET (0..h) /\ S \in SUBSET SUBSET N
        OBVIOUS
    <2>2. IsFiniteSet(SUBSET N)
        <3> HIDE DEF N
        <3> QED
            BY <1>1, FS_SUBSET
    <2> HIDE DEF far, S, h, N
    <2> QED
        BY <1>1, <2>1, <2>2, FS_Subset
<1>3. key \in [S -> far]
    BY RankSums
<1>4. SumFunctionOnSet(groups, far) = Cardinality(S)
    <2> HIDE DEF far, S, key
    <2> QED
        BY <1>2, <1>3, SumGroups
<1>5. \A s \in far : groups[s] \in Int /\ groups[s] = Counts(d)[s]
    <2> SUFFICES ASSUME NEW s \in far PROVE groups[s] \in Int /\ groups[s] = Counts(d)[s]
        OBVIOUS
    <2>1. {P \in S : key[P] = s} = SignChoices(d, n, s)
        BY DEF SignChoices
    <2>2. groups[s] = Ways(d, n, s)
        <3> HIDE DEF S, key, far
        <3> QED
            BY <2>1 DEF Ways
    <2>3. Ways(d, n, s) \in Nat
        BY <1>1, FiniteChoices
    <2>4. Counts(d)[s] = Ways(d, n, s)
        <3>1. s \in 0..h
            OBVIOUS
        <3> QED
            BY <3>1, CountsRight DEF Row
    <2> HIDE DEF groups
    <2> QED
        BY <2>2, <2>3, <2>4
<1>6. SumFunctionOnSet(groups, far) = SumFunctionOnSet(Counts(d), far)
    <2> HIDE DEF groups, far
    <2> QED
        BY <1>2, <1>5, SumEqual
<1>7. Extreme(d) = SumFunctionOnSet(Counts(d), far)
    BY DEF Extreme, Far
<1> HIDE DEF groups, far
<1> QED
    BY <1>4, <1>6, <1>7

\* Leaving out the pairs without a difference leaves differences.
KeptOf(c, diffs, n) ==
    c = [k \in 0..n |->
            IF k = 0 THEN <<>>
            ELSE IF diffs[k] = 0 THEN c[k - 1] ELSE Append(c[k - 1], diffs[k])]

LEMMA KeptEntry ==
    ASSUME NEW diffs, NEW n, NEW c, KeptOf(c, diffs, n), NEW k \in 0..n
    PROVE  c[k] = IF k = 0 THEN <<>>
                  ELSE IF diffs[k] = 0 THEN c[k - 1] ELSE Append(c[k - 1], diffs[k])
BY DEF KeptOf

LEMMA KeptSolved ==
    ASSUME NEW diffs, NEW n \in Nat
    PROVE  \E c : KeptOf(c, diffs, n)
<1> DEFINE Good == {m \in 0..n : \E c : KeptOf(c, diffs, m)}
<1>1. 0 \in Good
    <2> DEFINE c == [k \in 0..0 |-> <<>>]
    <2>1. c = [k \in 0..0 |-> IF k = 0 THEN <<>>
                 ELSE IF diffs[k] = 0 THEN c[k - 1] ELSE Append(c[k - 1], diffs[k])]
        OBVIOUS
    <2> HIDE DEF c
    <2>2. KeptOf(c, diffs, 0)
        BY <2>1 DEF KeptOf
    <2> QED
        BY <2>2
<1>2. ASSUME NEW m \in 1..n, m - 1 \in Good PROVE m \in Good
    <2>1. PICK old : KeptOf(old, diffs, m - 1)
        BY <1>2
    <2> DEFINE last == IF diffs[m] = 0 THEN old[m - 1] ELSE Append(old[m - 1], diffs[m])
               c == [k \in 0..m |-> IF k = m THEN last ELSE old[k]]
               step(k) == IF k = 0 THEN <<>>
                          ELSE IF diffs[k] = 0 THEN c[k - 1] ELSE Append(c[k - 1], diffs[k])
    <2>2. \A k \in 0..m : c[k] = IF k = m THEN last ELSE old[k]
        OBVIOUS
    <2>3. \A k \in 0..m : c[k] = step(k)
        <3> SUFFICES ASSUME NEW k \in 0..m PROVE c[k] = step(k)
            OBVIOUS
        <3>1. k # 0 => c[k - 1] = old[k - 1]
            BY <2>2
        <3>2. CASE k = m
            <4> HIDE DEF c
            <4> QED
                BY <2>2, <3>1, <3>2
        <3>3. CASE k # m
            <4>1. k \in 0..(m - 1)
                BY <3>3
            <4>2. old[k] = IF k = 0 THEN <<>>
                           ELSE IF diffs[k] = 0 THEN old[k - 1] ELSE Append(old[k - 1], diffs[k])
                BY <2>1, <4>1, KeptEntry
            <4> HIDE DEF c
            <4> QED
                BY <2>2, <3>1, <3>3, <4>2
        <3> QED
            BY <3>2, <3>3
    <2>4. c = [k \in 0..m |-> step(k)]
        <3>1. c = [k \in 0..m |-> c[k]]
            OBVIOUS
        <3> HIDE DEF c, step
        <3> QED
            BY <2>3, <3>1
    <2>5. KeptOf(c, diffs, m)
        <3> HIDE DEF c
        <3> QED
            BY <2>4 DEF KeptOf
    <2> QED
        BY <2>5
<1>3. n \in Good
    <2> HIDE DEF Good
    <2> QED
        BY <1>1, <1>2, NumberInduction
<1> QED
    BY <1>3

LEMMA NonZeroDifferences ==
    ASSUME NEW diffs \in Seq(Int)
    PROVE  NonZero(diffs) \in Seq(Int)
<1> DEFINE n == Len(diffs)
           c == CHOOSE x : KeptOf(x, diffs, n)
           Good == {k \in 0..n : c[k] \in Seq(Int)}
<1>1. n \in Nat
    OBVIOUS
<1>2. KeptOf(c, diffs, n)
    <2> HIDE DEF n
    <2> QED
        BY <1>1, KeptSolved
<1>3. NonZero(diffs) = c[n]
    BY DEF NonZero, KeptOf
<1> HIDE DEF c
<1>4. 0 \in Good
    <2>1. 0 \in 0..n
        BY <1>1
    <2>2. c[0] = <<>>
        <3> HIDE DEF n
        <3> QED
            BY <1>2, <2>1, KeptEntry
    <2>3. << >> \in Seq(Int)
        OBVIOUS
    <2>4. c[0] \in Seq(Int)
        BY <2>2, <2>3
    <2> QED
        BY <2>1, <2>4
<1>5. ASSUME NEW k \in 1..n, k - 1 \in Good PROVE k \in Good
    <2>1. k \in 0..n /\ k # 0 /\ diffs[k] \in Int /\ c[k - 1] \in Seq(Int)
        BY <1>5
    <2>2. c[k] = IF diffs[k] = 0 THEN c[k - 1] ELSE Append(c[k - 1], diffs[k])
        <3> HIDE DEF n
        <3> QED
            BY <1>2, <2>1, KeptEntry
    <2>3. \A s \in Seq(Int), x \in Int : Append(s, x) \in Seq(Int)
        OBVIOUS
    <2>4. c[k] \in Seq(Int)
        BY <2>1, <2>2, <2>3
    <2> QED
        BY <2>1, <2>4
<1>6. n \in Good
    <2> HIDE DEF Good, n
    <2> QED
        BY <1>1, <1>4, <1>5, NumberInduction
<1> QED
    BY <1>3, <1>6

LEMMA PValueOfSample ==
    ASSUME sample \in Seq(Int)
    PROVE  ExactPValue
<1> DEFINE d == NonZero(sample)
           n == Len(d)
<1>1. d \in Seq(Int) /\ n \in Nat
    BY NonZeroDifferences
<1>2. Extreme(d) = Cardinality({positive \in SUBSET (1..n) : Far(d, RankSum(d, positive))})
    <2> HIDE DEF d
    <2> QED
        BY <1>1, ExtremeRight
<1>3. 2 ^ n = Cardinality(SUBSET (1..n))
    <2>1. IsFiniteSet(1..n) /\ Cardinality(1..n) = n
        <3> HIDE DEF n
        <3> QED
            BY <1>1, NumbersUpTo
    <2> DEFINE N == 1..n
    <2> HIDE DEF n, N
    <2>2. Cardinality(SUBSET N) = 2 ^ Cardinality(N)
        BY <2>1, FS_SUBSET DEF N
    <2> QED
        BY <2>1, <2>2 DEF N
<1> QED
    BY <1>2, <1>3 DEF ExactPValue, WilcoxonSignedRank, Far, RankSum

\* Whatever pairs a sample has come to hold, the table of rank sums gives the
\* p-value of the definition (ab.go:560-565, 622-642).
THEOREM PValueExact == SamplesSpec => []ExactPValue
<1> DEFINE Inv == sample \in Seq(Int)
<1>1. SamplesInit => Inv
    BY DEF SamplesInit
<1>2. Inv /\ [SamplesNext]_sample => Inv'
    BY SampleAssumption DEF SamplesNext, AddPair
<1>3. Inv => ExactPValue
    BY PValueOfSample
<1> QED
    BY <1>1, <1>2, <1>3, PTL DEF SamplesSpec

=============================================================================
