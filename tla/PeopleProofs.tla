---------------------------- MODULE PeopleProofs ----------------------------
(***************************************************************************)
(* Proofs about what people do through the pages: the gold scores, what     *)
(* they submit, the annotations and the accounts, for any number of each,   *)
(* and then the parts of MCPeople together.                                 *)
(***************************************************************************)
EXTENDS MCPeople, CountingProofs, TLAPS

-----------------------------------------------------------------------------
(* Gold scores *)

\* A row has the score given last, and where there is no row none is remembered.
GivenInv ==
    /\ gold \in [GoldKeys -> GoldRow \cup {NoGold}]
    /\ given \in [GoldKeys -> GoldScores \cup {NoScore}]
    /\ LastGivenStands

\* A row is written together with the score that is remembered of it.
LEMMA WriteInv ==
    ASSUME GoldAssumption, GivenInv, NEW k \in GoldKeys, NEW verdict \in Verdicts,
           NEW score \in GoldScores \cup {NoScore},
           gold' = [gold EXCEPT ![k] = [verdict |-> verdict, score |-> score]],
           given' = [given EXCEPT ![k] = score]
    PROVE  GivenInv'
<1> DEFINE row == [verdict |-> verdict, score |-> score]
<1>1. row \in GoldRow /\ row.score = score /\ row # NoGold
  BY DEF GoldRow, GoldAssumption
<1>2. gold' = [gold EXCEPT ![k] = row]
  OBVIOUS
<1> HIDE DEF row
<1> QED BY <1>1, <1>2 DEF GivenInv, GoldRow, LastGivenStands, Rows

LEMMA UpsertInv ==
    ASSUME GoldAssumption, GivenInv, NEW k \in GoldKeys, NEW verdict \in Verdicts,
           NEW score \in GoldScores \cup {Absent}, UpsertGold(k, verdict, score)
    PROVE  GivenInv'
<1> DEFINE new == coalesce(score, given[k])
<1>1. new \in GoldScores \cup {NoScore} /\ given' = [given EXCEPT ![k] = new]
  BY DEF UpsertGold, GivenInv, coalesce
<1>2. gold' = [gold EXCEPT ![k] = [verdict |-> verdict, score |-> new]]
  <2>1. CASE gold[k] = NoGold
    <3>1. given[k] = NoScore
      BY <2>1 DEF GivenInv, LastGivenStands, Rows
    <3> QED BY <2>1, <3>1 DEF UpsertGold
  <2>2. CASE gold[k] # NoGold
    <3>1. given[k] = gold[k].score
      BY <2>2 DEF GivenInv, LastGivenStands, Rows
    <3> QED BY <2>2, <3>1 DEF UpsertGold, MergedGold
  <2> QED BY <2>1, <2>2
<1> HIDE DEF new
<1> QED BY <1>1, <1>2, WriteInv

LEMMA UpdateInv ==
    ASSUME GoldAssumption, GivenInv, NEW k \in GoldKeys, NEW verdict \in Verdicts \cup {Absent},
           NEW score \in GoldScores \cup {0, Absent}, UpdateGold(k, verdict, score)
    PROVE  GivenInv'
<1> DEFINE new == IF score = 0 THEN NoScore ELSE coalesce(score, given[k])
           says == coalesce(verdict, gold[k].verdict)
<1>1. new \in GoldScores \cup {NoScore} /\ given' = [given EXCEPT ![k] = new]
  BY DEF UpdateGold, GivenInv, coalesce
<1>2. gold[k] \in GoldRow /\ given[k] = gold[k].score
  BY DEF UpdateGold, GivenInv, GoldRow, LastGivenStands, Rows
<1>3. says \in Verdicts
  BY <1>2 DEF GoldRow, coalesce
<1>4. gold' = [gold EXCEPT ![k] = [verdict |-> says, score |-> new]]
  BY <1>2 DEF UpdateGold
<1> HIDE DEF new, says
<1> QED BY <1>1, <1>3, <1>4, WriteInv

LEMMA DeleteInv ==
    ASSUME GoldAssumption, GivenInv, NEW k \in GoldKeys, DeleteGold(k)
    PROVE  GivenInv'
BY DEF DeleteGold, GivenInv, LastGivenStands, Rows

LEMMA GivenAlways == GoldAssumption => (GoldSpec => []GivenInv)
<1> SUFFICES ASSUME GoldAssumption PROVE GoldSpec => []GivenInv
  OBVIOUS
<1>1. GoldInit => GivenInv
  BY DEF GoldInit, GivenInv, LastGivenStands, Rows
<1>2. GivenInv /\ [GoldNext]_goldVars => GivenInv'
  <2> SUFFICES ASSUME GivenInv, [GoldNext]_goldVars PROVE GivenInv'
    OBVIOUS
  <2>1. CASE UNCHANGED <<gold, given>>
    BY <2>1 DEF GivenInv, LastGivenStands, Rows
  <2>2. ASSUME NEW c, NEW judge, CompleteItem(c, judge) PROVE UNCHANGED <<gold, given>>
    BY <2>2 DEF CompleteItem
  <2> QED BY <2>1, <2>2, UpsertInv, UpdateInv, DeleteInv DEF GoldNext, goldVars
<1> QED BY <1>1, <1>2, PTL DEF GoldSpec

\* A score stands until it is replaced, withdrawn or deleted, whatever requests
\* that leave it out come in between. (store/human_gold.go:95-98.)
THEOREM ScoresStand == GoldAssumption => (GoldSpec => []LastGivenStands)
<1> SUFFICES ASSUME GoldAssumption PROVE GoldSpec => []LastGivenStands
  OBVIOUS
<1>1. GivenInv => LastGivenStands
  BY DEF GivenInv
<1> QED BY <1>1, GivenAlways, PTL

-----------------------------------------------------------------------------
(* Calibration *)

\* What the worker stored of a case is a result.
StoredInv == results \in [Cases -> CaseResults \cup {NoResult}]

LEMMA StoredAlways == GoldSpec => []StoredInv
<1>1. GoldInit => StoredInv
  BY DEF GoldInit, StoredInv
<1>2. StoredInv /\ [GoldNext]_goldVars => StoredInv'
  <2> SUFFICES ASSUME StoredInv, [GoldNext]_goldVars PROVE StoredInv'
    OBVIOUS
  <2>1. CASE UNCHANGED results
    BY <2>1 DEF StoredInv
  <2>2. ASSUME NEW c \in Cases, NEW r \in CaseResults, CompleteItem(c, r) PROVE StoredInv'
    BY <2>2 DEF CompleteItem, StoredInv
  <2> QED BY <2>1, <2>2 DEF GoldNext, goldVars, UpsertGold, UpdateGold, DeleteGold
<1> QED BY <1>1, <1>2, PTL DEF GoldSpec

\* The types: a row of gold is a whole row, whichever fields requests left out,
\* and a remembered score is one of the scale. (store/human_gold.go:99-163.)
THEOREM GoldTyped == GoldAssumption => (GoldSpec => []GoldTypeOK)
<1> SUFFICES ASSUME GoldAssumption PROVE GoldSpec => []GoldTypeOK
  OBVIOUS
<1>1. GivenInv /\ StoredInv => GoldTypeOK
  BY DEF GivenInv, StoredInv, GoldTypeOK
<1> QED BY <1>1, GivenAlways, StoredAlways, PTL

\* What the report reads are results of the run, and all of them when the run is
\* within its limit. (store/run.go:103-120.)
LEMMA ReadResults ==
    ASSUME GoldAssumption, StoredInv, NEW limit \in Nat
    PROVE  /\ DOMAIN Read(limit) \subseteq WithResult
           /\ \A c \in DOMAIN Read(limit) : Read(limit)[c] = results[c]
           /\ Cardinality(WithResult) <= limit => DOMAIN Read(limit) = WithResult
<1> DEFINE has == [c \in WithResult |-> results[c]]
           Worse(c) == {d \in DOMAIN has :
               \/ floatField(has[d].metrics, "recall") < floatField(has[c].metrics, "recall")
               \/ floatField(has[d].metrics, "recall") = floatField(has[c].metrics, "recall")
                  /\ d < c}
           S == {d \in DOMAIN has : Cardinality(Worse(d)) < limit}
<1>1. Read(limit) = [c \in S |-> has[c]]
  BY DEF Read, ListRunCaseResults
<1>2. S \subseteq WithResult /\ \A c \in S : has[c] = results[c]
  OBVIOUS
<1>3. ASSUME Cardinality(WithResult) <= limit, NEW c \in WithResult PROVE c \in S
  <2>1. c \in Nat /\ IsFiniteSet(WithResult)
    <3>1. Cases \subseteq Nat /\ IsFiniteSet(Cases) /\ WithResult \in SUBSET Cases
      BY DEF GoldAssumption, WithResult
    <3> QED BY <3>1, FS_Subset
  <2>2. floatField(has[c].metrics, "recall") \in Int
    <3>1. has[c] \in CaseResults
      BY DEF StoredInv, WithResult
    <3> QED BY <3>1 DEF GoldAssumption
  <2>3. DOMAIN has = WithResult
    OBVIOUS
  <2>4. Worse(c) \in SUBSET (WithResult \ {c})
    <3>1. c \notin Worse(c)
      <4> HIDE DEF has
      <4> QED BY <2>1, <2>2
    <3> HIDE DEF has
    <3> QED BY <2>3, <3>1
  <2> HIDE DEF Worse, has
  <2>5. /\ IsFiniteSet(WithResult \ {c})
        /\ Cardinality(WithResult \ {c}) = Cardinality(WithResult) - 1
    BY <2>1, FS_RemoveElement
  <2>6. IsFiniteSet(Worse(c)) /\ Cardinality(Worse(c)) <= Cardinality(WithResult \ {c})
    BY <2>4, <2>5, FS_Subset
  <2>7. Cardinality(WithResult) \in Nat /\ Cardinality(Worse(c)) \in Nat
    BY <2>1, <2>6, FS_CardinalityType
  <2> QED BY <1>3, <2>3, <2>5, <2>6, <2>7
<1>4. Cardinality(WithResult) <= limit => S = WithResult
  <2> HIDE DEF S
  <2> QED BY <1>2, <1>3
<1> HIDE DEF S, has
<1> QED BY <1>1, <1>2, <1>4

\* The judge has an opinion on a case when it found a claim in its answer, and the
\* report has read it.
LEMMA OpinionIsClaims ==
    ASSUME GoldAssumption, StoredInv, NEW limit \in Nat, NEW k \in Rows
    PROVE  Item(Read(limit), k).judgeHasOpinion <=>
              /\ k[1] \in DOMAIN Read(limit) /\ results[k[1]].judge # NoJudge
              /\ judgeSummary(results[k[1]].judge).claims > 0
<1> DEFINE read == Read(limit)
           judge == results[k[1]].judge
           summary == IF k[1] \in DOMAIN read THEN judgeSummary(read[k[1]].judge) ELSE NoJudge
<1>1. CASE k[1] \in DOMAIN read
  <2>1. read[k[1]] = results[k[1]] /\ k[1] \in WithResult
    BY <1>1, ReadResults
  <2>2. results[k[1]] \in CaseResults
    BY <2>1 DEF StoredInv, WithResult
  <2>3. summary = judgeSummary(judge)
    BY <1>1, <2>1
  <2>4. summary # NoJudge <=> judge # NoJudge
    BY <2>2, <2>3 DEF GoldAssumption, judgeSummary
  <2>5. Item(read, k).judgeHasOpinion = (summary # NoJudge /\ summary.claims > 0)
    BY DEF Item
  <2> HIDE DEF summary, read
  <2> QED BY <1>1, <2>3, <2>4, <2>5 DEF read
<1>2. CASE k[1] \notin DOMAIN read
  BY <1>2 DEF Item
<1> QED BY <1>1, <1>2

\* Whoever has no opinion is no evidence: the numbers are the same without the
\* cases found unclear and those without a claim to judge. (calibration.go:18-20.)
THEOREM SilentLeftOut == GoldAssumption => (GoldSpec => []SilentOut)
<1> SUFFICES ASSUME GoldAssumption PROVE GoldSpec => []SilentOut
  OBVIOUS
<1>1. StoredInv => SilentOut
  <2> SUFFICES ASSUME StoredInv, Rows # {}, NEW limit \in ReadLimits
               PROVE  SilentOut!(limit)!2
    BY DEF SilentOut
  <2> DEFINE compared == Items(limit)
             own == ItemsOf(compared, PrimaryAnnotator(compared))
             read == DOMAIN Read(limit)
             spoken == {k \in DOMAIN own : /\ own[k].verdict # "unclear"
                                           /\ k[1] \in read /\ results[k[1]].judge # NoJudge
                                           /\ judgeSummary(results[k[1]].judge).claims > 0}
             clear == [k \in spoken |-> own[k]]
  <2>0. limit \in Nat
    BY DEF GoldAssumption
  <2>1. \A k \in DOMAIN own : k \in Rows /\ own[k] = Item(Read(limit), k)
    BY DEF ItemsOf, Items
  <2>2. Paired(own) = spoken
    BY <2>0, <2>1, OpinionIsClaims DEF Paired
  <2> HIDE DEF own
  <2>3. Paired(clear) = spoken /\ DOMAIN clear = spoken /\ \A k \in spoken : clear[k] = own[k]
    BY <2>2 DEF Paired
  <2>4. {k \in DOMAIN clear : clear[k].verdict = "unclear"} = {}
    BY <2>3
  <2>5. Cardinality({}) = 0
    BY FS_EmptySet
  <2> HIDE DEF spoken, clear
  <2>6. \A human, judge : Cell(own, human, judge) = Cell(clear, human, judge)
    BY <2>2, <2>3 DEF Cell
  <2>7. computeBinary(own).pairs = Cardinality(spoken)
    BY <2>2 DEF computeBinary
  <2> DEFINE Told(pairs, tp, fn, fp, tn, unclear) ==
                [pairs |-> pairs, truePositive |-> tp, falseNegative |-> fn,
                 falsePositive |-> fp, trueNegative |-> tn, agreement |-> tp + tn,
                 kappa |-> cohenKappa(tp, fn, fp, tn), excludedUnclear |-> unclear]
  <2>8. \A items :
           computeBinary(items) =
              Told(Cardinality(Paired(items)), Cardinality(Cell(items, TRUE, TRUE)),
                   Cardinality(Cell(items, TRUE, FALSE)), Cardinality(Cell(items, FALSE, TRUE)),
                   Cardinality(Cell(items, FALSE, FALSE)),
                   Cardinality({k \in DOMAIN items : items[k].verdict = "unclear"}))
    BY DEF computeBinary
  <2>9. \A pairs, tp, fn, fp, tn, unclear :
           [Told(pairs, tp, fn, fp, tn, unclear) EXCEPT !.excludedUnclear = 0] =
              Told(pairs, tp, fn, fp, tn, 0)
    OBVIOUS
  <2>10. /\ Cell(own, TRUE, TRUE) = Cell(clear, TRUE, TRUE)
         /\ Cell(own, TRUE, FALSE) = Cell(clear, TRUE, FALSE)
         /\ Cell(own, FALSE, TRUE) = Cell(clear, FALSE, TRUE)
         /\ Cell(own, FALSE, FALSE) = Cell(clear, FALSE, FALSE)
    BY <2>6
  <2> HIDE DEF Told
  <2> DEFINE tp == Cardinality(Cell(clear, TRUE, TRUE))
             fn == Cardinality(Cell(clear, TRUE, FALSE))
             fp == Cardinality(Cell(clear, FALSE, TRUE))
             tn == Cardinality(Cell(clear, FALSE, FALSE))
             pairs == Cardinality(spoken)
             unclear == Cardinality({k \in DOMAIN own : own[k].verdict = "unclear"})
  <2>11. computeBinary(own) = Told(pairs, tp, fn, fp, tn, unclear)
    BY <2>2, <2>8, <2>10
  <2>12. computeBinary(clear) = Told(pairs, tp, fn, fp, tn, 0)
    BY <2>3, <2>4, <2>5, <2>8
  <2> HIDE DEF tp, fn, fp, tn, pairs, unclear
  <2>13. [computeBinary(own) EXCEPT !.excludedUnclear = 0] = computeBinary(clear)
    BY <2>9, <2>11, <2>12
  <2>14. Cardinality(WithResult) <= limit => read = WithResult
    BY <2>0, ReadResults
  <2> QED BY <2>7, <2>13, <2>14 DEF own, spoken, clear
<1> QED BY <1>1, StoredAlways, PTL

\* Of four counts, twice the difference of the products across is what the judge
\* and the annotator agree on more often than by chance.
LEMMA KappaNumerator ==
    ASSUME NEW a \in Nat, NEW b \in Nat, NEW c \in Nat, NEW d \in Nat
    PROVE  LET n == a + b + c + d
               chance == (a + b) * (a + c) + (d + c) * (d + b)
           IN  /\ n * (a + d) - chance = 2 * (a * d) - 2 * (b * c)
               /\ n * n - chance = (a + b) * (b + d) + (c + d) * (a + c)
OBVIOUS

LEMMA ProductIsNat == \A x, y \in Nat : x * y \in Nat /\ (x * y = 0 <=> x = 0 \/ y = 0)
OBVIOUS

\* What KappaDiscounts says of kappa, of the four counts.
LEMMA KappaBounds ==
    ASSUME NEW a \in Nat, NEW b \in Nat, NEW c \in Nat, NEW d \in Nat
    PROVE  LET k == cohenKappa(a, b, c, d)
               n == a + b + c + d
           IN  /\ k.den > 0 /\ k.num <= k.den /\ k.num >= -k.den
               /\ a + c \in {0, n} \/ a + b \in {0, n} => k.num = 0
               /\ k.num = k.den <=> a + d = n /\ a + c > 0 /\ a + c < n
<1> DEFINE n == a + b + c + d
           chance == (a + b) * (a + c) + (d + c) * (d + b)
           num == n * (a + d) - chance
           den == n * n - chance
           k == cohenKappa(a, b, c, d)
<1>1. /\ num = 2 * (a * d) - 2 * (b * c) /\ den = (a + b) * (b + d) + (c + d) * (a + c)
  BY KappaNumerator
<1>2. n \in Nat /\ chance \in Nat /\ n * n \in Nat
  BY ProductIsNat
<1>3. k = IF n = 0 \/ chance >= n * n THEN [num |-> 0, den |-> 1] ELSE [num |-> num, den |-> den]
  BY DEF cohenKappa
<1>4. CASE n = 0 \/ chance >= n * n
  <2>1. k.num = 0 /\ k.den = 1
    BY <1>3, <1>4
  <2>2. n > 0 /\ a + d = n => a = 0 \/ d = 0
    <3> SUFFICES ASSUME n > 0, a + d = n PROVE a = 0 \/ d = 0
      OBVIOUS
    <3>1. b = 0 /\ c = 0
      OBVIOUS
    <3>2. den <= 0
      BY <1>2, <1>4
    <3>3. a * d + d * a <= 0
      BY <1>1, <3>1, <3>2
    <3>4. a * d \in Nat /\ a * d = d * a
      BY ProductIsNat
    <3>5. a * d = 0
      BY <3>3, <3>4
    <3> QED BY <3>5, ProductIsNat
  <2> QED BY <2>1, <2>2 DEF k
<1>5. CASE ~(n = 0 \/ chance >= n * n)
  <2>1. k.num = num /\ k.den = den
    BY <1>3, <1>5
  <2>2. den > 0
    BY <1>2, <1>5
  <2>3. den - num = n * (b + c)
    OBVIOUS
  <2>4. den + num = 2 * (a * d) + (b - c) * (b - c) + a * b + a * d + b * d + a * c + c * d + d * a
    BY <1>1
  <2>5. n * (b + c) \in Nat /\ (n * (b + c) = 0 <=> b = 0 /\ c = 0)
    BY <1>2, <1>5, ProductIsNat
  <2>6. (b - c) * (b - c) \in Nat
    <3>1. CASE b >= c
      <4>1. b - c \in Nat
        BY <3>1
      <4> QED BY <4>1, ProductIsNat
    <3>2. CASE b < c
      <4>1. c - b \in Nat /\ (b - c) * (b - c) = (c - b) * (c - b)
        BY <3>2
      <4> QED BY <4>1, ProductIsNat
    <3> QED BY <3>1, <3>2
  <2>7. /\ a * d \in Nat /\ a * b \in Nat /\ b * d \in Nat /\ a * c \in Nat /\ c * d \in Nat
        /\ d * a \in Nat
    BY ProductIsNat
  <2>8. num \in Int /\ den \in Int
    BY <1>1, <2>7, ProductIsNat
  <2> HIDE DEF num, den, k, chance
  <2>9. num <= den /\ num >= -den /\ (num = den <=> b = 0 /\ c = 0)
    <3>1. den - num >= 0 /\ den + num >= 0 /\ (den - num = 0 <=> b = 0 /\ c = 0)
      BY <2>3, <2>4, <2>5, <2>6, <2>7
    <3> QED BY <2>8, <3>1
  <2>10. a + c \in {0, n} \/ a + b \in {0, n} => num = 0
    <3> SUFFICES ASSUME a + c \in {0, n} \/ a + b \in {0, n} PROVE num = 0
      OBVIOUS
    <3>1. (a = 0 \/ d = 0) /\ (b = 0 \/ c = 0)
      OBVIOUS
    <3>2. a * d = 0 /\ b * c = 0
      BY <3>1, ProductIsNat
    <3> QED BY <1>1, <3>2
  <2>11. b = 0 /\ c = 0 => a > 0 /\ d > 0
    <3> SUFFICES ASSUME b = 0, c = 0 PROVE a > 0 /\ d > 0
      OBVIOUS
    <3>1. den = a * d + d * a
      BY <1>1
    <3>2. a # 0 /\ d # 0
      BY <2>2, <3>1
    <3> QED BY <3>2
  <2> QED BY <2>1, <2>2, <2>9, <2>10, <2>11 DEF k
<1> QED BY <1>4, <1>5

LEMMA DisjointUnion ==
    ASSUME NEW S, NEW T, IsFiniteSet(S), IsFiniteSet(T), S \cap T = {}
    PROVE  IsFiniteSet(S \cup T) /\ Cardinality(S \cup T) = Cardinality(S) + Cardinality(T)
<1>1. /\ IsFiniteSet(S \cup T)
      /\ Cardinality(S \cup T) = Cardinality(S) + Cardinality(T) - Cardinality(S \cap T)
  BY FS_Union
<1>2. Cardinality(S \cap T) = 0
  BY FS_EmptySet
<1>3. Cardinality(S) \in Nat /\ Cardinality(T) \in Nat
  BY FS_CardinalityType
<1> QED BY <1>1, <1>2, <1>3

\* The four cells of the table are the items both sides have an opinion on.
LEMMA CellsCount ==
    ASSUME NEW items, IsFiniteSet(DOMAIN items)
    PROVE  LET r == computeBinary(items) IN
           /\ r.truePositive \in Nat /\ r.falseNegative \in Nat
           /\ r.falsePositive \in Nat /\ r.trueNegative \in Nat
           /\ r.pairs = r.truePositive + r.falseNegative + r.falsePositive + r.trueNegative
<1> DEFINE tp == Cell(items, TRUE, TRUE)
           fn == Cell(items, TRUE, FALSE)
           fp == Cell(items, FALSE, TRUE)
           tn == Cell(items, FALSE, FALSE)
<1>1. IsFiniteSet(Paired(items))
  <2>1. Paired(items) \subseteq DOMAIN items
    BY DEF Paired
  <2> QED BY <2>1, FS_Subset
<1>2. /\ tp \subseteq Paired(items) /\ fn \subseteq Paired(items)
      /\ fp \subseteq Paired(items) /\ tn \subseteq Paired(items)
      /\ tp \cap fn = {} /\ fp \cap tn = {} /\ (tp \cup fn) \cap (fp \cup tn) = {}
      /\ Paired(items) = (tp \cup fn) \cup (fp \cup tn)
  BY DEF Cell, HumanYes, JudgeYes
<1>3. /\ computeBinary(items).truePositive = Cardinality(tp)
      /\ computeBinary(items).falseNegative = Cardinality(fn)
      /\ computeBinary(items).falsePositive = Cardinality(fp)
      /\ computeBinary(items).trueNegative = Cardinality(tn)
      /\ computeBinary(items).pairs = Cardinality(Paired(items))
  BY DEF computeBinary
<1> HIDE DEF tp, fn, fp, tn
<1>4. IsFiniteSet(tp) /\ IsFiniteSet(fn) /\ IsFiniteSet(fp) /\ IsFiniteSet(tn)
  BY <1>1, <1>2, FS_Subset
<1>5. /\ Cardinality(tp) \in Nat /\ Cardinality(fn) \in Nat
      /\ Cardinality(fp) \in Nat /\ Cardinality(tn) \in Nat
  BY <1>4, FS_CardinalityType
<1>6. IsFiniteSet(tp \cup fn) /\ Cardinality(tp \cup fn) = Cardinality(tp) + Cardinality(fn)
  BY <1>2, <1>4, DisjointUnion
<1>7. IsFiniteSet(fp \cup tn) /\ Cardinality(fp \cup tn) = Cardinality(fp) + Cardinality(tn)
  BY <1>2, <1>4, DisjointUnion
<1>8. Cardinality(Paired(items)) = Cardinality(tp \cup fn) + Cardinality(fp \cup tn)
  BY <1>2, <1>6, <1>7, DisjointUnion
<1> QED BY <1>3, <1>5, <1>6, <1>7, <1>8

\* Kappa lies between -1 and 1, is 1 only for a judge that always agrees and says
\* both things, and 0 for one that always says the same. (calibration.go:15-16.)
THEOREM KappaDiscounted == GoldAssumption => (GoldSpec => []KappaDiscounts)
<1> SUFFICES ASSUME GoldAssumption PROVE GoldSpec => []KappaDiscounts
  OBVIOUS
<1>1. KappaDiscounts
  <2> SUFFICES ASSUME Rows # {}, NEW limit \in ReadLimits PROVE KappaDiscounts!(limit)!2
    BY DEF KappaDiscounts
  <2> DEFINE own == ItemsOf(Items(limit), PrimaryAnnotator(Items(limit)))
             r == computeBinary(own)
  <2>1. Calibrated(limit).binary = r
    BY DEF Calibrated, ComputeCalibration
  <2>2. IsFiniteSet(DOMAIN own)
    <3>1. IsFiniteSet(GoldKeys)
      BY FS_Product DEF GoldAssumption, GoldKeys
    <3>2. DOMAIN own \subseteq GoldKeys
      BY DEF ItemsOf, Items, Rows
    <3> QED BY <3>1, <3>2, FS_Subset
  <2>3. /\ r.agreement = r.truePositive + r.trueNegative
        /\ r.kappa = cohenKappa(r.truePositive, r.falseNegative, r.falsePositive, r.trueNegative)
    BY DEF computeBinary
  <2> HIDE DEF own
  <2>4. /\ r.truePositive \in Nat /\ r.falseNegative \in Nat
        /\ r.falsePositive \in Nat /\ r.trueNegative \in Nat
        /\ r.pairs = r.truePositive + r.falseNegative + r.falsePositive + r.trueNegative
    BY <2>2, CellsCount
  <2> HIDE DEF r
  <2> DEFINE a == r.truePositive
             b == r.falseNegative
             c == r.falsePositive
             d == r.trueNegative
             k == cohenKappa(a, b, c, d)
             n == a + b + c + d
  <2>5. /\ k.den > 0 /\ k.num <= k.den /\ k.num >= -k.den
        /\ a + c \in {0, n} \/ a + b \in {0, n} => k.num = 0
        /\ k.num = k.den <=> a + d = n /\ a + c > 0 /\ a + c < n
    BY <2>4, KappaBounds
  <2>6. r.kappa = k /\ r.pairs = n /\ r.agreement = a + d
    BY <2>3, <2>4
  <2> HIDE DEF k, n
  <2> QED BY <2>1, <2>5, <2>6
<1> QED BY <1>1, PTL

\* A row is known by its case and its annotator, and the rows are finitely many.
LEMMA RowsFinite ==
    ASSUME GoldAssumption
    PROVE  /\ IsFiniteSet(Rows) /\ \A limit : DOMAIN Items(limit) = Rows
           /\ \A k \in Rows : k = <<k[1], k[2]>> /\ k[1] \in Nat /\ k[2] \in GoldAnnotators
<1>1. IsFiniteSet(GoldKeys)
  BY FS_Product DEF GoldAssumption, GoldKeys
<1>2. Rows \in SUBSET GoldKeys
  BY DEF Rows
<1>3. \A k \in GoldKeys : k = <<k[1], k[2]>> /\ k[1] \in Nat /\ k[2] \in GoldAnnotators
  <2>1. \A k \in Cases \X GoldAnnotators :
           k = <<k[1], k[2]>> /\ k[1] \in Cases /\ k[2] \in GoldAnnotators
    OBVIOUS
  <2>2. Cases \subseteq Nat
    BY DEF GoldAssumption
  <2> QED BY <2>1, <2>2 DEF GoldKeys
<1>4. IsFiniteSet(Rows)
  BY <1>1, <1>2, FS_Subset
<1> QED BY <1>2, <1>3, <1>4 DEF Items

\* The primary annotator has rows, and nobody has more.
LEMMA PrimaryHasMost ==
    ASSUME GoldAssumption, Rows # {}, NEW limit
    PROVE  LET a == PrimaryAnnotator(Items(limit)) IN
           /\ a \in Annotators(Items(limit))
           /\ \A b \in GoldAnnotators :
                Cardinality({k \in Rows : k[2] = b}) <= Cardinality({k \in Rows : k[2] = a})
<1> DEFINE A == Annotators(Items(limit))
           Of(b) == {k \in Rows : k[2] = b}
           count == [b \in A |-> Cardinality(Of(b))]
           Best(a) == \A b \in A : \/ Cardinality(Of(b)) < Cardinality(Of(a))
                                   \/ Cardinality(Of(b)) = Cardinality(Of(a)) /\ a <= b
           a == PrimaryAnnotator(Items(limit))
<1>1. DOMAIN Items(limit) = Rows
  BY RowsFinite
<1>2. A = {k[2] : k \in Rows}
  BY <1>1 DEF Annotators
<1>3. A # {} /\ A \subseteq Nat /\ A \subseteq GoldAnnotators /\ IsFiniteSet(A)
  <2>1. A # {} /\ A \in SUBSET GoldAnnotators
    BY <1>2, RowsFinite
  <2> HIDE DEF A
  <2> QED BY <2>1, FS_Subset DEF GoldAssumption
<1>4. \A b : Cardinality(Of(b)) \in Nat
  <2> SUFFICES ASSUME NEW b PROVE Cardinality(Of(b)) \in Nat
    OBVIOUS
  <2>1. Of(b) \in SUBSET Rows
    OBVIOUS
  <2>2. IsFiniteSet(Of(b))
    BY <2>1, RowsFinite, FS_Subset
  <2> QED BY <2>2, FS_CardinalityType
<1>5. \E x \in A : Best(x)
  <2>1. count \in [A -> Nat]
    BY <1>4
  <2>2. PICK x \in A : \A b \in A : count[b] < count[x] \/ (count[b] = count[x] /\ x <= b)
    <3> HIDE DEF A, count
    <3> QED BY <1>3, <2>1, FirstByCount
  <2>3. \A b \in A : count[b] = Cardinality(Of(b))
    OBVIOUS
  <2> HIDE DEF A, count, Of
  <2> QED BY <2>2, <2>3
<1>6. a = CHOOSE x \in A : Best(x)
  BY <1>1 DEF PrimaryAnnotator
<1>7. a \in A /\ Best(a)
  <2> HIDE DEF A, Best, a
  <2> QED BY <1>5, <1>6
<1>8. ASSUME NEW b \in GoldAnnotators PROVE Cardinality(Of(b)) <= Cardinality(Of(a))
  <2>1. CASE b \in A
    <3> HIDE DEF a, A, Of
    <3> QED BY <1>4, <1>7, <2>1
  <2>2. CASE b \notin A
    <3>1. Of(b) = {}
      BY <1>2, <2>2
    <3>2. Cardinality(Of(b)) = 0
      BY <3>1, FS_EmptySet
    <3> HIDE DEF a, Of
    <3> QED BY <1>4, <3>2
  <2> QED BY <2>1, <2>2
<1> QED BY <1>7, <1>8

\* The list of disagreements goes as far as its limit, and false alarms come last.
LEMMA DisagreementsListed ==
    ASSUME NEW items, IsFiniteSet(DOMAIN items), MaxDisagreements \in Nat,
           \A k \in DOMAIN items : k[1] \in Nat,
           \A j, k \in DOMAIN items : j[1] = k[1] => j = k
    PROVE  LET r == computeBinary(items)
               listed == collectDisagreements(items) IN
           /\ Cardinality(listed)
                 = Min({r.falseNegative + r.falsePositive, MaxDisagreements})
           /\ Cardinality({k \in listed : items[k].verdict = "hallucinated"})
                 = Min({r.falseNegative, MaxDisagreements})
<1> DEFINE missed == Cell(items, TRUE, FALSE)
           alarms == Cell(items, FALSE, TRUE)
           found == missed \cup alarms
           Precedes(j, k) ==
               \/ HumanYes(items[j]) /\ ~HumanYes(items[k])
               \/ HumanYes(items[j]) = HumanYes(items[k]) /\ j[1] < k[1]
           ahead == [k \in found |-> {j \in found : Precedes(j, k)}]
           missedAhead == [k \in missed |-> {j \in missed : Precedes(j, k)}]
           listed == {k \in found : Cardinality(ahead[k]) < MaxDisagreements}
<1>1. /\ missed \subseteq DOMAIN items /\ alarms \subseteq DOMAIN items
      /\ \A k \in missed : HumanYes(items[k]) /\ items[k].verdict = "hallucinated"
      /\ \A k \in alarms : ~HumanYes(items[k]) /\ items[k].verdict # "hallucinated"
      /\ missed \cap alarms = {}
  BY DEF Cell, Paired, HumanYes
<1>2. found = {k \in DOMAIN items :
                  /\ items[k].verdict # "unclear" /\ items[k].judgeHasOpinion
                  /\ HumanYes(items[k]) # JudgeYes(items[k])}
  BY DEF Cell, Paired, HumanYes, JudgeYes
<1>3. collectDisagreements(items) = listed
  BY <1>2 DEF collectDisagreements
<1>4. /\ IsFiniteSet(missed) /\ IsFiniteSet(alarms) /\ IsFiniteSet(found)
      /\ Cardinality(found) = Cardinality(missed) + Cardinality(alarms)
  <2>1. missed \in SUBSET DOMAIN items /\ alarms \in SUBSET DOMAIN items
    BY <1>1
  <2>2. IsFiniteSet(missed) /\ IsFiniteSet(alarms)
    BY <2>1, FS_Subset
  <2> HIDE DEF missed, alarms
  <2> QED BY <1>1, <2>2, DisjointUnion
<1>5. \A k \in found : k \in DOMAIN items /\ k[1] \in Nat
  BY <1>1
<1> HIDE DEF missed, alarms
<1>6. Cardinality(listed) = Min({Cardinality(found), MaxDisagreements})
  <2>1. ahead \in [found -> SUBSET found]
    OBVIOUS
  <2>2. \A j, k \in found : j \in ahead[k] <=> Precedes(j, k)
    OBVIOUS
  <2>3. \A k \in found : ~Precedes(k, k)
    BY <1>5
  <2>4. \A j, k \in found : j = k \/ Precedes(j, k) \/ Precedes(k, j)
    <3> SUFFICES ASSUME NEW j \in found, NEW k \in found, j # k
                 PROVE  Precedes(j, k) \/ Precedes(k, j)
      OBVIOUS
    <3>1. j[1] \in Nat /\ k[1] \in Nat /\ j[1] # k[1]
      BY <1>5
    <3>2. j[1] < k[1] \/ k[1] < j[1]
      BY <3>1
    <3> QED BY <3>2 DEF HumanYes
  <2>5. \A i, j, k \in found : Precedes(i, j) /\ Precedes(j, k) => Precedes(i, k)
    BY <1>1, <1>5
  <2> HIDE DEF found, ahead, Precedes
  <2>6. \A k \in found : k \notin ahead[k]
    BY <2>2, <2>3
  <2>7. \A j, k \in found : j = k \/ j \in ahead[k] \/ k \in ahead[j]
    BY <2>2, <2>4
  <2>8. \A k \in found : \A j \in ahead[k] : ahead[j] \subseteq ahead[k]
    BY <2>1, <2>2, <2>5
  <2> QED BY <1>4, <2>1, <2>6, <2>7, <2>8, FirstPlaces
<1>7. Cardinality({k \in missed : Cardinality(missedAhead[k]) < MaxDisagreements})
         = Min({Cardinality(missed), MaxDisagreements})
  <2>0. \A k \in missed : k \in found
    OBVIOUS
  <2>1. missedAhead \in [missed -> SUBSET missed]
    OBVIOUS
  <2>2. \A j, k \in missed : j \in missedAhead[k] <=> Precedes(j, k)
    OBVIOUS
  <2>3. \A k \in missed : ~Precedes(k, k)
    BY <1>5, <2>0
  <2>4. \A j, k \in missed : j = k \/ Precedes(j, k) \/ Precedes(k, j)
    <3> SUFFICES ASSUME NEW j \in missed, NEW k \in missed, j # k
                 PROVE  Precedes(j, k) \/ Precedes(k, j)
      OBVIOUS
    <3>1. j[1] \in Nat /\ k[1] \in Nat /\ j[1] # k[1]
      BY <1>5, <2>0
    <3>2. j[1] < k[1] \/ k[1] < j[1]
      BY <3>1
    <3> QED BY <3>2 DEF HumanYes
  <2>5. \A i, j, k \in missed : Precedes(i, j) /\ Precedes(j, k) => Precedes(i, k)
    BY <1>1, <1>5, <2>0
  <2> HIDE DEF found, missedAhead, Precedes
  <2>6. \A k \in missed : k \notin missedAhead[k]
    BY <2>2, <2>3
  <2>7. \A j, k \in missed : j = k \/ j \in missedAhead[k] \/ k \in missedAhead[j]
    BY <2>2, <2>4
  <2>8. \A k \in missed : \A j \in missedAhead[k] : missedAhead[j] \subseteq missedAhead[k]
    BY <2>1, <2>2, <2>5
  <2> QED BY <1>4, <2>1, <2>6, <2>7, <2>8, FirstPlaces
<1>8. \A k \in missed : missedAhead[k] = ahead[k]
  <2>1. \A k \in missed : \A j \in found : Precedes(j, k) => j \in missed
    BY <1>1
  <2> QED BY <2>1
<1>9. {k \in listed : items[k].verdict = "hallucinated"}
         = {k \in missed : Cardinality(missedAhead[k]) < MaxDisagreements}
  <2> HIDE DEF ahead, missedAhead
  <2> QED BY <1>1, <1>8
<1>10. LET r == computeBinary(items) IN
       r.falseNegative = Cardinality(missed) /\ r.falsePositive = Cardinality(alarms)
  BY DEF computeBinary, missed, alarms
<1> HIDE DEF listed, found, ahead, missedAhead
<1> QED BY <1>3, <1>4, <1>6, <1>7, <1>9, <1>10

\* The matrix has people in its rows and the judge in its columns: weighed by how
\* far they are off the diagonal, its cells add up to the bias, and the diagonal to
\* the scores that are the same.
LEMMA MatrixSums ==
    ASSUME NEW items, IsFiniteSet(DOMAIN items)
    PROVE  LET r == computeScores(items) IN
           /\ SumFunction([p \in (1..5) \X (1..5) |-> (p[2] - p[1]) * r.confusion[p]]) = r.bias
           /\ SumFunction([h \in 1..5 |-> r.confusion[<<h, h>>]]) = r.exact
<1> DEFINE scored == Scored(items)
           Human(k) == items[k].humanScore
           Judge(k) == items[k].judgeScore
           P == (1..5) \X (1..5)
           diff == [k \in scored |-> Judge(k) - Human(k)]
           size == [p \in P |-> Cardinality({k \in scored : <<Human(k), Judge(k)>> = p})]
           same == {k \in scored : Judge(k) - Human(k) = 0}
<1>1. IsFiniteSet(scored) /\ \A k \in scored : Human(k) \in 1..5 /\ Judge(k) \in 1..5
  <2>1. scored \in SUBSET DOMAIN items
    BY DEF Scored
  <2> QED BY <2>1, FS_Subset DEF Scored
<1>2. LET r == computeScores(items) IN
      r.confusion = size /\ r.bias = SumFunction(diff) /\ r.exact = Cardinality(same)
  BY DEF computeScores
<1> HIDE DEF scored
<1>3. SumFunction([p \in P |-> (p[2] - p[1]) * size[p]]) = SumFunction(diff)
  <2> DEFINE key == [k \in scored |-> <<Human(k), Judge(k)>>]
             w == [p \in P |-> p[2] - p[1]]
             off == [p \in P |-> (p[2] - p[1]) * size[p]]
             groups == [p \in P |-> w[p] * Cardinality({k \in scored : key[k] = p})]
  <2>1. key \in [scored -> P]
    BY <1>1
  <2>2. w \in [P -> Int]
    OBVIOUS
  <2>3. IsFiniteSet(P)
    <3>1. IsFiniteSet(1..5)
      BY NumbersUpTo
    <3> QED BY <3>1, FS_Product
  <2>4. off = groups
    <3>1. \A p \in P : {k \in scored : key[k] = p} = {k \in scored : <<Human(k), Judge(k)>> = p}
      OBVIOUS
    <3>2. \A p \in P : size[p] = Cardinality({k \in scored : key[k] = p})
      BY <3>1
    <3>3. \A p \in P : w[p] = p[2] - p[1]
      OBVIOUS
    <3> HIDE DEF P, key, w, size
    <3> QED BY <3>2, <3>3
  <2>5. SumFunctionOnSet(groups, P) = SumFunctionOnSet([k \in scored |-> w[key[k]]], scored)
    <3> HIDE DEF P, key, w
    <3> QED BY <1>1, <2>1, <2>2, <2>3, SumByKey
  <2>6. [k \in scored |-> w[key[k]]] = diff
    <3>1. ASSUME NEW k \in scored PROVE w[key[k]] = Judge(k) - Human(k)
      <4>1. key[k] = <<Human(k), Judge(k)>> /\ key[k] \in P
        BY <1>1
      <4>2. key[k][1] = Human(k) /\ key[k][2] = Judge(k)
        BY <4>1
      <4> HIDE DEF key, Human, Judge
      <4> QED BY <4>1, <4>2
    <3> HIDE DEF w, key
    <3> QED BY <3>1
  <2>7. DOMAIN off = P /\ DOMAIN diff = scored
    OBVIOUS
  <2> HIDE DEF off, groups, diff, P
  <2>8. SumFunction(off) = SumFunction(diff)
    BY <2>4, <2>5, <2>6, <2>7 DEF SumFunction
  <2> QED BY <2>8 DEF off
<1>4. SumFunction([h \in 1..5 |-> size[<<h, h>>]]) = Cardinality(same)
  <2> DEFINE key == [k \in same |-> Human(k)]
             diagonal == [h \in 1..5 |-> size[<<h, h>>]]
  <2>1. IsFiniteSet(same) /\ IsFiniteSet(1..5)
    <3>1. same \in SUBSET scored
      OBVIOUS
    <3>2. IsFiniteSet(1..5)
      BY NumbersUpTo
    <3> HIDE DEF same
    <3> QED BY <1>1, <3>1, <3>2, FS_Subset
  <2>2. key \in [same -> 1..5]
    BY <1>1
  <2>3. ASSUME NEW h \in 1..5
        PROVE  size[<<h, h>>] = Cardinality({k \in same : key[k] = h})
    <3>1. \A k \in scored : <<Human(k), Judge(k)>> = <<h, h>> <=> Human(k) = h /\ Judge(k) = h
      OBVIOUS
    <3>2. \A k \in scored : Human(k) = h /\ Judge(k) = h <=> Judge(k) - Human(k) = 0 /\ Human(k) = h
      BY <1>1
    <3>3. {k \in scored : <<Human(k), Judge(k)>> = <<h, h>>} = {k \in same : key[k] = h}
      BY <3>1, <3>2
    <3>4. size[<<h, h>>] = Cardinality({k \in scored : <<Human(k), Judge(k)>> = <<h, h>>})
      OBVIOUS
    <3> QED BY <3>3, <3>4
  <2>4. diagonal = [h \in 1..5 |-> Cardinality({k \in same : key[k] = h})]
    <3> HIDE DEF size, same, key
    <3> QED BY <2>3
  <2>5. SumFunctionOnSet(diagonal, 1..5) = Cardinality(same)
    <3> HIDE DEF same, key, diagonal
    <3> QED BY <2>1, <2>2, <2>4, SumGroups
  <2>6. DOMAIN diagonal = 1..5
    OBVIOUS
  <2> HIDE DEF diagonal, same, size
  <2>7. SumFunction(diagonal) = Cardinality(same)
    BY <2>5, <2>6 DEF SumFunction
  <2> QED BY <2>7 DEF diagonal
<1> HIDE DEF size, diff, same
<1> QED BY <1>2, <1>3, <1>4

\* The rows of anyone but the primary annotator change nothing of the report but
\* what it says of two annotators.
LEMMA OthersIgnored ==
    ASSUME GoldAssumption, Rows # {}, NEW limit
    PROVE  LET r == Calibrated(limit)
               own == {k \in Rows : k[2] = r.primaryAnnotator}
               alone == ComputeCalibration([k \in own |-> Items(limit)[k]], Cardinality(Cases))
           IN [alone EXCEPT !.interAnnotator = r.interAnnotator] = r
<1> DEFINE p == PrimaryAnnotator(Items(limit))
           mine == {k \in Rows : k[2] = p}
           items == [k \in mine |-> Items(limit)[k]]
           Report(primary, total, with, judged, unjudged, binary, listed, scores, inter) ==
              [primaryAnnotator |-> primary, totalCases |-> total, casesWithGold |-> with,
               goldJudged |-> judged, goldUnjudged |-> unjudged, binary |-> binary,
               disagreements |-> listed, scores |-> scores, interAnnotator |-> inter]
           Told(own, inter) ==
              Report(p, Cardinality(Cases), Cardinality({k[1] : k \in DOMAIN own}),
                     Cardinality({k \in DOMAIN own : own[k].judgeHasOpinion}),
                     Cardinality({k \in DOMAIN own : ~own[k].judgeHasOpinion}),
                     computeBinary(own), collectDisagreements(own), computeScores(own), inter)
<1>1. Calibrated(limit) = Told(ItemsOf(Items(limit), p), Calibrated(limit).interAnnotator)
  BY DEF Calibrated, ComputeCalibration
<1>2. Calibrated(limit).primaryAnnotator = p
  BY DEF Calibrated, ComputeCalibration
<1>3. p \in Annotators(Items(limit)) /\ DOMAIN Items(limit) = Rows
  BY PrimaryHasMost, RowsFinite
<1>4. ItemsOf(Items(limit), p) = items
  BY <1>3 DEF ItemsOf, Items
<1>5. Annotators(items) = {p}
  BY <1>3 DEF Annotators
<1>6. PrimaryAnnotator(items) = p
  <2> DEFINE n == Cardinality({k \in DOMAIN items : k[2] = p})
  <2>1. DOMAIN items = mine /\ {k \in mine : k[2] = p} = mine
    OBVIOUS
  <2>2. p \in Nat
    BY <1>3, RowsFinite DEF Annotators, GoldAssumption
  <2>3. \A b \in {p} :
           \/ Cardinality({k \in DOMAIN items : k[2] = b}) < n
           \/ Cardinality({k \in DOMAIN items : k[2] = b}) = n /\ p <= b
    BY <2>2
  <2> HIDE DEF items, p, n
  <2> QED BY <1>5, <2>3 DEF PrimaryAnnotator, n
<1>7. ItemsOf(items, p) = items
  BY DEF ItemsOf
<1> DEFINE alone == ComputeCalibration(items, Cardinality(Cases))
<1>8. alone = Told(items, alone.interAnnotator)
  <2> HIDE DEF items, p
  <2> QED BY <1>6, <1>7 DEF ComputeCalibration
<1>9. \A own, a, b : [Told(own, a) EXCEPT !.interAnnotator = b] = Told(own, b)
  <2>1. \A c1, c2, c3, c4, c5, c6, c7, c8, a, b :
           [Report(c1, c2, c3, c4, c5, c6, c7, c8, a) EXCEPT !.interAnnotator = b]
              = Report(c1, c2, c3, c4, c5, c6, c7, c8, b)
    OBVIOUS
  <2> HIDE DEF Report
  <2> QED BY <2>1
<1> HIDE DEF Told, alone, items
<1>10. [alone EXCEPT !.interAnnotator = Calibrated(limit).interAnnotator] = Calibrated(limit)
  BY <1>1, <1>4, <1>8, <1>9
<1> QED BY <1>2, <1>10 DEF alone, items

\* The parts of the report tell one story: the list of disagreements and the
\* table, the matrix and the numbers made from it, and the primary annotator, on
\* whose rows alone it rests. (calibration.go:77-78, 91-94, 155-157.)
THEOREM Coherent == GoldAssumption => (GoldSpec => []ReportCoherent)
<1> SUFFICES ASSUME GoldAssumption PROVE GoldSpec => []ReportCoherent
  OBVIOUS
<1>1. ReportCoherent
  <2> SUFFICES ASSUME Rows # {}, NEW limit \in ReadLimits PROVE ReportCoherent!(limit)!2
    BY DEF ReportCoherent
  <2> DEFINE p == PrimaryAnnotator(Items(limit))
             own == ItemsOf(Items(limit), p)
             r == Calibrated(limit)
  <2>1. /\ r.primaryAnnotator = p /\ r.binary = computeBinary(own)
        /\ r.disagreements = collectDisagreements(own) /\ r.scores = computeScores(own)
    BY DEF Calibrated, ComputeCalibration
  <2>2. /\ DOMAIN own = {k \in Rows : k[2] = p}
        /\ \A k \in DOMAIN own : own[k].verdict = gold[k].verdict
    BY RowsFinite DEF ItemsOf, Items, Item
  <2>3. /\ IsFiniteSet(DOMAIN own)
        /\ \A k \in DOMAIN own : k[1] \in Nat
        /\ \A j, k \in DOMAIN own : j[1] = k[1] => j = k
    <3>1. DOMAIN own \in SUBSET Rows
      BY <2>2
    <3>2. IsFiniteSet(DOMAIN own)
      BY <3>1, RowsFinite, FS_Subset
    <3> QED BY <2>2, <3>1, <3>2, RowsFinite
  <2>4. collectDisagreements(own) \subseteq DOMAIN own
    BY DEF collectDisagreements
  <2> HIDE DEF own, r
  <2>5. {k \in r.disagreements : gold[k].verdict = "hallucinated"}
           = {k \in collectDisagreements(own) : own[k].verdict = "hallucinated"}
    BY <2>1, <2>2, <2>4
  <2>6. /\ Cardinality(r.disagreements)
              = Min({r.binary.falseNegative + r.binary.falsePositive, MaxDisagreements})
        /\ Cardinality({k \in r.disagreements : gold[k].verdict = "hallucinated"})
              = Min({r.binary.falseNegative, MaxDisagreements})
    <3>1. MaxDisagreements \in Nat
      BY DEF GoldAssumption
    <3> QED BY <2>1, <2>3, <2>5, <3>1, DisagreementsListed
  <2>7. /\ SumFunction([q \in (1..5) \X (1..5) |-> (q[2] - q[1]) * r.scores.confusion[q]])
              = r.scores.bias
        /\ SumFunction([h \in 1..5 |-> r.scores.confusion[<<h, h>>]]) = r.scores.exact
    BY <2>1, <2>3, MatrixSums
  <2>8. \A a \in GoldAnnotators :
           Cardinality({k \in Rows : k[2] = a}) <= Cardinality({k \in Rows : k[2] = p})
    BY PrimaryHasMost
  <2> QED BY <2>1, <2>6, <2>7, <2>8, OthersIgnored DEF r
<1> QED BY <1>1, PTL

-----------------------------------------------------------------------------
(* What is submitted *)

\* The configuration a template stands for.
Flat(stored) == [chunking   |-> stored.chunking,
                 top_k      |-> stored.retrieval.top_k,
                 generation |-> stored.generation,
                 judge      |-> stored.judge]

\* What the defaults fill in is complete, if it is not refused.
LEMMA GenerationFilled ==
    ASSUME SubmissionAssumption, NEW on \in Servers, NEW body \in BodySpace,
           resolveGenerationRequest(body.generation, on.generation) # Rejected
    PROVE  LET section == resolveGenerationRequest(body.generation, on.generation)
           IN  /\ section \in GenerationConfigs \cup {Absent}
               /\ section # Absent => ValidSection(section)
BY DEF SubmissionAssumption, BodySpace, resolveGenerationRequest, GenerationConfigs,
       ValidSection, Text, Given, coalesce

LEMMA JudgeFilled ==
    ASSUME SubmissionAssumption, NEW on \in Servers, NEW body \in BodySpace,
           resolveJudgeRequest(body.judge, on.judge) # Rejected
    PROVE  LET section == resolveJudgeRequest(body.judge, on.judge)
           IN  /\ section \in JudgeConfigs \cup {Absent}
               /\ section # Absent => ValidSection(section)
BY DEF SubmissionAssumption, BodySpace, resolveJudgeRequest, JudgeConfigs,
       ValidSection, Text, Given, coalesce

LEMMA ResolvedComplete ==
    ASSUME SubmissionAssumption, NEW on \in Servers, NEW body \in BodySpace,
           Resolve(body, on) # Rejected
    PROVE  Complete(Resolve(body, on))
<1> DEFINE chunking   == resolveChunkingRequest(body.chunking)
           topK       == resolveTopK(body.top_k)
           generation == resolveGenerationRequest(body.generation, on.generation)
           judge      == resolveJudgeRequest(body.judge, on.judge)
<1>1. /\ Rejected \notin {chunking, topK, generation, judge}
      /\ judge # Absent => generation # Absent
      /\ Resolve(body, on) = [chunking |-> chunking, top_k |-> topK,
                              generation |-> generation, judge |-> judge]
  BY DEF Resolve
<1>2. chunking \in ChunkingBodies /\ ValidChunking(chunking)
  BY <1>1 DEF resolveChunkingRequest, SubmissionAssumption, BodySpace
<1>3. topK \in 1 .. MaxTopK
  BY <1>1 DEF resolveTopK, SubmissionAssumption, BodySpace
<1>4. generation \in GenerationConfigs \cup {Absent} /\ (generation # Absent => ValidSection(generation))
  BY <1>1, GenerationFilled
<1>5. judge \in JudgeConfigs \cup {Absent} /\ (judge # Absent => ValidSection(judge))
  BY <1>1, JudgeFilled
<1> HIDE DEF chunking, topK, generation, judge
<1> QED BY <1>1, <1>2, <1>3, <1>4, <1>5 DEF Complete, ConfigSpace

\* To resolve what is complete changes nothing, whatever the defaults are.
LEMMA ResolvedAgain ==
    ASSUME SubmissionAssumption, NEW on \in Servers, NEW config, Complete(config)
    PROVE  Resolve(config, on) = config
<1>1. config.chunking \in ChunkingBodies /\ ValidChunking(config.chunking)
  BY DEF Complete, ConfigSpace
<1>2. resolveChunkingRequest(config.chunking) = config.chunking
  BY <1>1 DEF resolveChunkingRequest, SubmissionAssumption
<1>3. resolveTopK(config.top_k) = config.top_k /\ config.top_k \in Int
  BY DEF Complete, resolveTopK, SubmissionAssumption
<1>4. /\ resolveGenerationRequest(config.generation, on.generation) = config.generation
      /\ config.generation \in GenerationConfigs \cup {Absent}
  <2>1. config.generation \in GenerationConfigs \cup {Absent}
    BY DEF Complete, ConfigSpace
  <2>2. CASE config.generation # Absent
    BY <2>1, <2>2 DEF Complete, GenerationConfigs, SubmissionAssumption,
       resolveGenerationRequest, ValidSection, Text, Given, coalesce
  <2> QED BY <2>1, <2>2 DEF resolveGenerationRequest
<1>5. /\ resolveJudgeRequest(config.judge, on.judge) = config.judge
      /\ config.judge \in JudgeConfigs \cup {Absent}
  <2>1. config.judge \in JudgeConfigs \cup {Absent}
    BY DEF Complete, ConfigSpace
  <2>2. CASE config.judge # Absent
    BY <2>1, <2>2 DEF Complete, JudgeConfigs, SubmissionAssumption,
       resolveJudgeRequest, ValidSection, Text, Given, coalesce
  <2> QED BY <2>1, <2>2 DEF resolveJudgeRequest
<1>6. Rejected \notin {config.chunking, config.top_k, config.generation, config.judge}
  BY <1>1, <1>3, <1>4, <1>5 DEF SubmissionAssumption
<1>7. config = [chunking |-> config.chunking, top_k |-> config.top_k,
                generation |-> config.generation, judge |-> config.judge]
  BY DEF Complete, ConfigSpace
<1> QED BY <1>2, <1>3, <1>4, <1>5, <1>6, <1>7 DEF Complete, Resolve

\* The form of a page holds a complete configuration without loss, and a preview
\* takes it apart and puts it together again.
LEMMA ThroughForm ==
    ASSUME NEW stored, Complete(Flat(stored))
    PROVE  formToRunPayload(configToForm(stored)) = Flat(stored)
BY DEF formToRunPayload, configToForm, Flat

LEMMA SentAsStored ==
    /\ \A section \in GenerationConfigs : generationRequestFrom(section) = section
    /\ \A section \in JudgeConfigs : judgeRequestFrom(section) = section
BY DEF generationRequestFrom, judgeRequestFrom, GenerationConfigs, JudgeConfigs

\* What a snapshot says of a stage is there to be read again.
LEMMA ThroughSnapshot ==
    ASSUME NEW config, NEW on, NEW corpus, Complete(config)
    PROVE  /\ formToRunPayload(formFromRunSnapshot(BuildSnapshot(config, on, corpus))) = config
           /\ BuildSnapshot(config, on, corpus).chunking = config.chunking
<1> DEFINE snapshot == BuildSnapshot(config, on, corpus)
           Section(key) == IF key \in DOMAIN snapshot THEN snapshot[key] ELSE Absent
           stored == [chunking |-> snapshot.chunking, retrieval |-> [top_k |-> snapshot.top_k],
                      generation |-> Section("generation"), judge |-> Section("judge")]
<1>1. snapshot.chunking = config.chunking /\ snapshot.top_k = config.top_k
  BY DEF BuildSnapshot
<1>2. Section("generation") = config.generation
  BY DEF BuildSnapshot, OptionalSections
<1>3. Section("judge") = config.judge
  BY DEF BuildSnapshot, OptionalSections
<1>4. config = [chunking |-> config.chunking, top_k |-> config.top_k,
                generation |-> config.generation, judge |-> config.judge]
  BY DEF Complete, ConfigSpace
<1>5. Flat(stored) = config
  <2> HIDE DEF snapshot, Section
  <2> QED BY <1>1, <1>2, <1>3, <1>4 DEF Flat
<1>6. formFromRunSnapshot(snapshot) = configToForm(stored)
  BY DEF formFromRunSnapshot
<1> HIDE DEF snapshot, stored
<1> QED BY <1>1, <1>5, <1>6, ThroughForm DEF snapshot

\* A template is complete; a run stores what its body resolved to.
SubmissionInv ==
    /\ SubmissionTypeOK
    /\ run # Empty =>
          LET config == Resolve(run.body, run.under)
          IN  /\ run.body \in BodySpace
              /\ config # Rejected
              /\ run.stored = Fingerprint(config, run.under, run.corpus)

LEMMA StoreTemplateInv ==
    ASSUME SubmissionAssumption, SubmissionInv, NEW body \in BodySpace, NEW formTopK,
           StoreTemplate(body, formTopK)
    PROVE  SubmissionInv'
<1> DEFINE config == Resolve(body, server)
<1>1. config # Rejected /\ template'.config = configFromBody(body, server, TRUE)
  BY DEF StoreTemplate, configFromBody
<1>2. Complete(config)
  BY <1>1, ResolvedComplete DEF SubmissionInv, SubmissionTypeOK
<1>3. Flat(template'.config) = config
  <2>1. template'.config = [chunking |-> config.chunking, retrieval |-> [top_k |-> config.top_k],
                            generation |-> config.generation, judge |-> config.judge]
    BY <1>1 DEF StoreTemplate, configFromBody
  <2> HIDE DEF config
  <2> QED BY <1>2, <2>1 DEF Flat, Complete, ConfigSpace
<1>4. Complete(Flat(template'.config)) /\ server' = server /\ run' = run
  BY <1>2, <1>3 DEF StoreTemplate
<1> QED BY <1>4 DEF SubmissionInv, SubmissionTypeOK, Flat

LEMMA SubmitInv ==
    ASSUME SubmissionInv, NEW body \in BodySpace, NEW corpus \in Corpora, Submit(body, corpus)
    PROVE  SubmissionInv'
BY DEF Submit, SubmissionInv, SubmissionTypeOK

\* What the pages send is something a request can hold.
LEMMA FormBody ==
    ASSUME SubmissionAssumption, NEW form \in Forms
    PROVE  formToConfig(form) \in BodySpace
BY DEF SubmissionAssumption, formToConfig, formToRunPayload, BodySpace,
       GenerationConfigs, JudgeConfigs

LEMMA CompleteIsBody ==
    ASSUME NEW config, Complete(config)
    PROVE  config \in BodySpace
BY DEF Complete, ConfigSpace, BodySpace, GenerationConfigs, JudgeConfigs

\* A run sent again is the configuration its snapshot was made of.
LEMMA RunAgain ==
    ASSUME SubmissionAssumption, SubmissionInv, run # Empty
    PROVE  LET config == Resolve(run.body, run.under)
           IN  /\ Complete(config)
               /\ formToRunPayload(formFromRunSnapshot(run.stored.snapshot)) = config
               /\ run.stored.snapshot.chunking = config.chunking
<1> DEFINE config == Resolve(run.body, run.under)
<1>1. Complete(config)
  BY ResolvedComplete DEF SubmissionInv, SubmissionTypeOK
<1>2. run.stored.snapshot = BuildSnapshot(config, run.under, run.corpus)
  BY DEF SubmissionInv, Fingerprint
<1> HIDE DEF config
<1>3. QED BY <1>1, <1>2, ThroughSnapshot DEF config

LEMMA StepSubmission ==
    SubmissionAssumption /\ SubmissionInv /\ [SubmissionNext]_submissionVars => SubmissionInv'
<1> SUFFICES ASSUME SubmissionAssumption, SubmissionInv, [SubmissionNext]_submissionVars
             PROVE  SubmissionInv'
  OBVIOUS
<1>1. CASE UNCHANGED submissionVars
  BY <1>1 DEF SubmissionInv, SubmissionTypeOK, submissionVars
<1>2. CASE Restart
  BY <1>2 DEF Restart, SubmissionInv, SubmissionTypeOK
<1>3. ASSUME NEW body \in Bodies, CreatePipelineProfile(body) \/ UpdatePipelineProfile(body)
      PROVE  SubmissionInv'
  BY <1>3, StoreTemplateInv DEF CreatePipelineProfile, UpdatePipelineProfile, SubmissionAssumption
<1>4. ASSUME NEW form \in Forms, SaveForm(form) PROVE SubmissionInv'
  BY <1>4, FormBody, StoreTemplateInv DEF SaveForm
<1>5. CASE DeletePipelineProfile
  BY <1>5 DEF DeletePipelineProfile, SubmissionInv, SubmissionTypeOK
<1>6. ASSUME NEW body \in Bodies, NEW corpus \in Corpora, Submit(body, corpus)
      PROVE  SubmissionInv'
  BY <1>6, SubmitInv DEF SubmissionAssumption
<1>7. ASSUME NEW corpus \in Corpora, SubmitTemplate(corpus) PROVE SubmissionInv'
  <2>1. Complete(Flat(template.config))
    BY <1>7 DEF SubmitTemplate, SubmissionInv, SubmissionTypeOK, Flat
  <2> QED BY <1>7, <2>1, ThroughForm, CompleteIsBody, SubmitInv DEF SubmitTemplate
<1>8. CASE Rerun
  <2>1. run # Empty /\ run.corpus \in Corpora
    BY <1>8 DEF Rerun, SubmissionInv, SubmissionTypeOK
  <2> QED BY <1>8, <2>1, RunAgain, CompleteIsBody, SubmitInv DEF Rerun
<1> QED BY <1>1, <1>2, <1>3, <1>4, <1>5, <1>6, <1>7, <1>8 DEF SubmissionNext

LEMMA SubmissionAlways == SubmissionAssumption => (SubmissionSpec => []SubmissionInv)
<1> SUFFICES ASSUME SubmissionAssumption PROVE SubmissionSpec => []SubmissionInv
  OBVIOUS
<1>1. SubmissionInit => SubmissionInv
  BY DEF SubmissionInit, SubmissionInv, SubmissionTypeOK
<1>2. SubmissionInv /\ [SubmissionNext]_submissionVars => SubmissionInv'
  BY StepSubmission
<1> QED BY <1>1, <1>2, PTL DEF SubmissionSpec

\* A stored template is complete and valid, whatever its request left out.
\* (submit_config.go:117-126, pipeline_profiles.go:303-380.)
THEOREM TemplatesComplete == SubmissionAssumption => (SubmissionSpec => []SubmissionTypeOK)
<1>1. SubmissionInv => SubmissionTypeOK
  BY DEF SubmissionInv
<1> QED BY <1>1, SubmissionAlways, PTL

\* The preview is, to the letter, what the server stores for the same body.
\* (process.md:634.)
THEOREM Foretold == SubmissionAssumption => (SubmissionSpec => []PreviewForetells)
<1> SUFFICES ASSUME SubmissionAssumption PROVE SubmissionSpec => []PreviewForetells
  OBVIOUS
<1>1. SubmissionInv => PreviewForetells
  <2> SUFFICES ASSUME SubmissionInv, run # Empty
               PROVE  /\ Preview(run.body, run.under, run.corpus) = run.stored
                      /\ collectionNameOf(run) = run.stored.collection
    BY DEF PreviewForetells
  <2> DEFINE config == Resolve(run.body, run.under)
             stored == configFromBody(run.body, run.under, FALSE)
             again  == [chunking   |-> stored.chunking,
                        top_k      |-> stored.retrieval.top_k,
                        generation |-> IF stored.generation = Absent THEN Absent
                                       ELSE generationRequestFrom(stored.generation),
                        judge      |-> IF stored.judge = Absent THEN Absent
                                       ELSE judgeRequestFrom(stored.judge)]
  <2>1. /\ Complete(config) /\ config # Rejected /\ run.under \in Servers
        /\ run.stored = Fingerprint(config, run.under, run.corpus)
        /\ run.stored.snapshot.chunking = config.chunking
    BY RunAgain DEF SubmissionInv, SubmissionTypeOK
  <2>2. stored = [chunking |-> config.chunking, retrieval |-> [top_k |-> config.top_k],
                  generation |-> config.generation, judge |-> config.judge]
    BY <2>1 DEF configFromBody
  <2>3. stored # Rejected
    <3> HIDE DEF config, stored
    <3> QED BY <2>1, <2>2 DEF Complete, ConfigSpace, StoredSpace, SubmissionAssumption
  <2>4. again = config
    <3> HIDE DEF config, stored
    <3>1. /\ config.generation \in GenerationConfigs \cup {Absent}
          /\ config.judge \in JudgeConfigs \cup {Absent}
          /\ config = [chunking |-> config.chunking, top_k |-> config.top_k,
                       generation |-> config.generation, judge |-> config.judge]
      BY <2>1 DEF Complete, ConfigSpace
    <3> QED BY <2>2, <3>1, SentAsStored
  <2>5. Resolve(again, run.under) = config
    BY <2>1, <2>4, ResolvedAgain
  <2>6. Preview(run.body, run.under, run.corpus) = Fingerprint(config, run.under, run.corpus)
    <3>1. Preview(run.body, run.under, run.corpus) =
             IF stored = Rejected THEN Rejected
             ELSE IF Resolve(again, run.under) = Rejected THEN Rejected
                  ELSE Fingerprint(Resolve(again, run.under), run.under, run.corpus)
      BY DEF Preview
    <3> HIDE DEF config, stored, again
    <3> QED BY <2>1, <2>3, <2>5, <3>1
  <2> HIDE DEF config
  <2> QED BY <2>1, <2>6 DEF collectionNameOf, chunkingOf, Fingerprint
<1> QED BY <1>1, SubmissionAlways, PTL

\* A template means the same under whatever defaults the server has later.
\* (pipeline_profiles.go:303-380.)
THEOREM Frozen == SubmissionAssumption => (SubmissionSpec => []TemplateFrozen)
<1> SUFFICES ASSUME SubmissionAssumption PROVE SubmissionSpec => []TemplateFrozen
  OBVIOUS
<1>1. SubmissionInv => TemplateFrozen
  <2> SUFFICES ASSUME SubmissionInv, template # Empty PROVE TemplateFrozen
    BY DEF TemplateFrozen
  <2>1. Complete(Flat(template.config)) /\ server \in Servers
    BY DEF SubmissionInv, SubmissionTypeOK, Flat
  <2>2. Resolve(formToRunPayload(configToForm(template.config)), server) = Flat(template.config)
    BY <2>1, ThroughForm, ResolvedAgain
  <2>3. Flat(template.config) # Rejected
    BY <2>1 DEF Complete, SubmissionAssumption
  <2> QED BY <2>2, <2>3 DEF TemplateFrozen, Flat
<1> QED BY <1>1, SubmissionAlways, PTL

\* An old run, sent again from its snapshot, is the same run under any defaults
\* of generation and judge. (web/src/utils/rerun.ts.)
THEOREM Reproduced == SubmissionAssumption => (SubmissionSpec => []RerunReproduces)
<1> SUFFICES ASSUME SubmissionAssumption PROVE SubmissionSpec => []RerunReproduces
  OBVIOUS
<1>1. SubmissionInv => RerunReproduces
  <2> SUFFICES ASSUME SubmissionInv, run # Empty, run.under.embedding = server.embedding
               PROVE  RerunReproduces
    BY DEF RerunReproduces
  <2> DEFINE config == Resolve(run.body, run.under)
  <2>1. /\ Complete(config) /\ config # Rejected /\ server \in Servers
        /\ run.stored = Fingerprint(config, run.under, run.corpus)
        /\ formToRunPayload(formFromRunSnapshot(run.stored.snapshot)) = config
    BY RunAgain DEF SubmissionInv, SubmissionTypeOK
  <2> HIDE DEF config
  <2>2. Resolve(config, server) = config
    BY <2>1, ResolvedAgain
  <2>3. Fingerprint(config, server, run.corpus) = Fingerprint(config, run.under, run.corpus)
    BY DEF Fingerprint, BuildSnapshot
  <2> QED BY <2>1, <2>2, <2>3 DEF RerunReproduces
<1> QED BY <1>1, SubmissionAlways, PTL

-----------------------------------------------------------------------------
(* Annotations: what a request may write was decided when it was checked, so  *)
(* the invariant is about what it carries: a transition that was legal from    *)
(* the row it has read.                                                        *)

\* Rows and requests, without the bound on the ids.
AnyRow == [id : Nat, status : Statuses, reason : Reasons]

AnyRequest == [op : {"post", "patch", "delete"}, key : RunCases \cup {NoAnnotation},
               id : Nat, sent : Statuses \cup {Absent},
               status : Statuses \cup {Absent}, reason : Reasons \cup {Absent},
               existing : AnyRow \cup {NoAnnotation}]

AnnotationShape ==
    /\ livePairs \in SUBSET RunCases
    /\ rows \in [RunCases -> AnyRow \cup {NoAnnotation}]
    /\ nextAnnotation \in Nat
    /\ handler \in [Editors -> {"ready", "update", "create"}]
    /\ carried \in [Editors -> AnyRequest \cup {NoAnnotation}]
    /\ answer \in [Editors -> {"none", "ok", "conflict", "not_found", "error"}]

\* A request about to update carries a legal transition from the row it has
\* read, or no status at all.
Checked(r) ==
    /\ r \in AnyRequest
    /\ r.existing \in AnyRow
    /\ \/ r.status = Absent
       \/ r.status \in Statuses /\ canTransition(r.existing.status, r.status)

\* One about to insert knows its pair and its status.
Insertable(r) == r \in AnyRequest /\ r.key \in RunCases /\ r.status \in Statuses

CheckedInv ==
    \A c \in Editors :
        /\ handler[c] = "update" => Checked(carried[c])
        /\ handler[c] = "create" => Insertable(carried[c])

AnnotationInv == AnnotationShape /\ CheckedInv

\* The assumption, without its numbers.
LEMMA Markers ==
    ASSUME AnnotationAssumption
    PROVE  /\ Absent \notin Statuses /\ Absent \notin Reasons /\ "" \in Reasons
           /\ NoAnnotation \notin AnyRow
BY DEF AnnotationAssumption, AnyRow

\* The statuses that may follow one another are those of the table, and one of
\* them repeated.
LEMMA Transitions ==
    ASSUME NEW from, NEW to, canTransition(from, to), from # to
    PROVE  <<from, to>> \in LegalMoves
BY DEF canTransition, LegalMoves

LEMMA AnnotationsInitInv == AnnotationsInit => AnnotationInv
BY DEF AnnotationsInit, AnnotationInv, AnnotationShape, CheckedInv

\* Only request c has moved, to pc p.
Moved(c, p) ==
    /\ handler' \in [Editors -> {"ready", "update", "create"}]
    /\ answer' \in [Editors -> {"none", "ok", "conflict", "not_found", "error"}]
    /\ carried' \in [Editors -> AnyRequest \cup {NoAnnotation}]
    /\ handler'[c] = p
    /\ \A d \in Editors \ {c} : handler'[d] = handler[d] /\ carried'[d] = carried[d]

\* A request that is answered, and one that goes on.
Answers == {"ok", "conflict", "not_found", "error"}

LEMMA AnswerSteps ==
    ASSUME AnnotationShape, NEW c \in Editors, NEW r \in AnyRequest, NEW a \in Answers, Answered(c, a, r)
    PROVE  Moved(c, "ready") /\ answer'[c] = a
<1>1. [r EXCEPT !.existing = NoAnnotation] \in AnyRequest
  BY DEF AnyRequest
<1> DEFINE q == IF a \in {"conflict", "not_found"} THEN [r EXCEPT !.existing = NoAnnotation] ELSE NoAnnotation
<1>2. q \in AnyRequest \cup {NoAnnotation}
  BY <1>1
<1>3. carried' = [carried EXCEPT ![c] = q]
  BY DEF Answered
<1> HIDE DEF q
<1> QED BY <1>2, <1>3 DEF Answered, AnnotationShape, Moved, Answers

LEMMA GoesOnSteps ==
    ASSUME AnnotationShape, NEW c \in Editors, NEW r \in AnyRequest, NEW next \in {"update", "create"},
           Proceeds(c, next, r)
    PROVE  Moved(c, next) /\ carried'[c] = r /\ answer'[c] = "none"
BY DEF Proceeds, AnnotationShape, Moved

\* What the other requests carry stays checked.
LEMMA KeepsChecked ==
    ASSUME CheckedInv, NEW c \in Editors, NEW p, Moved(c, p),
           p = "update" => Checked(carried[c])',
           p = "create" => Insertable(carried[c])'
    PROVE  CheckedInv'
BY DEF CheckedInv, Moved, Checked, Insertable, AnyRequest, AnyRow

\* An answer keeps the invariant whatever it has written to the table.
LEMMA AnswerInv ==
    ASSUME AnnotationInv, NEW c \in Editors, NEW r \in AnyRequest, NEW a \in Answers,
           Answered(c, a, r), UNCHANGED livePairs,
           rows' \in [RunCases -> AnyRow \cup {NoAnnotation}], nextAnnotation' \in Nat
    PROVE  AnnotationInv'
<1>1. Moved(c, "ready")
  BY AnswerSteps DEF AnnotationInv
<1>2. CheckedInv'
  BY <1>1, KeepsChecked DEF AnnotationInv
<1> QED BY <1>1, <1>2 DEF AnnotationInv, AnnotationShape, Moved

\* A request that goes on keeps it when it has been checked.
LEMMA GoesOnInv ==
    ASSUME AnnotationInv, NEW c \in Editors, NEW r \in AnyRequest,
           NEW next \in {"update", "create"}, Proceeds(c, next, r),
           next = "update" => Checked(r),
           next = "create" => Insertable(r),
           UNCHANGED <<livePairs, rows, nextAnnotation>>
    PROVE  AnnotationInv'
<1>1. Moved(c, next) /\ carried'[c] = r
  BY GoesOnSteps DEF AnnotationInv
<1>2. CheckedInv'
  BY <1>1, KeepsChecked DEF AnnotationInv, Checked, Insertable
<1> QED BY <1>1, <1>2 DEF AnnotationInv, AnnotationShape, Moved

LEMMA PostAnnotationInv ==
    ASSUME AnnotationAssumption, AnnotationInv, NEW c \in Editors, NEW k \in RunCases,
           NEW sent \in Statuses \cup {Absent}, NEW reason \in Reasons \cup {Absent},
           PostAnnotation(c, k, sent, reason)
    PROVE  AnnotationInv'
<1> DEFINE status == PostStatus(sent)
           r == Carried("post", k, 0, sent, status, reason, rows[k])
<1>1. status \in Statuses
  BY DEF PostStatus, coalesce, Statuses
<1>2. rows[k] \in AnyRow \cup {NoAnnotation}
  BY DEF AnnotationInv, AnnotationShape
<1>3. r \in AnyRequest /\ r.key = k /\ r.status = status /\ r.existing = rows[k]
  BY <1>1, <1>2 DEF Carried, AnyRequest
<1>4. UNCHANGED <<livePairs, rows, nextAnnotation>>
  BY DEF PostAnnotation
<1>5. \/ rows[k] # NoAnnotation /\ Answered(c, "conflict", r)
      \/ rows[k] # NoAnnotation /\ canTransition(rows[k].status, status) /\ Proceeds(c, "update", r)
      \/ Proceeds(c, "create", r)
  BY DEF PostAnnotation
<1> HIDE DEF r, status
<1>6. rows' \in [RunCases -> AnyRow \cup {NoAnnotation}] /\ nextAnnotation' \in Nat /\ "conflict" \in Answers
  BY <1>4 DEF AnnotationInv, AnnotationShape, Answers
<1>7. CASE Answered(c, "conflict", r)
  BY <1>3, <1>4, <1>6, <1>7, AnswerInv
<1>8. CASE rows[k] # NoAnnotation /\ canTransition(rows[k].status, status) /\ Proceeds(c, "update", r)
  <2>1. Checked(r)
    BY <1>1, <1>2, <1>3, <1>8 DEF Checked
  <2> QED BY <1>3, <1>4, <1>8, <2>1, GoesOnInv
<1>9. CASE Proceeds(c, "create", r)
  <2>1. Insertable(r)
    BY <1>1, <1>3 DEF Insertable
  <2> QED BY <1>3, <1>4, <1>9, <2>1, GoesOnInv
<1> QED BY <1>5, <1>7, <1>8, <1>9

LEMMA PatchAnnotationInv ==
    ASSUME AnnotationAssumption, AnnotationInv, NEW c \in Editors, NEW i \in Nat,
           NEW sent \in Statuses \cup {Absent}, NEW reason \in Reasons \cup {Absent},
           PatchAnnotation(c, i, sent, reason)
    PROVE  AnnotationInv'
<1>1. UNCHANGED <<livePairs, rows, nextAnnotation>>
  BY DEF PatchAnnotation
<1>2. /\ rows' \in [RunCases -> AnyRow \cup {NoAnnotation}] /\ nextAnnotation' \in Nat
      /\ "conflict" \in Answers /\ "not_found" \in Answers
  BY <1>1 DEF AnnotationInv, AnnotationShape, Answers
<1>3. CASE Answered(c, "not_found", Carried("patch", NoAnnotation, i, sent, sent, reason, NoAnnotation))
  <2> DEFINE r == Carried("patch", NoAnnotation, i, sent, sent, reason, NoAnnotation)
  <2>1. r \in AnyRequest
    BY DEF Carried, AnyRequest
  <2>2. Answered(c, "not_found", r)
    BY <1>3
  <2> HIDE DEF r
  <2> QED BY <1>1, <1>2, <2>1, <2>2, AnswerInv
<1>4. ASSUME NEW k \in Listed,
             LET r == Carried("patch", k, i, sent, sent, reason, rows[k]) IN
               IF sent = Absent \/ canTransition(rows[k].status, sent)
               THEN Proceeds(c, "update", r)
               ELSE Answered(c, "conflict", r)
      PROVE  AnnotationInv'
  <2> DEFINE r == Carried("patch", k, i, sent, sent, reason, rows[k])
  <2>1. k \in RunCases /\ rows[k] \in AnyRow
    BY DEF Listed, Stored, AnnotationInv, AnnotationShape
  <2>2. r \in AnyRequest /\ r.status = sent /\ r.existing = rows[k]
    BY <2>1 DEF Carried, AnyRequest
  <2>3. \/ (sent = Absent \/ canTransition(rows[k].status, sent)) /\ Proceeds(c, "update", r)
        \/ Answered(c, "conflict", r)
    BY <1>4
  <2> HIDE DEF r
  <2>4. CASE (sent = Absent \/ canTransition(rows[k].status, sent)) /\ Proceeds(c, "update", r)
    <3>1. Checked(r)
      BY <2>1, <2>2, <2>4 DEF Checked
    <3> QED BY <1>1, <2>2, <2>4, <3>1, GoesOnInv
  <2>5. CASE Answered(c, "conflict", r)
    BY <1>1, <1>2, <2>2, <2>5, AnswerInv
  <2> QED BY <2>3, <2>4, <2>5
<1> QED BY <1>3, <1>4 DEF PatchAnnotation

\* A merged row keeps its id, and its fields are the row's or the request's.
LEMMA MergedRow ==
    ASSUME NEW row \in AnyRow, NEW r \in AnyRequest
    PROVE  /\ MergedInto(row, r) \in AnyRow
           /\ MergedInto(row, r).id = row.id
           /\ MergedInto(row, r).status = coalesce(r.status, row.status)
           /\ MergedInto(row, r).reason = coalesce(r.reason, row.reason)
<1>1. coalesce(r.status, row.status) \in Statuses /\ coalesce(r.reason, row.reason) \in Reasons
  BY DEF coalesce, AnyRequest, AnyRow
<1> QED BY <1>1 DEF MergedInto, AnyRow

LEMMA UpdateAnnotationInv ==
    ASSUME AnnotationAssumption, AnnotationInv, NEW c \in Editors, UpdateAnnotation(c)
    PROVE  AnnotationInv'
<1>1. carried[c] \in AnyRequest
  BY DEF UpdateAnnotation, AnnotationInv, CheckedInv, Checked
<1>2. PICK a \in Answers : Answered(c, a, carried[c])
  BY DEF UpdateAnnotation, Answers
<1>3. rows' \in [RunCases -> AnyRow \cup {NoAnnotation}]
  <2>1. ASSUME NEW k \in Stored, rows' = [rows EXCEPT ![k] = MergedInto(rows[k], carried[c])]
        PROVE  rows' \in [RunCases -> AnyRow \cup {NoAnnotation}]
    <3>1. k \in RunCases /\ rows[k] \in AnyRow
      BY DEF Stored, AnnotationInv, AnnotationShape
    <3> QED BY <1>1, <2>1, <3>1, MergedRow DEF AnnotationInv, AnnotationShape
  <2> QED BY <2>1 DEF UpdateAnnotation, AnnotationInv, AnnotationShape
<1>4. nextAnnotation' \in Nat /\ UNCHANGED livePairs
  BY DEF UpdateAnnotation, AnnotationInv, AnnotationShape
<1> QED BY <1>1, <1>2, <1>3, <1>4, AnswerInv

LEMMA CreateAnnotationInv ==
    ASSUME AnnotationAssumption, AnnotationInv, NEW c \in Editors, CreateAnnotation(c)
    PROVE  AnnotationInv'
<1>1. Insertable(carried[c])
  BY DEF CreateAnnotation, AnnotationInv, CheckedInv
<1>2. PICK a \in Answers : Answered(c, a, carried[c])
  BY DEF CreateAnnotation, Answers
<1>3. carried[c] \in AnyRequest /\ carried[c].key \in RunCases
  BY <1>1 DEF Insertable
<1> DEFINE row == [id |-> nextAnnotation, status |-> carried[c].status,
                   reason |-> coalesce(carried[c].reason, "")]
<1>4. row \in AnyRow
  <2>1. coalesce(carried[c].reason, "") \in Reasons
    BY <1>1, Markers DEF Insertable, AnyRequest, coalesce
  <2> QED BY <1>1, <2>1 DEF Insertable, AnyRow, AnnotationInv, AnnotationShape
<1>5. \/ rows' = [rows EXCEPT ![carried[c].key] = row] /\ nextAnnotation' = nextAnnotation + 1
      \/ UNCHANGED <<rows, nextAnnotation>>
  BY DEF CreateAnnotation
<1> HIDE DEF row
<1>6. rows' \in [RunCases -> AnyRow \cup {NoAnnotation}] /\ nextAnnotation' \in Nat
  BY <1>3, <1>4, <1>5 DEF AnnotationInv, AnnotationShape
<1>7. UNCHANGED livePairs
  BY DEF CreateAnnotation
<1> QED BY <1>2, <1>3, <1>6, <1>7, AnswerInv

LEMMA DeleteAnnotationInv ==
    ASSUME AnnotationAssumption, AnnotationInv, NEW c \in Editors, NEW i \in Nat, DeleteAnnotation(c, i)
    PROVE  AnnotationInv'
<1> DEFINE r == Carried("delete", NoAnnotation, i, Absent, Absent, Absent, NoAnnotation)
<1>1. r \in AnyRequest
  BY DEF Carried, AnyRequest
<1>2. PICK a \in Answers : Answered(c, a, r)
  BY DEF DeleteAnnotation, Answers
<1> HIDE DEF r
<1>3. /\ rows' \in [RunCases -> AnyRow \cup {NoAnnotation}] /\ nextAnnotation' \in Nat
      /\ UNCHANGED livePairs
  BY DEF DeleteAnnotation, AnnotationInv, AnnotationShape
<1> QED BY <1>1, <1>2, <1>3, AnswerInv

LEMMA DeleteRunCaseInv ==
    ASSUME AnnotationInv, NEW k \in RunCases, DeleteRunCase(k)
    PROVE  AnnotationInv'
BY DEF DeleteRunCase, AnnotationInv, AnnotationShape, CheckedInv, Checked, Insertable

\* Every step of a request.
AnnotationStep(c) ==
    \/ \E sent \in Statuses \cup {Absent}, reason \in Reasons \cup {Absent} :
          \/ \E k \in RunCases : PostAnnotation(c, k, sent, reason)
          \/ \E i \in Nat : PatchAnnotation(c, i, sent, reason)
    \/ UpdateAnnotation(c)
    \/ CreateAnnotation(c)
    \/ \E i \in Nat : DeleteAnnotation(c, i)

LEMMA AnnotationSteps ==
    ASSUME AnnotationShape, AnnotationsNext
    PROVE  (\E c \in Editors : AnnotationStep(c)) \/ \E k \in RunCases : DeleteRunCase(k)
<1>1. 1..nextAnnotation - 1 \subseteq Nat /\ livePairs \subseteq RunCases
  BY DEF AnnotationShape
<1> QED BY <1>1 DEF AnnotationsNext, AnnotationStep

LEMMA AnnotationsNextInv == AnnotationAssumption /\ AnnotationInv /\ [AnnotationsNext]_annotationVars => AnnotationInv'
<1> SUFFICES ASSUME AnnotationAssumption, AnnotationInv, [AnnotationsNext]_annotationVars PROVE AnnotationInv'
  OBVIOUS
<1>1. CASE UNCHANGED annotationVars
  BY <1>1 DEF annotationVars, AnnotationInv, AnnotationShape, CheckedInv, Checked, Insertable
<1>2. ASSUME NEW c \in Editors, AnnotationStep(c) PROVE AnnotationInv'
  BY <1>2, PostAnnotationInv, PatchAnnotationInv, UpdateAnnotationInv, CreateAnnotationInv, DeleteAnnotationInv DEF AnnotationStep
<1> QED BY <1>1, <1>2, AnnotationSteps, DeleteRunCaseInv DEF AnnotationInv

LEMMA AnnotationsInvariant == AnnotationAssumption => (AnnotationsSpec => []AnnotationInv)
<1> SUFFICES ASSUME AnnotationAssumption PROVE AnnotationsSpec => []AnnotationInv
  OBVIOUS
<1>1. AnnotationInv /\ [AnnotationsNext]_annotationVars => AnnotationInv'
  BY AnnotationsNextInv
<1> QED BY <1>1, AnnotationsInitInv, PTL DEF AnnotationsSpec

-----------------------------------------------------------------------------
(* What the invariant is for *)

\* A step that changes a stored row is the UPDATE of one request, and leaves
\* what Merged makes of the row and what this request carries.
LEMMA RowSteps ==
    ASSUME AnnotationAssumption, AnnotationInv, [AnnotationsNext]_annotationVars,
           NEW k \in RunCases, rows[k] # NoAnnotation, rows'[k] # NoAnnotation, rows'[k] # rows[k]
    PROVE  \E c \in Editors :
              /\ handler[c] = "update" /\ handler'[c] = "ready" /\ answer'[c] = "ok"
              /\ \A d \in Editors \ {c} : handler'[d] = handler[d]
              /\ Checked(carried[c])
              /\ carried[c].existing.id = rows[k].id
              /\ rows'[k] = MergedInto(rows[k], carried[c])
<1>0. AnnotationShape /\ CheckedInv
  BY DEF AnnotationInv
<1>1. ~UNCHANGED rows
  OBVIOUS
<1>2. PICK c \in Editors : AnnotationStep(c)
  <2>1. ASSUME NEW j \in RunCases, DeleteRunCase(j) PROVE FALSE
    BY <1>0, <2>1 DEF DeleteRunCase, AnnotationShape
  <2> QED BY <1>0, <1>1, <2>1, AnnotationSteps DEF annotationVars
<1>3. CASE UpdateAnnotation(c)
  <2>1. PICK j \in Stored : /\ rows[j].id = carried[c].existing.id
                           /\ rows' = [rows EXCEPT ![j] = MergedInto(rows[j], carried[c])]
                           /\ Answered(c, "ok", carried[c])
    BY <1>1, <1>3 DEF UpdateAnnotation
  <2>2. handler[c] = "update" /\ Checked(carried[c])
    BY <1>0, <1>3 DEF UpdateAnnotation, CheckedInv
  <2>3. j = k
    BY <1>0, <2>1 DEF AnnotationShape
  <2>4. Moved(c, "ready") /\ answer'[c] = "ok"
    <3>1. carried[c] \in AnyRequest /\ "ok" \in Answers
      BY <2>2 DEF Checked, Answers
    <3>2. AnnotationShape /\ Answered(c, "ok", carried[c])
      BY <1>0, <2>1
    <3> QED BY <3>1, <3>2, AnswerSteps
  <2>5. rows'[k] = MergedInto(rows[k], carried[c]) /\ carried[c].existing.id = rows[k].id
    BY <1>0, <2>1, <2>3 DEF AnnotationShape
  <2>6. handler'[c] = "ready" /\ \A d \in Editors \ {c} : handler'[d] = handler[d]
    BY <2>4 DEF Moved
  <2> QED BY <2>2, <2>4, <2>5, <2>6
<1>4. CASE CreateAnnotation(c)
  BY <1>0, <1>1, <1>4 DEF CreateAnnotation, AnnotationShape, CheckedInv, Insertable
<1>5. ASSUME NEW i \in Nat, DeleteAnnotation(c, i) PROVE FALSE
  BY <1>5 DEF DeleteAnnotation
<1>6. UpdateAnnotation(c) \/ CreateAnnotation(c) \/ \E i \in Nat : DeleteAnnotation(c, i)
  BY <1>1, <1>2 DEF AnnotationStep, PostAnnotation, PatchAnnotation
<1> QED BY <1>3, <1>4, <1>5, <1>6

-----------------------------------------------------------------------------
(* Theorems *)

\* A status moves along the state machine, unless the row was changed between
\* the check of the request that moves it and its write.
\* (http/annotations.go:46-50.)
THEOREM OnlyLegalMoves == AnnotationAssumption => (AnnotationsSpec => LegalUnlessOvertaken)
<1> SUFFICES ASSUME AnnotationAssumption PROVE AnnotationsSpec => LegalUnlessOvertaken
  OBVIOUS
<1> DEFINE Legal == \A k \in RunCases, c \in Editors :
              /\ SameRow(k) /\ Writes(c) /\ rows'[k].status # rows[k].status
              /\ carried[c].existing = rows[k]
              => <<rows[k].status, rows'[k].status>> \in LegalMoves
<1>1. AnnotationInv /\ [AnnotationsNext]_annotationVars => Legal
  <2> SUFFICES ASSUME AnnotationInv, [AnnotationsNext]_annotationVars, NEW k \in RunCases, NEW c \in Editors,
                      SameRow(k), Writes(c), rows'[k].status # rows[k].status,
                      carried[c].existing = rows[k]
               PROVE  <<rows[k].status, rows'[k].status>> \in LegalMoves
    OBVIOUS
  <2>1. PICK d \in Editors :
           /\ handler[d] = "update" /\ handler'[d] = "ready"
           /\ \A e \in Editors \ {d} : handler'[e] = handler[e]
           /\ Checked(carried[d]) /\ rows'[k] = MergedInto(rows[k], carried[d])
    BY RowSteps DEF SameRow
  <2>2. d = c
    BY <2>1 DEF Writes
  <2>3. carried[c] \in AnyRequest /\ rows[k] \in AnyRow
    BY <2>1, <2>2 DEF Checked
  <2>4. rows'[k].status = coalesce(carried[c].status, rows[k].status)
    BY <2>1, <2>2, <2>3, MergedRow
  <2>5. carried[c].status # Absent /\ rows'[k].status = carried[c].status
    BY <2>4 DEF coalesce
  <2>6. canTransition(rows[k].status, carried[c].status)
    BY <2>1, <2>2, <2>5 DEF Checked
  <2> QED BY <2>5, <2>6, Transitions
<1> HIDE DEF Legal
<1>2. AnnotationsSpec => [][Legal]_annotationVars
  BY <1>1, AnnotationsInvariant, PTL DEF AnnotationsSpec
<1> QED BY <1>2 DEF LegalUnlessOvertaken, Legal

\* A stored annotation changes only by the UPDATE of a request that has read it,
\* and only to what the request carries, however many requests interleave: first
\* submissions that come late write over nothing. (store/annotation.go:97-130.)
THEOREM FieldsKept == AnnotationAssumption => (AnnotationsSpec => NothingUnasked)
<1> SUFFICES ASSUME AnnotationAssumption PROVE AnnotationsSpec => NothingUnasked
  OBVIOUS
<1> DEFINE Asked(k) ==
              /\ rows'[k].id = rows[k].id
              /\ \E c \in Editors :
                   /\ Writes(c)
                   /\ carried[c].existing # NoAnnotation /\ carried[c].existing.id = rows[k].id
                   /\ rows'[k].reason \in {rows[k].reason, carried[c].reason}
                   /\ rows'[k].status \in {rows[k].status, carried[c].status}
           AllAsked == \A k \in RunCases :
              rows[k] # NoAnnotation /\ rows'[k] # NoAnnotation /\ rows'[k] # rows[k] => Asked(k)
<1>1. AnnotationInv /\ [AnnotationsNext]_annotationVars => AllAsked
  <2> SUFFICES ASSUME AnnotationInv, [AnnotationsNext]_annotationVars, NEW k \in RunCases,
                      rows[k] # NoAnnotation, rows'[k] # NoAnnotation, rows'[k] # rows[k]
               PROVE  Asked(k)
    OBVIOUS
  <2>1. PICK c \in Editors :
           /\ handler[c] = "update" /\ handler'[c] = "ready" /\ answer'[c] = "ok"
           /\ Checked(carried[c]) /\ carried[c].existing.id = rows[k].id
           /\ rows'[k] = MergedInto(rows[k], carried[c])
    BY RowSteps
  <2>2. carried[c] \in AnyRequest /\ rows[k] \in AnyRow /\ carried[c].existing # NoAnnotation
    BY <2>1, Markers DEF Checked, AnnotationInv, AnnotationShape
  <2>3. /\ rows'[k].id = rows[k].id
        /\ rows'[k].status = coalesce(carried[c].status, rows[k].status)
        /\ rows'[k].reason = coalesce(carried[c].reason, rows[k].reason)
    BY <2>1, <2>2, MergedRow
  <2> QED BY <2>1, <2>2, <2>3 DEF Writes, coalesce
<1> HIDE DEF Asked
<1>2. AnnotationsSpec => [][AllAsked]_annotationVars
  BY <1>1, AnnotationsInvariant, PTL DEF AnnotationsSpec
<1> QED BY <1>2 DEF NothingUnasked, Asked

-----------------------------------------------------------------------------
(* Types, with the bound on the ids *)

Creating == {c \in Editors : handler[c] = "create"}

\* Every request about to insert has an id left to it.
RoomInv ==
    /\ AnnotationsTypeOK
    /\ \A c \in Editors : handler[c] # "ready" => carried[c] \in AnnotationRequest
    /\ nextAnnotation + Cardinality(Creating) <= MaxAnnotations + 1

LEMMA AnnotationBound == AnnotationAssumption => MaxAnnotations \in Nat
    BY DEF AnnotationAssumption

LEMMA CreatingFinite ==
    AnnotationAssumption => IsFiniteSet(Creating) /\ Cardinality(Creating) \in Nat
<1> SUFFICES ASSUME AnnotationAssumption
             PROVE  IsFiniteSet(Creating) /\ Cardinality(Creating) \in Nat
    OBVIOUS
<1>1. IsFiniteSet(Creating)
    BY FS_Subset DEF AnnotationAssumption, Creating
<1> QED
    BY <1>1, FS_CardinalityType

\* The requests about to insert, when only one request moves.
LEMMA CreatingAfter ==
    ASSUME AnnotationAssumption, RoomInv, NEW c \in Editors, NEW p,
           handler' = [handler EXCEPT ![c] = p]
    PROVE  /\ Cardinality(Creating) \in Nat
           /\ Cardinality(Creating') = Cardinality(Creating)
                 + (IF p = "create" THEN 1 ELSE 0) - (IF handler[c] = "create" THEN 1 ELSE 0)
<1> DEFINE others == Creating \ {c}
<1>1. IsFiniteSet(Creating) /\ Cardinality(Creating) \in Nat
    BY CreatingFinite
<1>2. IsFiniteSet(others) /\ c \notin others
    BY <1>1, FS_Subset
<1>3. Cardinality(others) \in Nat
    BY <1>2, FS_CardinalityType
<1>4. Creating = IF handler[c] = "create" THEN others \cup {c} ELSE others
    BY DEF Creating
<1>5. Creating' = IF p = "create" THEN others \cup {c} ELSE others
    BY DEF Creating, RoomInv, AnnotationsTypeOK
<1>6. Cardinality(others \cup {c}) = Cardinality(others) + 1
    <2> HIDE DEF others
    <2> QED
        BY <1>2, FS_AddElement
<1> HIDE DEF others
<1> QED
    BY <1>1, <1>3, <1>4, <1>5, <1>6

LEMMA AnsweredRoom ==
    ASSUME AnnotationAssumption, RoomInv, NEW c \in Editors, NEW r \in AnnotationRequest,
           NEW a \in Answers, Answered(c, a, r), UNCHANGED livePairs,
           rows' \in [RunCases -> Row \cup {NoAnnotation}],
           nextAnnotation' \in Nat, 1 <= nextAnnotation',
           nextAnnotation' <= nextAnnotation + (IF handler[c] = "create" THEN 1 ELSE 0)
    PROVE  RoomInv'
<1>1. [r EXCEPT !.existing = NoAnnotation] \in AnnotationRequest
    BY DEF AnnotationRequest
<1> DEFINE q == IF a \in {"conflict", "not_found"} THEN [r EXCEPT !.existing = NoAnnotation] ELSE NoAnnotation
<1>2. q \in AnnotationRequest \cup {NoAnnotation}
    BY <1>1
<1>3. carried' = [carried EXCEPT ![c] = q]
    BY DEF Answered
<1> HIDE DEF q
<1>4. handler' = [handler EXCEPT ![c] = "ready"] /\ answer' = [answer EXCEPT ![c] = a]
    BY DEF Answered
<1>5. /\ Cardinality(Creating) \in Nat
      /\ Cardinality(Creating') = Cardinality(Creating) + 0 - (IF handler[c] = "create" THEN 1 ELSE 0)
    BY <1>4, CreatingAfter
<1>6. nextAnnotation' + Cardinality(Creating') <= MaxAnnotations + 1
      /\ nextAnnotation' \in 1..MaxAnnotations + 1
    <2>1. nextAnnotation + Cardinality(Creating) <= MaxAnnotations + 1
          /\ nextAnnotation \in Nat /\ MaxAnnotations \in Nat
        BY AnnotationBound DEF RoomInv, AnnotationsTypeOK
    <2>2. Cardinality(Creating') \in Nat
        <3>1. CASE handler[c] = "create"
            <4>1. c \in Creating /\ IsFiniteSet(Creating)
                BY <3>1, CreatingFinite DEF Creating
            <4>2. Cardinality(Creating) # 0
                BY <4>1, FS_EmptySet
            <4> QED
                BY <1>5, <3>1, <4>2
        <3>2. CASE handler[c] # "create"
            BY <1>5, <3>2
        <3> QED
            BY <3>1, <3>2
    <2> QED
        BY <1>5, <2>1, <2>2
<1>7. carried' \in [Editors -> AnnotationRequest \cup {NoAnnotation}]
    BY <1>2, <1>3 DEF RoomInv, AnnotationsTypeOK
<1>8. handler' \in [Editors -> {"ready", "update", "create"}]
      /\ answer' \in [Editors -> {"none", "ok", "conflict", "not_found", "error"}]
    BY <1>4 DEF RoomInv, AnnotationsTypeOK, Answers
<1>9. \A d \in Editors : handler'[d] # "ready" => carried'[d] \in AnnotationRequest
    BY <1>3, <1>4 DEF RoomInv, AnnotationsTypeOK
<1> QED
    BY <1>6, <1>7, <1>8, <1>9 DEF RoomInv, AnnotationsTypeOK

LEMMA ProceedsRoom ==
    ASSUME AnnotationAssumption, RoomInv, NEW c \in Editors, NEW r \in AnnotationRequest,
           NEW next \in {"update", "create"}, Proceeds(c, next, r), handler[c] = "ready",
           next = "create" => nextAnnotation + Cardinality(Creating) <= MaxAnnotations,
           UNCHANGED <<livePairs, rows, nextAnnotation>>
    PROVE  RoomInv'
<1>1. /\ handler' = [handler EXCEPT ![c] = next] /\ answer' = [answer EXCEPT ![c] = "none"]
      /\ carried' = [carried EXCEPT ![c] = r]
    BY DEF Proceeds
<1>2. /\ Cardinality(Creating) \in Nat
      /\ Cardinality(Creating') = Cardinality(Creating) + (IF next = "create" THEN 1 ELSE 0) - 0
    BY <1>1, CreatingAfter
<1>3. nextAnnotation' + Cardinality(Creating') <= MaxAnnotations + 1
    <2>1. nextAnnotation + Cardinality(Creating) <= MaxAnnotations + 1
          /\ nextAnnotation \in Nat /\ MaxAnnotations \in Nat
        BY AnnotationBound DEF RoomInv, AnnotationsTypeOK
    <2> QED
        BY <1>2, <2>1
<1>4. AnnotationsTypeOK'
    BY <1>1 DEF RoomInv, AnnotationsTypeOK
<1>5. \A d \in Editors : handler'[d] # "ready" => carried'[d] \in AnnotationRequest
    BY <1>1 DEF RoomInv, AnnotationsTypeOK
<1> QED
    BY <1>3, <1>4, <1>5 DEF RoomInv

LEMMA PostRoom ==
    ASSUME AnnotationAssumption, RoomInv, NEW c \in Editors, NEW k \in RunCases,
           NEW sent \in Statuses \cup {Absent}, NEW reason \in Reasons \cup {Absent},
           PostAnnotation(c, k, sent, reason)
    PROVE  RoomInv'
<1> DEFINE status == PostStatus(sent)
           r == Carried("post", k, 0, sent, status, reason, rows[k])
<1>1. status \in Statuses
    BY DEF PostStatus, coalesce, Statuses
<1>2. rows[k] \in Row \cup {NoAnnotation} /\ 0 \in 0..MaxAnnotations
    BY AnnotationBound DEF RoomInv, AnnotationsTypeOK
<1>3. r \in AnnotationRequest
    BY <1>1, <1>2 DEF Carried, AnnotationRequest
<1>4. UNCHANGED <<livePairs, rows, nextAnnotation>> /\ handler[c] = "ready"
    BY DEF PostAnnotation
<1>5. \/ Answered(c, "conflict", r)
      \/ Proceeds(c, "update", r)
      \/ nextAnnotation + Cardinality(Creating) <= MaxAnnotations /\ Proceeds(c, "create", r)
    BY DEF PostAnnotation, Creating
<1> HIDE DEF r, status
<1>6. CASE Answered(c, "conflict", r)
    <2>1. /\ rows' \in [RunCases -> Row \cup {NoAnnotation}] /\ nextAnnotation' \in Nat
          /\ 1 <= nextAnnotation' /\ nextAnnotation' <= nextAnnotation + 0 /\ "conflict" \in Answers
        BY <1>4, AnnotationBound DEF RoomInv, AnnotationsTypeOK, Answers
    <2> QED
        BY <1>3, <1>4, <1>6, <2>1, AnsweredRoom
<1>7. CASE Proceeds(c, "update", r)
    BY <1>3, <1>4, <1>7, ProceedsRoom
<1>8. CASE nextAnnotation + Cardinality(Creating) <= MaxAnnotations /\ Proceeds(c, "create", r)
    BY <1>3, <1>4, <1>8, ProceedsRoom
<1> QED
    BY <1>5, <1>6, <1>7, <1>8

LEMMA PatchRoom ==
    ASSUME AnnotationAssumption, RoomInv, NEW c \in Editors, NEW i \in 1..nextAnnotation - 1,
           NEW sent \in Statuses \cup {Absent}, NEW reason \in Reasons \cup {Absent},
           PatchAnnotation(c, i, sent, reason)
    PROVE  RoomInv'
<1>1. UNCHANGED <<livePairs, rows, nextAnnotation>> /\ handler[c] = "ready"
    BY DEF PatchAnnotation
<1>2. /\ rows' \in [RunCases -> Row \cup {NoAnnotation}] /\ nextAnnotation' \in Nat
      /\ 1 <= nextAnnotation' /\ nextAnnotation' <= nextAnnotation + 0
      /\ "conflict" \in Answers /\ "not_found" \in Answers /\ i \in 0..MaxAnnotations
    BY <1>1, AnnotationBound DEF RoomInv, AnnotationsTypeOK, Answers
<1>3. CASE Answered(c, "not_found", Carried("patch", NoAnnotation, i, sent, sent, reason, NoAnnotation))
    <2> DEFINE r == Carried("patch", NoAnnotation, i, sent, sent, reason, NoAnnotation)
    <2>1. r \in AnnotationRequest
        BY <1>2 DEF Carried, AnnotationRequest
    <2>2. Answered(c, "not_found", r)
        BY <1>3
    <2> HIDE DEF r
    <2> QED
        BY <1>1, <1>2, <2>1, <2>2, AnsweredRoom
<1>4. ASSUME NEW k \in Listed,
             LET r == Carried("patch", k, i, sent, sent, reason, rows[k]) IN
               IF sent = Absent \/ canTransition(rows[k].status, sent)
               THEN Proceeds(c, "update", r)
               ELSE Answered(c, "conflict", r)
      PROVE  RoomInv'
    <2> DEFINE r == Carried("patch", k, i, sent, sent, reason, rows[k])
    <2>1. k \in RunCases /\ rows[k] \in Row
        BY DEF Listed, Stored, RoomInv, AnnotationsTypeOK
    <2>2. r \in AnnotationRequest
        BY <1>2, <2>1 DEF Carried, AnnotationRequest
    <2>3. Proceeds(c, "update", r) \/ Answered(c, "conflict", r)
        BY <1>4
    <2> HIDE DEF r
    <2>4. CASE Proceeds(c, "update", r)
        BY <1>1, <2>2, <2>4, ProceedsRoom
    <2>5. CASE Answered(c, "conflict", r)
        BY <1>1, <1>2, <2>2, <2>5, AnsweredRoom
    <2> QED
        BY <2>3, <2>4, <2>5
<1> QED
    BY <1>3, <1>4 DEF PatchAnnotation

LEMMA UpdateRoom ==
    ASSUME AnnotationAssumption, RoomInv, NEW c \in Editors, UpdateAnnotation(c)
    PROVE  RoomInv'
<1>1. handler[c] = "update" /\ carried[c] \in AnnotationRequest
    BY DEF UpdateAnnotation, RoomInv
<1>2. PICK a \in Answers : Answered(c, a, carried[c])
    BY DEF UpdateAnnotation, Answers
<1>3. rows' \in [RunCases -> Row \cup {NoAnnotation}]
    <2>1. ASSUME NEW k \in Stored, rows' = [rows EXCEPT ![k] = MergedInto(rows[k], carried[c])]
          PROVE  rows' \in [RunCases -> Row \cup {NoAnnotation}]
        <3> DEFINE row == rows[k]
                   q == carried[c]
        <3>1. k \in RunCases /\ row \in Row
            BY DEF Stored, RoomInv, AnnotationsTypeOK
        <3>2. coalesce(q.status, row.status) \in Statuses /\ coalesce(q.reason, row.reason) \in Reasons
            BY <1>1, <3>1 DEF coalesce, AnnotationRequest, Row
        <3>3. MergedInto(row, q) \in Row
            <4> HIDE DEF row, q
            <4> QED
                BY <3>1, <3>2 DEF MergedInto, Row
        <3> QED
            BY <2>1, <3>1, <3>3 DEF RoomInv, AnnotationsTypeOK
    <2> QED
        BY <2>1 DEF UpdateAnnotation, RoomInv, AnnotationsTypeOK
<1>4. /\ nextAnnotation' \in Nat /\ 1 <= nextAnnotation' /\ nextAnnotation' <= nextAnnotation + 0
      /\ UNCHANGED livePairs
    BY AnnotationBound DEF UpdateAnnotation, RoomInv, AnnotationsTypeOK
<1> QED
    BY <1>1, <1>2, <1>3, <1>4, AnsweredRoom

LEMMA CreateRoom ==
    ASSUME AnnotationAssumption, AnnotationInv, RoomInv, NEW c \in Editors, CreateAnnotation(c)
    PROVE  RoomInv'
<1>1. Insertable(carried[c]) /\ handler[c] = "create" /\ carried[c] \in AnnotationRequest
    BY DEF CreateAnnotation, AnnotationInv, CheckedInv, RoomInv
<1>2. PICK a \in Answers : Answered(c, a, carried[c])
    BY DEF CreateAnnotation, Answers
<1> DEFINE row == [id |-> nextAnnotation, status |-> carried[c].status,
                   reason |-> coalesce(carried[c].reason, "")]
<1>3. nextAnnotation \in 1..MaxAnnotations
    <2>1. c \in Creating /\ IsFiniteSet(Creating) /\ Cardinality(Creating) \in Nat
        BY <1>1, CreatingFinite DEF Creating
    <2>2. Cardinality(Creating) # 0
        BY <2>1, FS_EmptySet
    <2> QED
        BY <2>1, <2>2, AnnotationBound DEF RoomInv, AnnotationsTypeOK
<1>4. row \in Row
    <2>1. coalesce(carried[c].reason, "") \in Reasons
        BY <1>1, Markers DEF Insertable, AnyRequest, coalesce
    <2> QED
        BY <1>1, <1>3, <2>1 DEF Insertable, Row
<1>5. \/ rows' = [rows EXCEPT ![carried[c].key] = row] /\ nextAnnotation' = nextAnnotation + 1
      \/ UNCHANGED <<rows, nextAnnotation>>
    BY DEF CreateAnnotation
<1> HIDE DEF row
<1>6. rows' \in [RunCases -> Row \cup {NoAnnotation}]
    BY <1>1, <1>4, <1>5 DEF Insertable, RoomInv, AnnotationsTypeOK
<1>7. nextAnnotation' \in Nat /\ 1 <= nextAnnotation' /\ nextAnnotation' <= nextAnnotation + 1
    BY <1>3, <1>5
<1>8. UNCHANGED livePairs
    BY DEF CreateAnnotation
<1> QED
    BY <1>1, <1>2, <1>6, <1>7, <1>8, AnsweredRoom

LEMMA DeleteRoom ==
    ASSUME AnnotationAssumption, RoomInv, NEW c \in Editors, NEW i \in 1..nextAnnotation - 1,
           DeleteAnnotation(c, i)
    PROVE  RoomInv'
<1> DEFINE r == Carried("delete", NoAnnotation, i, Absent, Absent, Absent, NoAnnotation)
<1>1. i \in 0..MaxAnnotations /\ handler[c] = "ready"
    BY AnnotationBound DEF DeleteAnnotation, RoomInv, AnnotationsTypeOK
<1>2. r \in AnnotationRequest
    BY <1>1 DEF Carried, AnnotationRequest
<1>3. PICK a \in Answers : Answered(c, a, r)
    BY DEF DeleteAnnotation, Answers
<1> HIDE DEF r
<1>4. /\ rows' \in [RunCases -> Row \cup {NoAnnotation}]
      /\ nextAnnotation' \in Nat /\ 1 <= nextAnnotation' /\ nextAnnotation' <= nextAnnotation + 0
      /\ UNCHANGED livePairs
    BY AnnotationBound DEF DeleteAnnotation, RoomInv, AnnotationsTypeOK
<1> QED
    BY <1>1, <1>2, <1>3, <1>4, AnsweredRoom

LEMMA DeleteRunCaseRoom ==
    ASSUME RoomInv, NEW k \in RunCases, DeleteRunCase(k)
    PROVE  RoomInv'
BY DEF DeleteRunCase, RoomInv, AnnotationsTypeOK, Creating

\* Ids stay within the bound, and a stored annotation, a request and an answer
\* are what they should be (store/annotation.go, http/annotations.go).
THEOREM AnnotationsTyped == AnnotationAssumption => (AnnotationsSpec => []AnnotationsTypeOK)
<1> SUFFICES ASSUME AnnotationAssumption PROVE AnnotationsSpec => []AnnotationsTypeOK
    OBVIOUS
<1>1. AnnotationsInit => RoomInv
    <2> SUFFICES ASSUME AnnotationsInit PROVE RoomInv
        OBVIOUS
    <2>1. Creating = {} /\ Cardinality({}) = 0
        BY FS_EmptySet DEF AnnotationsInit, Creating
    <2> QED
        BY <2>1, AnnotationBound DEF AnnotationsInit, RoomInv, AnnotationsTypeOK
<1>2. AnnotationInv /\ RoomInv /\ [AnnotationsNext]_annotationVars => RoomInv'
    <2> SUFFICES ASSUME AnnotationInv, RoomInv, [AnnotationsNext]_annotationVars PROVE RoomInv'
        OBVIOUS
    <2>1. CASE UNCHANGED annotationVars
        BY <2>1 DEF annotationVars, RoomInv, AnnotationsTypeOK, Creating
    <2>2. CASE AnnotationsNext
        BY <2>2, PostRoom, PatchRoom, UpdateRoom, CreateRoom, DeleteRoom, DeleteRunCaseRoom DEF AnnotationsNext, RoomInv, AnnotationsTypeOK
    <2> QED
        BY <2>1, <2>2
<1>3. AnnotationsSpec => []AnnotationInv
    BY AnnotationsInvariant
<1>4. RoomInv => AnnotationsTypeOK
    BY DEF RoomInv
<1> QED
    BY <1>1, <1>2, <1>3, <1>4, PTL DEF AnnotationsSpec

-----------------------------------------------------------------------------
(* Accounts *)

USE UserAssumption DEF Ids

\* More than one active administrator: whoever the target is, another is left.
\* (store/user.go:165-173 against auth/service.go:191.)
LEMMA AnotherAdmin ==
    ASSUME TypeOK, CountActiveAdmins > 1, NEW t
    PROVE  \E i \in Ids : i # t /\ IsActiveAdmin(users[i])
<1> DEFINE A == {i \in Ids : IsActiveAdmin(users[i])}
<1>1. IsFiniteSet(Ids)
    BY FS_Interval
<1>2. IsFiniteSet(A)
    BY <1>1, FS_Subset
<1>3. SUFFICES ASSUME A \subseteq {t}
               PROVE  FALSE
    OBVIOUS
<1>4. Cardinality({t}) = 1 /\ IsFiniteSet({t})
    BY FS_Singleton
<1>5. Cardinality(A) <= 1
    BY <1>3, <1>4, FS_Subset
<1>6. Cardinality(A) \in Nat
    BY <1>2, FS_CardinalityType
<1> QED
    BY <1>5, <1>6 DEF CountActiveAdmins

\* A new account takes nothing away from the others.
LEMMA NewAccount ==
    ASSUME TypeOK, NEW role \in Roles, createUser(role)
    PROVE  /\ users' \in [Ids -> User \cup {NoUser}]
           /\ nextId' \in 1..MaxId + 1
           /\ \A i \in Ids : i >= nextId' => users'[i] = NoUser
           /\ users'[nextId] = [role |-> role, disabled |-> FALSE] /\ nextId \in Ids
           /\ \A i \in Ids : i # nextId => users'[i] = users[i]
           /\ \A i \in Ids : IsActiveAdmin(users[i]) => IsActiveAdmin(users'[i])
<1>1. nextId \in Ids /\ [role |-> role, disabled |-> FALSE] \in User
    BY DEF TypeOK, createUser, User
<1>2. users[nextId] = NoUser
    BY <1>1 DEF TypeOK
<1> QED
    BY <1>1, <1>2 DEF TypeOK, createUser, IsActiveAdmin

LEMMA InitTyped == Init => TypeOK
<1> SUFFICES ASSUME Init PROVE TypeOK
    OBVIOUS
<1>1. crossed \in BOOLEAN
    BY Zenon DEF Init
<1>2. /\ users \in [Ids -> User \cup {NoUser}] /\ nextId \in 1..MaxId + 1
      /\ \A i \in Ids : i >= nextId => users[i] = NoUser
    BY DEF Init
<1>3. /\ pc \in [Clients -> {"ready", "register", "read", "count", "write"}]
      /\ request \in [Clients -> Request \cup {NoUser}]
      /\ \A c \in Clients : pc[c] \in {"read", "count", "write"} => request[c] \in Request
    BY DEF Init
<1> QED
    BY <1>1, <1>2, <1>3 DEF TypeOK

LEMMA StepTyped == TypeOK /\ [Next]_vars => TypeOK'
<1> SUFFICES ASSUME TypeOK, [Next]_vars PROVE TypeOK'
    OBVIOUS
<1>1. ASSUME NEW c \in Clients, Register(c) PROVE TypeOK'
    BY <1>1 DEF Register, GoesOn, TypeOK
<1>2. ASSUME NEW c \in Clients, Registers(c) PROVE TypeOK'
    <2> USE <1>2, NewAccount DEF Registers, Ends
    <2>1. "admin" \in Roles
        BY DEF Roles
    <2> QED
        BY <2>1 DEF TypeOK
<1>3. ASSUME NEW c \in Clients, NEW role \in Roles, CreateUser(c, role) PROVE TypeOK'
    BY <1>3, NewAccount DEF CreateUser, TypeOK
<1>4. ASSUME NEW c \in Clients, NEW r \in Request, Arrives(c, r) PROVE TypeOK'
    BY <1>4 DEF Arrives, GoesOn, TypeOK
<1>5. ASSUME NEW c \in Clients, ReadTarget(c) PROVE TypeOK'
    BY <1>5 DEF ReadTarget, GoesOn, Ends, TypeOK
<1>6. ASSUME NEW c \in Clients, CountAdmins(c) PROVE TypeOK'
    BY <1>6 DEF CountAdmins, GoesOn, Ends, TypeOK
<1>7. ASSUME NEW c \in Clients, WriteTarget(c) PROVE TypeOK'
    <2> DEFINE r == request[c]  t == request[c].target
    <2>1. r \in Request /\ t \in Ids
        BY <1>7 DEF WriteTarget, TypeOK, Request
    <2>2. Written(users[t], r) \in User \cup {NoUser}
        BY <2>1 DEF Written, coalesce, User, Request, TypeOK
    <2>3. \A i \in Ids : users'[i] = IF i = t THEN Written(users[t], r) ELSE users[i]
        BY <1>7 DEF WriteTarget, TypeOK
    <2>4. t >= nextId => Written(users[t], r) = NoUser
        BY <2>1 DEF TypeOK, Written
    <2> QED
        BY <1>7, <2>1, <2>2, <2>3, <2>4 DEF WriteTarget, Ends, TypeOK
<1>8. CASE UNCHANGED vars
    BY <1>8 DEF vars, TypeOK
<1>9. ASSUME NEW c \in Clients, NEW actor \in Ids, NEW target \in Ids,
             NEW role \in Roles \cup {Absent}, NEW disabled \in BOOLEAN \cup {Absent},
             Update(c, actor, target, role, disabled)
      PROVE  TypeOK'
    BY <1>4, <1>9 DEF Update, Request
<1>10. ASSUME NEW c \in Clients, NEW actor \in Ids, NEW target \in Ids,
              Delete(c, actor, target)
       PROVE  TypeOK'
    BY <1>4, <1>10 DEF Delete, Request
<1> QED
    BY <1>1, <1>2, <1>3, <1>5, <1>6, <1>7, <1>8, <1>9, <1>10 DEF Next

\* Requests and accounts keep their types however the requests interleave, and
\* the identity sequence hands out no id twice. (auth/service.go:41, store/user.go.)
THEOREM AccountsTyped == Spec => []TypeOK
BY InitTyped, StepTyped, PTL DEF Spec

LEMMA InitAdmin == Init => AdminInv
<1> SUFFICES ASSUME Init PROVE AdminInv
    OBVIOUS
<1>1. TypeOK
    BY InitTyped
<1>2. ActiveAdminRemains
    BY DEF Init, ActiveAdminRemains, Accounts
<1>3. Apart /\ LeavesAnother
    BY DEF Init, Apart, TakingAway, LeavesAnother
<1> QED
    BY <1>1, <1>2, <1>3 DEF AdminInv

\* Once two requests have crossed, they have; until then every step keeps an
\* active administrator and what that rests on.
LEMMA StepAdmin ==
    ASSUME AdminInv, [Next]_vars
    PROVE  AdminInv'
<1>a. TypeOK /\ TypeOK'
    BY StepTyped DEF AdminInv
<1>b. crossed => crossed'
    <2>1. \A c, r : Arrives(c, r) => UNCHANGED crossed
        BY DEF Arrives
    <2> QED
        BY <2>1 DEF Next, vars, Register, Registers, CreateUser, Update, Delete, ReadTarget,
                    CountAdmins, WriteTarget
<1>c. SUFFICES ASSUME ~crossed, ~crossed'
               PROVE  AdminInv'
    BY <1>a, <1>b DEF AdminInv
<1>d. ActiveAdminRemains /\ Apart /\ LeavesAnother
    BY <1>c DEF AdminInv
<1> USE <1>a, <1>d DEF AdminInv
<1>0. TypeOK'
    BY <1>a
<1>1. ASSUME NEW c \in Clients, Register(c)
      PROVE  AdminInv'
    <2>1. ActiveAdminRemains'
        BY <1>1 DEF Register, ActiveAdminRemains, Accounts
    <2>2. Apart' /\ LeavesAnother'
        BY <1>1 DEF Register, GoesOn, Apart, TakingAway, LeavesAnother, TypeOK
    <2> QED
        BY <1>0, <2>1, <2>2
<1>2. ASSUME NEW c \in Clients, Registers(c)
      PROVE  AdminInv'
    <2> USE <1>2, NewAccount DEF Registers, Ends
    <2>0. "admin" \in Roles
        BY DEF Roles
    <2>1. ActiveAdminRemains'
        <3>1. nextId \in Ids /\ users'[nextId] = [role |-> "admin", disabled |-> FALSE]
            BY <2>0
        <3>2. [role |-> "admin", disabled |-> FALSE] \in User
            BY <2>0, Zenon DEF User
        <3>3. users'[nextId] # NoUser
            BY <3>1, <3>2, Zenon
        <3> QED
            BY <3>1, <3>3 DEF ActiveAdminRemains, IsActiveAdmin
    <2>2. Apart' /\ LeavesAnother'
        BY <2>0 DEF Apart, TakingAway, LeavesAnother, TypeOK
    <2> QED
        BY <1>0, <2>1, <2>2
<1>3. ASSUME NEW c \in Clients, NEW role \in Roles, CreateUser(c, role)
      PROVE  AdminInv'
    <2> USE <1>3, NewAccount DEF CreateUser
    <2>1. ActiveAdminRemains'
        BY DEF ActiveAdminRemains
    <2>2. Apart' /\ LeavesAnother'
        BY DEF Apart, TakingAway, LeavesAnother, TypeOK
    <2> QED
        BY <1>0, <2>1, <2>2
<1>4. ASSUME NEW c \in Clients, NEW r \in Request, Arrives(c, r)
      PROVE  AdminInv'
    <2>1. ActiveAdminRemains'
        BY <1>4 DEF Arrives, ActiveAdminRemains, Accounts
    <2>2. Apart' /\ LeavesAnother'
        BY <1>4 DEF Arrives, GoesOn, Apart, TakingAway, LeavesAnother, TypeOK
    <2> QED
        BY <1>0, <2>1, <2>2
<1>5. ASSUME NEW c \in Clients, ReadTarget(c)
      PROVE  AdminInv'
    <2>1. ActiveAdminRemains'
        BY <1>5 DEF ReadTarget, ActiveAdminRemains, Accounts
    <2>2. Apart'
        <3> DEFINE r == request[c]
        <3>1. CASE Ends(c)
            BY <1>5, <3>1 DEF Ends, Apart, TakingAway, TypeOK
        <3>2. CASE ~Ends(c)
            <4>1. /\ UNCHANGED request
                  /\ \A d \in Clients \ {c} : pc'[d] = pc[d]
                BY <1>5, <3>2 DEF ReadTarget, GoesOn, TypeOK
            <4>2. Worsens(r) => \A d \in Clients : TakingAway(d) => request[d].target = r.target
                BY <1>5, <1>c, <3>2 DEF ReadTarget
            <4>3. \A d \in Clients : TakingAway(d)' => TakingAway(d) \/ (d = c /\ Worsens(r))
                BY <4>1 DEF TakingAway
            <4> HIDE DEF r
            <4>4. \A d \in Clients : TakingAway(d)' /\ d = c => Worsens(r)
                BY <4>1 DEF TakingAway, r
            <4> QED
                BY <4>1, <4>2, <4>3, <4>4 DEF Apart, r
        <3> QED
            BY <3>1, <3>2
    <2>3. LeavesAnother'
        <3>0. /\ UNCHANGED users
              /\ \A d \in Clients \ {c} : pc'[d] = pc[d] /\ request'[d] = request[d]
              /\ pc'[c] = "write" => request'[c] = request[c]
            BY <1>5 DEF ReadTarget, GoesOn, Ends, TypeOK
        <3>1. SUFFICES ASSUME pc'[c] = "write", Worsens(request[c]), request'[c] = request[c]
                       PROVE  \E i \in Ids : i # request[c].target /\ IsActiveAdmin(users[i])
            BY <3>0 DEF LeavesAnother
        <3>2. users[request[c].target] # NoUser /\ ~IsActiveAdmin(users[request[c].target])
            BY <1>5, <3>1 DEF ReadTarget, GoesOn, Ends, TypeOK
        <3>3. request[c].target \in Ids
            BY <1>5 DEF ReadTarget, TypeOK, Request
        <3> QED
            BY <3>2, <3>3 DEF ActiveAdminRemains, Accounts
    <2> QED
        BY <1>0, <2>1, <2>2, <2>3
<1>6. ASSUME NEW c \in Clients, CountAdmins(c)
      PROVE  AdminInv'
    <2>1. ActiveAdminRemains'
        BY <1>6 DEF CountAdmins, ActiveAdminRemains, Accounts
    <2>2. Apart'
        BY <1>6 DEF CountAdmins, GoesOn, Ends, Apart, TakingAway, TypeOK
    <2>3. LeavesAnother'
        <3>1. CASE CountActiveAdmins <= 1 /\ Ends(c)
            BY <1>6, <3>1 DEF CountAdmins, Ends, LeavesAnother, TypeOK
        <3>2. CASE CountActiveAdmins > 1 /\ GoesOn(c, "write") /\ UNCHANGED request
            BY <1>6, <3>2, AnotherAdmin DEF CountAdmins, GoesOn, LeavesAnother, TypeOK
        <3> QED
            BY <1>6, <3>1, <3>2 DEF CountAdmins
    <2> QED
        BY <1>0, <2>1, <2>2, <2>3
<1>7. ASSUME NEW c \in Clients, WriteTarget(c)
      PROVE  AdminInv'
    <2> DEFINE r == request[c]  t == request[c].target
    <2>1. r \in Request /\ t \in Ids
        BY <1>7 DEF WriteTarget, TypeOK, Request
    <2>2. users[t] \in User \cup {NoUser}
        BY <2>1 DEF TypeOK
    <2>3. \A i \in Ids : users'[i] = IF i = t THEN Written(users[t], r) ELSE users[i]
        BY <1>7 DEF WriteTarget, TypeOK
    <2>4. ActiveAdminRemains'
        <3>1. CASE Worsens(r)
            BY <1>7, <2>3, <3>1 DEF WriteTarget, LeavesAnother, ActiveAdminRemains
        <3>2. CASE ~Worsens(r)
            <4>1. IsActiveAdmin(users[t]) => IsActiveAdmin(Written(users[t], r))
                BY <2>1, <2>2, <3>2 DEF Worsens, IsActiveAdmin, Written, coalesce, User, Request
            <4>2. Accounts' # {} => Accounts # {}
                BY <2>1, <2>3 DEF Accounts, Written
            <4> QED
                BY <2>1, <2>3, <4>1, <4>2 DEF ActiveAdminRemains
        <3> QED
            BY <3>1, <3>2
    <2>5. /\ pc'[c] = "ready"
          /\ \A d \in Clients \ {c} : pc'[d] = pc[d] /\ request'[d] = request[d]
        BY <1>7 DEF WriteTarget, Ends, TypeOK
    <2>6. Apart'
        BY <2>5 DEF Apart, TakingAway
    <2>7. LeavesAnother'
        <3> SUFFICES ASSUME NEW d \in Clients \ {c}, pc[d] = "write", Worsens(request[d])
                     PROVE  \E i \in Ids : i # request[d].target /\ IsActiveAdmin(users'[i])
            BY <2>5 DEF LeavesAnother
        <3>1. PICK i \in Ids : i # request[d].target /\ IsActiveAdmin(users[i])
            BY DEF LeavesAnother
        <3>2. CASE Worsens(r)
            <4>1. TakingAway(c) /\ TakingAway(d)
                BY <1>7, <3>2 DEF TakingAway, WriteTarget
            <4>2. request[d].target = t
                BY <4>1 DEF Apart
            <4> QED
                BY <2>3, <3>1, <4>2
        <3>3. CASE ~Worsens(r)
            <4>1. IsActiveAdmin(users[t]) => IsActiveAdmin(Written(users[t], r))
                BY <2>1, <2>2, <3>3 DEF Worsens, IsActiveAdmin, Written, coalesce, User, Request
            <4> QED
                BY <2>3, <3>1, <4>1
        <3> QED
            BY <3>2, <3>3
    <2> QED
        BY <1>0, <2>4, <2>6, <2>7
<1>8. CASE UNCHANGED vars
    BY <1>0, <1>8 DEF vars, ActiveAdminRemains, Accounts, Apart, TakingAway, LeavesAnother
<1>9. ASSUME NEW c \in Clients, NEW actor \in Ids, NEW target \in Ids,
             NEW role \in Roles \cup {Absent}, NEW disabled \in BOOLEAN \cup {Absent},
             Update(c, actor, target, role, disabled)
      PROVE  AdminInv'
    BY <1>4, <1>9 DEF Update, Request
<1>10. ASSUME NEW c \in Clients, NEW actor \in Ids, NEW target \in Ids,
              Delete(c, actor, target)
       PROVE  AdminInv'
    BY <1>4, <1>10 DEF Delete, Request
<1> QED
    BY <1>1, <1>2, <1>3, <1>5, <1>6, <1>7, <1>8, <1>9, <1>10 DEF Next

\* The last active administrator is lost only when two requests that take away
\* from different accounts cross: against any other interleaving of any number of
\* requests, the check of the last one and the ban on changing oneself are enough.
\* (auth/service.go:165-223.)
THEOREM AdminAlways == Spec => []LostOnlyByCrossing
<1>1. AdminInv /\ [Next]_vars => AdminInv'
    BY StepAdmin
<1>2. AdminInv => LostOnlyByCrossing
    BY DEF AdminInv, LostOnlyByCrossing
<1> QED
    BY InitAdmin, <1>1, <1>2, PTL DEF Spec

-----------------------------------------------------------------------------
(* The parts together *)

\* Every behaviour of MCPeople is, for each part but the submission, one of its
\* behaviours, so that whatever is proved of a part holds of the run that checks
\* them all.
LEMMA PartsOfPeople ==
    PeopleSpec => Spec /\ AnnotationsSpec /\ GoldSpec
<1>1. PeopleInit => Init /\ AnnotationsInit /\ GoldInit
    BY DEF PeopleInit
<1>2. [PeopleNext]_peopleVars => [Next]_vars
    BY DEF PeopleNext, peopleVars, vars
<1>3. [PeopleNext]_peopleVars => [AnnotationsNext]_annotationVars
    BY DEF PeopleNext, peopleVars, annotationVars
<1>4. [PeopleNext]_peopleVars => [GoldNext]_goldVars
    BY DEF PeopleNext, peopleVars, goldVars
<1> QED
    BY <1>1, <1>2, <1>3, <1>4, PTL DEF PeopleSpec, Spec, AnnotationsSpec, GoldSpec

\* A submission takes place only where there is a server.
LEMMA SubmittingAlways == PeopleSpec => [](part = "submission" => SubmissionInv)
<1> DEFINE Submitting == part = "submission" => SubmissionInv
<1>1. PeopleInit => Submitting
    BY DEF PeopleInit, SubmissionInit, SubmissionInv, SubmissionTypeOK
<1>2. Submitting /\ [PeopleNext]_peopleVars => Submitting'
    <2> SUFFICES ASSUME Submitting, [PeopleNext]_peopleVars, part' = "submission"
                 PROVE  SubmissionInv'
        OBVIOUS
    <2>1. part' = part /\ [SubmissionNext]_submissionVars
        BY DEF PeopleNext, peopleVars, submissionVars
    <2> QED
        BY <2>1, PeopleAssumption, StepSubmission
<1> HIDE DEF Submitting
<1>3. PeopleSpec => []Submitting
    BY <1>1, <1>2, PTL DEF PeopleSpec
<1> QED
    BY <1>3 DEF Submitting

\* Whatever people do on the pages, every part keeps its types: an account, an
\* annotation and a gold row are whole, ids stay within their sequences, and a
\* stored template is complete and valid. (store/user.go, store/annotation.go,
\* store/human_gold.go, pipeline_profiles.go.)
THEOREM PeopleTyped == PeopleSpec => []PeopleTypeOK
<1>1. AnnotationAssumption /\ GoldAssumption
    BY PeopleAssumption
<1>2. PeopleSpec => []TypeOK
    BY PartsOfPeople, AccountsTyped, PTL
<1>3. PeopleSpec => []AnnotationsTypeOK
    BY <1>1, PartsOfPeople, AnnotationsTyped, PTL
<1>4. PeopleSpec => []GoldTypeOK
    BY <1>1, PartsOfPeople, GoldTyped, PTL
<1>5. /\ TypeOK /\ AnnotationsTypeOK /\ GoldTypeOK
      /\ (part = "submission" => SubmissionInv)
      => PeopleTypeOK
    BY DEF PeopleTypeOK, SubmissionInv
<1> QED
    BY <1>2, <1>3, <1>4, <1>5, SubmittingAlways, PTL

=============================================================================
