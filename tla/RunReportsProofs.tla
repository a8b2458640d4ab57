-------------------------- MODULE RunReportsProofs --------------------------
(***************************************************************************)
(* Proofs about the two reports over a baseline and a candidate run: what  *)
(* they say holds for any number of cases, any outcomes and any number of   *)
(* writes between their reads.                                              *)
(***************************************************************************)
EXTENDS RunReports, CountingProofs, TLAPS

-----------------------------------------------------------------------------
(* One result. *)

FlagNames == {"no_gold", "anchor_incomplete", "retrieval_miss", "retrieval_partial",
              "retrieval_low_rank", "hallucination", "off_topic", "generation_quality",
              "no_claims"}

\* The flags are the ones the rules give.
Labelled(row) == row.flags = attribute_case(row.metrics, row.judge, row.rules)

LEMMA FlagsAreNames ==
    ASSUME NEW metric, NEW judge, NEW rules
    PROVE  attribute_case(metric, judge, rules) \subseteq FlagNames
BY DEF attribute_case, RetrievalFlags, JudgeFlags, FlagNames

\* Of some positions in a list one comes first.
LEMMA FirstExists ==
    ASSUME NEW n \in Nat, NEW V, V \subseteq 1..n, V # {}
    PROVE  \E i \in V : \A j \in V : i <= j
<1> DEFINE UpTo(i) == {k \in V : k <= i}
           T == {UpTo(i) : i \in V}
<1>1. IsFiniteSet(V) /\ \A k \in V : k \in Nat
  <2>1. 1 \in Int /\ n \in Int
    OBVIOUS
  <2>2. IsFiniteSet(1..n)
    BY <2>1, FS_Interval
  <2>3. IsFiniteSet(V)
    BY <2>2, FS_Subset
  <2>4. \A k \in 1..n : k \in Nat
    OBVIOUS
  <2> QED BY <2>3, <2>4
<1>2. T \subseteq FiniteSubsetsOf(V) /\ T # {}
  <2>1. FiniteSubsetsOf(V) = SUBSET V
    BY <1>1, FS_FiniteSubsetsOfFinite
  <2>2. T \in SUBSET (SUBSET V) /\ T # {}
    OBVIOUS
  <2> QED BY <2>1, <2>2
<1>3. PICK m \in T : \A y \in T : ~(<<y, m>> \in StrictSubsetOrdering(V))
  BY <1>1, <1>2, FS_StrictSubsetOrderingWellFounded, WFMin
<1>4. PICK i \in V : m = UpTo(i)
  BY <1>3
<1>5. ASSUME NEW j \in V, ~(i <= j) PROVE FALSE
  <2>1. i \in Nat /\ j \in Nat /\ j < i
    BY <1>1, <1>5
  <2>2. \A k \in V : k <= j => k <= i
    BY <1>1, <2>1
  <2>3. UpTo(j) \subseteq UpTo(i)
    BY <2>2
  <2>4. i \in UpTo(i) /\ i \notin UpTo(j)
    BY <2>1
  <2>5. <<UpTo(j), m>> \in StrictSubsetOrdering(V)
    BY <1>4, <2>3, <2>4 DEF StrictSubsetOrdering
  <2> QED BY <1>3, <2>5
<1> QED BY <1>5

\* A search finds no more gold than there is, and its first hit has a position.
LEMMA HitsInGold ==
    ASSUME NEW o \in Outcomes, o.gold # {}, NEW k
    PROVE  LET metric == evaluate_case(o.gold, o.retrieved, k) IN
           /\ metric.hits \in Nat /\ metric.gold_count \in Nat
           /\ metric.hits <= metric.gold_count /\ metric.gold_count # 0
           /\ metric.first_hit_rank \in Nat
<1> DEFINE n == Len(o.retrieved)
           positions == HitPositions(o.gold, o.retrieved, k)
           hit == [i \in positions |-> o.retrieved[i]]
           first == CHOOSE i \in positions : \A j \in positions : i <= j
<1>1. /\ n \in Nat /\ IsFiniteSet(o.gold)
      /\ \A i, j \in 1..n : o.retrieved[i] = o.retrieved[j] => i = j
  BY ReportsAssumption
<1>2. positions \subseteq 1..n /\ hit \in [positions -> o.gold]
  BY DEF HitPositions
<1> HIDE DEF positions, n
<1>3. hit \in Injection(positions, o.gold)
  BY <1>1, <1>2 DEF Injection, IsInjective
<1>4. IsFiniteSet(positions) /\ Cardinality(positions) <= Cardinality(o.gold)
  BY <1>1, <1>3, FS_Injection
<1>5. Cardinality(positions) \in Nat /\ Cardinality(o.gold) \in Nat
  BY <1>1, <1>4, FS_CardinalityType
<1>6. Cardinality(o.gold) # 0
  BY <1>1, FS_EmptySet
<1>7. Cardinality(positions) # 0 => first \in Nat
  <2> SUFFICES ASSUME Cardinality(positions) # 0 PROVE first \in Nat
    OBVIOUS
  <2>1. positions # {}
    BY FS_EmptySet
  <2>2. first \in positions
    BY <1>1, <1>2, <2>1, FirstExists
  <2>3. \A i \in 1..n : i \in Nat
    OBVIOUS
  <2> HIDE DEF first
  <2> QED BY <1>2, <2>2, <2>3
<1> HIDE DEF hit, first
<1> DEFINE metric == evaluate_case(o.gold, o.retrieved, k)
<1>8. /\ metric.hits = Cardinality(positions) /\ metric.gold_count = Cardinality(o.gold)
      /\ metric.first_hit_rank = IF Cardinality(positions) = 0 THEN 0 ELSE first
  BY DEF evaluate_case, positions, first
<1> HIDE DEF metric
<1>9. metric.first_hit_rank \in Nat
  BY <1>7, <1>8
<1> QED BY <1>4, <1>5, <1>6, <1>8, <1>9 DEF metric

\* What is no low rank any more is a number.
LEMMA LimitIsNat ==
    ASSUME NEW rules \in Thresholds PROVE low_rank_limit(rules) \in Nat
<1>1. rules.k \in Nat /\ rules.low_rank_ratio \in Nat
  BY DEF Thresholds
<1>2. rules.k * rules.low_rank_ratio \in Nat
  BY <1>1
<1> QED BY <1>2 DEF low_rank_limit

\* A case the rules find nothing wrong with is repaired as they see it, and no other is.
LEMMA CleanIsRepaired ==
    ASSUME NEW row \in Row, Labelled(row)
    PROVE  row.flags = {} <=> Repaired(row)
<1>1. PICK o \in Outcomes, k \in TopKs, run \in Runs :
         row.metrics = evaluate_case(o.gold, o.retrieved, k[run])
  BY DEF Row
<1>2. \/ row.judge = NoJudge
      \/ /\ row.judge.supported \in Nat /\ row.judge.unsupported \in Nat
         /\ row.judge.irrelevant \in Nat
         /\ row.judge.rubric # NoRubric =>
               row.judge.rubric.relevance \in Nat /\ row.judge.rubric.helpfulness \in Nat
  BY ReportsAssumption DEF Row
<1>3. CASE row.metrics = NoMetric
  BY <1>3 DEF Labelled, attribute_case, RetrievalFlags, Repaired, RepairedBy
<1>4. CASE row.metrics # NoMetric
  <2>1. o.gold # {}
    BY <1>1, <1>4 DEF evaluate_case
  <2> DEFINE m == row.metrics
             j == row.judge
             rules == row.rules
  <2>2. /\ m.hits \in Nat /\ m.gold_count \in Nat /\ m.hits <= m.gold_count
        /\ m.gold_count # 0 /\ m.first_hit_rank \in Nat
    BY <1>1, <2>1, HitsInGold
  <2>3. low_rank_limit(rules) \in Nat /\ rules.quality_line \in Nat
    BY LimitIsNat DEF Row, Thresholds
  <2>4. RetrievalFlags(m, j, rules) = {} <=>
           m.hits = m.gold_count /\ m.first_hit_rank <= low_rank_limit(rules)
    BY <1>4, <2>2, <2>3 DEF RetrievalFlags
  <2>5. m.hits = m.gold_count =>
           (JudgeFlags(m, j, rules) = {} <=>
               /\ j # NoJudge =>
                    j.supported > 0 /\ j.unsupported = 0 /\ j.irrelevant = 0
               /\ j # NoJudge /\ j.rubric # NoRubric =>
                    /\ j.rubric.relevance > rules.quality_line
                    /\ j.rubric.helpfulness > rules.quality_line)
    BY <1>2, <1>4, <2>2, <2>3 DEF JudgeFlags, PoorQuality, claims_total
  <2>6. row.flags = {} <=> RetrievalFlags(m, j, rules) = {} /\ JudgeFlags(m, j, rules) = {}
    BY DEF Labelled, attribute_case
  <2> QED BY <1>4, <2>4, <2>5, <2>6 DEF Repaired, RepairedBy
<1> QED BY <1>3, <1>4

-----------------------------------------------------------------------------
(* The runs and what is stored of them. *)

\* Fields of a report after each of its reads.
Fields(step) ==
    {"step", "overlap"}
    \cup (IF step = "idle" THEN {} ELSE {"leftScope"})
    \cup (IF step \in {"idle", "baseline"} THEN {} ELSE {"rightScope"})
    \cup (IF step \in {"notes", "left", "answered"} THEN {"notes"} ELSE {})
    \cup (IF step \in {"left", "answered"} THEN {"left"} ELSE {})
    \cup (IF step = "answered" THEN {"right"} ELSE {})

Steps == {"idle", "baseline", "candidate", "notes", "left", "answered"}

RunsTyped ==
    /\ results \in [Runs -> [Cases -> Row \cup {NoResult}]]
    /\ scope \in [Runs -> Scopes]
    /\ judged \in [Runs -> BOOLEAN] /\ top_k \in TopKs
    /\ phase \in [Runs -> {"running", "ended", "done"}]
    /\ labelled \subseteq Runs
    /\ notes \in [Annotated -> Statuses \cup {NoNote}]

\* A result was judged if its run is.
Judged(run, row) == row.judge # NoJudge <=> judged[run]

\* A run that says what its flags cover has the flags of the rules, and so has
\* one that has not got that far; only an old run may be without them.
RunInv ==
    /\ \A run \in Runs : scope[run] \in {"none", scope_for(judged[run])}
    /\ \A run \in Runs : \A c \in Has(run) : Judged(run, results[run][c])
    /\ \A run \in Runs :
          phase[run] # "done" \/ run \in labelled \/ scope[run] # "none" =>
             \A c \in Has(run) : Labelled(results[run][c])

\* What a handler has read of a run is still so, and the rows it has read after
\* a scope have the flags the scope speaks of.
ScopeRead(run, read) == read \in {"none", scope[run]}

RowsRead(run, read, rows) ==
    \A c \in DOMAIN rows :
        /\ c \in Cases /\ rows[c] \in Row /\ Judged(run, rows[c])
        /\ read # "none" => Labelled(rows[c])

ReportInv ==
    /\ report.step \in Steps /\ report.overlap \in 0..MaxOverlap
    /\ DOMAIN report = Fields(report.step)
    /\ report.step # "idle" => ScopeRead("baseline", report.leftScope)
    /\ report.step \notin {"idle", "baseline"} => ScopeRead("candidate", report.rightScope)
    /\ report.step \in {"left", "answered"} => RowsRead("baseline", report.leftScope, report.left)
    /\ report.step = "answered" => RowsRead("candidate", report.rightScope, report.right)

Inv == RunsTyped /\ RunInv /\ ReportInv

LEMMA ThresholdsTyped ==
    ASSUME NEW run \in Runs, NEW y \in Yardsticks, top_k \in TopKs
    PROVE  thresholds(run, y) \in Thresholds /\ thresholds(run, y).k = top_k[run]
BY ReportsAssumption DEF thresholds, Thresholds

LEMMA ResultIsRow ==
    ASSUME NEW o \in Outcomes, NEW judge \in {o.judge, NoJudge}, NEW run \in Runs,
           NEW rules \in Thresholds, top_k \in TopKs, rules.k = top_k[run]
    PROVE  /\ Result(o, judge, rules) \in Row /\ Labelled(Result(o, judge, rules))
           /\ Result(o, judge, rules).judge = judge
<1> DEFINE metric == evaluate_case(o.gold, o.retrieved, rules.k)
<1>3. metric \in {evaluate_case(p.gold, p.retrieved, k[r]) :
                      p \in Outcomes, k \in TopKs, r \in Runs}
  OBVIOUS
<1>1. attribute_case(metric, judge, rules) \subseteq FlagNames
  BY FlagsAreNames
<1>2. Result(o, judge, rules) = [metrics |-> metric, judge |-> judge,
                                 flags |-> attribute_case(metric, judge, rules),
                                 rules |-> rules]
  BY DEF Result
<1> HIDE DEF metric
<1> QED BY <1>1, <1>2, <1>3 DEF Row, FlagNames, Labelled

LEMMA ExecutedIsRow ==
    ASSUME NEW run \in Runs, NEW o \in Outcomes, NEW y \in Yardsticks,
           judged[run] \in BOOLEAN, top_k \in TopKs
    PROVE  /\ Executed(run, o, y) \in Row /\ Labelled(Executed(run, o, y))
           /\ Judged(run, Executed(run, o, y))
<1>1. o.judge # NoJudge
  BY ReportsAssumption
<1> QED BY <1>1, ThresholdsTyped, ResultIsRow DEF Executed, Judged

\* A write between the reads changes what a report has read of nothing.
LEMMA InterferesKeeps ==
    ASSUME Inv, Interferes, judged' = judged,
           \A run \in Runs : scope[run] # "none" => scope'[run] = scope[run]
    PROVE  ReportInv'
<1> USE DEF Inv, ReportInv
<1>1. CASE report' = report
  <2>1. \A run \in Runs : \A read : ScopeRead(run, read) => ScopeRead(run, read)'
    BY DEF ScopeRead
  <2>2. \A run \in Runs : \A read, rows :
          RowsRead(run, read, rows) => RowsRead(run, read, rows)'
    BY DEF RowsRead, Judged
  <2> QED BY <1>1, <2>1, <2>2 DEF Runs
<1>2. CASE report.step # "idle" /\ report' = [report EXCEPT !.overlap = @ + 1]
  <2>1. report.overlap + 1 \in 0..MaxOverlap
    BY <1>2, ReportsAssumption DEF Interferes
  <2>2. /\ DOMAIN report' = DOMAIN report /\ report'.step = report.step
        /\ report'.overlap = report.overlap + 1
        /\ \A f \in DOMAIN report \ {"overlap"} : report'[f] = report[f]
    BY <1>2 DEF Fields
  <2>3. \A run \in Runs : \A read : ScopeRead(run, read) => ScopeRead(run, read)'
    BY DEF ScopeRead
  <2>4. \A run \in Runs : \A read, rows :
          RowsRead(run, read, rows) => RowsRead(run, read, rows)'
    BY DEF RowsRead, Judged
  <2>5. /\ report.step # "idle" => report'.leftScope = report.leftScope
        /\ report.step \notin {"idle", "baseline"} => report'.rightScope = report.rightScope
        /\ report.step \in {"left", "answered"} => report'.left = report.left
        /\ report.step = "answered" => report'.right = report.right
    BY <2>2 DEF Fields, Steps
  <2> QED BY <1>2, <2>1, <2>2, <2>3, <2>4, <2>5 DEF Runs
<1> QED BY <1>1, <1>2 DEF Interferes

\* A case is executed.
LEMMA CompleteItemInv ==
    ASSUME Inv, NEW run \in Runs, NEW c \in Cases, NEW o \in Outcomes,
           NEW y \in Yardsticks, CompleteItem(run, c, o, y)
    PROVE  Inv'
<1> DEFINE row == Executed(run, o, y)
<1>1. row \in Row /\ Labelled(row) /\ Judged(run, row)
  BY ExecutedIsRow DEF Inv, RunsTyped
<1>2. /\ results' = [results EXCEPT ![run][c] = row] /\ phase[run] = "running"
      /\ Interferes /\ UNCHANGED <<scope, judged, top_k, phase, labelled, notes>>
  BY DEF CompleteItem
<1> HIDE DEF row
<1>3. RunsTyped'
  BY <1>1, <1>2 DEF Inv, RunsTyped
<1>4. \A r \in Runs : \A d \in Has(r)' :
         \/ r = run /\ d = c /\ results'[r][d] = row
         \/ d \in Has(r) /\ results'[r][d] = results[r][d]
  BY <1>2 DEF Has, Inv, RunsTyped
<1>5. RunInv'
  <2>1. \A r \in Runs : \A d \in Has(r)' : Judged(r, results[r][d])'
    BY <1>1, <1>2, <1>4 DEF Inv, RunInv, Judged
  <2>2. ASSUME NEW r \in Runs, phase[r] # "done" \/ r \in labelled \/ scope[r] # "none"
        PROVE  \A d \in Has(r)' : Labelled(results'[r][d])
    BY <1>1, <1>4, <2>2 DEF Inv, RunInv
  <2> QED BY <1>2, <2>1, <2>2 DEF Inv, RunInv, Labelled
<1>6. ReportInv'
  BY <1>2, InterferesKeeps
<1> QED BY <1>3, <1>5, <1>6 DEF Inv

\* The job of a run ends, and its metrics are written.
LEMMA FinishJobInv ==
    ASSUME Inv, NEW run \in Runs, FinishJob(run)
    PROVE  Inv'
<1>1. /\ phase' = [phase EXCEPT ![run] = "ended"] /\ phase[run] = "running"
      /\ Interferes /\ UNCHANGED <<results, scope, judged, top_k, labelled, notes>>
  BY DEF FinishJob
<1>2. RunsTyped'
  BY <1>1 DEF Inv, RunsTyped
<1>3. \A r \in Runs : phase'[r] # "done" => phase[r] # "done"
  BY <1>1 DEF Inv, RunsTyped
<1>4. RunInv'
  BY <1>1, <1>3 DEF Inv, RunInv, Has, Judged, Labelled
<1>5. ReportInv'
  BY <1>1, InterferesKeeps
<1> QED BY <1>2, <1>4, <1>5 DEF Inv

LEMMA ScopeIsOne ==
    ASSUME NEW run \in Runs, judged[run] \in BOOLEAN
    PROVE  scope_for(judged[run]) \in Scopes \ {"none"}
BY DEF scope_for, Scopes

LEMMA AggregateMetricsInv ==
    ASSUME Inv, NEW run \in Runs, AggregateMetrics(run)
    PROVE  Inv'
<1>1. /\ phase' = [phase EXCEPT ![run] = "done"] /\ phase[run] = "ended"
      /\ scope' = [scope EXCEPT ![run] = scope_for(judged[run])]
      /\ Interferes /\ UNCHANGED <<results, judged, top_k, labelled, notes>>
  BY DEF AggregateMetrics
<1>2. scope_for(judged[run]) \in Scopes \ {"none"}
  BY ScopeIsOne DEF Inv, RunsTyped
<1>3. RunsTyped'
  BY <1>1, <1>2 DEF Inv, RunsTyped
<1>4. /\ scope'[run] = scope_for(judged[run])
      /\ \A r \in Runs \ {run} : phase'[r] = phase[r] /\ scope'[r] = scope[r]
  BY <1>1 DEF Inv, RunsTyped
<1>5. RunInv'
  BY <1>1, <1>4 DEF Inv, RunInv, Has, Judged, Labelled
<1>6. \A r \in Runs : scope[r] # "none" => scope'[r] = scope[r]
  BY <1>4 DEF Inv, RunInv
<1>7. ReportInv'
  BY <1>1, <1>6, InterferesKeeps
<1> QED BY <1>3, <1>5, <1>7 DEF Inv

\* The command asks the rules about every stored result, and about nothing else.
LEMMA RelabelledRows ==
    ASSUME Inv, NEW run \in Runs, NEW y \in Yardsticks, results' = Relabelled(run, y)
    PROVE  /\ results' \in [Runs -> [Cases -> Row \cup {NoResult}]]
           /\ \A c \in Has(run)' : /\ c \in Has(run) /\ Labelled(results'[run][c])
                                   /\ results'[run][c].judge = results[run][c].judge
           /\ \A r \in Runs \ {run} : results'[r] = results[r]
<1>1. results \in [Runs -> [Cases -> Row \cup {NoResult}]]
  BY DEF Inv, RunsTyped
<1> DEFINE rules == thresholds(run, y)
           new(c) == [results[run][c] EXCEPT
                         !.flags = attribute_case(results[run][c].metrics, results[run][c].judge,
                                                  rules),
                         !.rules = rules]
<1>2. ASSUME NEW c \in Has(run)
      PROVE  new(c) \in Row /\ Labelled(new(c)) /\ new(c).judge = results[run][c].judge
  <2>1. results[run][c] \in Row
    BY <1>1 DEF Has
  <2>2. attribute_case(results[run][c].metrics, results[run][c].judge, rules) \subseteq FlagNames
    BY FlagsAreNames
  <2>3. rules \in Thresholds
    BY ThresholdsTyped DEF Inv, RunsTyped
  <2> DEFINE Metrics == {evaluate_case(p.gold, p.retrieved, k[r]) :
                            p \in Outcomes, k \in TopKs, r \in Runs}
             Judgements == {p.judge : p \in Outcomes} \cup {NoJudge}
             row == results[run][c]
             flags == attribute_case(row.metrics, row.judge, rules)
  <2>4. Row = [metrics : Metrics, judge : Judgements, flags : SUBSET FlagNames, rules : Thresholds]
    BY DEF Row, FlagNames
  <2>5. new(c) = [row EXCEPT !.flags = flags, !.rules = rules] /\ flags \subseteq FlagNames
    BY <2>2
  <2> HIDE DEF rules, flags, new, row, Metrics, Judgements
  <2>6. /\ new(c) \in Row /\ new(c).flags = flags /\ new(c).rules = rules
        /\ new(c).metrics = row.metrics /\ new(c).judge = row.judge
    BY <2>1, <2>3, <2>4, <2>5 DEF row
  <2>7. flags = attribute_case(row.metrics, row.judge, rules)
    BY DEF flags
  <2> QED BY <2>6, <2>7 DEF Labelled, row
<1>3. results' = [results EXCEPT ![run] =
                     [c \in Cases |-> IF c \in Has(run) THEN new(c) ELSE NoResult]]
  BY DEF Relabelled
<1>4. Has(run) \subseteq Cases /\ Has(run)' \subseteq Cases
  BY DEF Has
<1> HIDE DEF new
<1>5. /\ \A c \in Cases : results'[run][c] = IF c \in Has(run) THEN new(c) ELSE NoResult
      /\ \A r \in Runs \ {run} : results'[r] = results[r]
      /\ results' \in [Runs -> [Cases -> Row \cup {NoResult}]]
  BY <1>1, <1>2, <1>3, <1>4
<1>6. \A c \in Has(run)' : c \in Has(run)
  BY <1>5 DEF Has
<1> QED BY <1>2, <1>4, <1>5, <1>6

LEMMA apply_planInv ==
    ASSUME Inv, NEW run \in Runs, NEW y \in Yardsticks, apply_plan(run, y)
    PROVE  Inv'
<1>1. Interferes /\ phase[run] = "done" /\ UNCHANGED <<judged, top_k, phase, notes>>
  BY DEF apply_plan
<1>2. CASE results' = Relabelled(run, y) /\ labelled' = labelled \cup {run} /\ UNCHANGED scope
  <2>1. /\ results' \in [Runs -> [Cases -> Row \cup {NoResult}]]
        /\ \A c \in Has(run)' : /\ c \in Has(run) /\ Labelled(results'[run][c])
                                /\ results'[run][c].judge = results[run][c].judge
        /\ \A r \in Runs \ {run} : results'[r] = results[r]
    BY <1>2, RelabelledRows
  <2>2. RunsTyped'
    BY <1>1, <1>2, <2>1 DEF Inv, RunsTyped
  <2>3. \A r \in Runs \ {run} : Has(r)' = Has(r)
    BY <2>1 DEF Has
  <2>4. \A r \in Runs : \A c \in Has(r)' : Judged(r, results[r][c])'
    BY <1>1, <2>1, <2>3 DEF Inv, RunInv, Judged
  <2>5. ASSUME NEW r \in Runs, phase[r] # "done" \/ r \in labelled' \/ scope[r] # "none"
        PROVE  \A c \in Has(r)' : Labelled(results'[r][c])
    BY <1>2, <2>1, <2>3, <2>5 DEF Inv, RunInv
  <2>6. RunInv'
    BY <1>1, <1>2, <2>4, <2>5 DEF Inv, RunInv, Labelled
  <2>7. ReportInv'
    BY <1>1, <1>2, InterferesKeeps
  <2> QED BY <2>2, <2>6, <2>7 DEF Inv
<1>3. CASE /\ run \in labelled /\ scope' = [scope EXCEPT ![run] = scope_for(judged[run])]
           /\ labelled' = labelled \ {run} /\ UNCHANGED results
  <2>1. scope_for(judged[run]) \in Scopes \ {"none"}
    BY ScopeIsOne DEF Inv, RunsTyped
  <2>2. RunsTyped'
    BY <1>1, <1>3, <2>1 DEF Inv, RunsTyped
  <2>3. /\ scope'[run] = scope_for(judged[run])
        /\ \A r \in Runs \ {run} : scope'[r] = scope[r]
    BY <1>3 DEF Inv, RunsTyped
  <2>4. RunInv'
    BY <1>1, <1>3, <2>3 DEF Inv, RunInv, Has, Judged, Labelled
  <2>5. \A r \in Runs : scope[r] # "none" => scope'[r] = scope[r]
    BY <2>3 DEF Inv, RunInv
  <2>6. ReportInv'
    BY <1>1, <2>5, InterferesKeeps
  <2> QED BY <2>2, <2>4, <2>6 DEF Inv
<1> QED BY <1>2, <1>3 DEF apply_plan

LEMMA AnnotateInv ==
    ASSUME Inv, NEW c \in Annotated, NEW to \in Statuses, Annotate(c, to)
    PROVE  Inv'
<1>1. /\ notes' = [notes EXCEPT ![c] = to] /\ Interferes
      /\ UNCHANGED <<results, scope, judged, top_k, phase, labelled>>
  BY DEF Annotate
<1>2. RunsTyped'
  BY <1>1 DEF Inv, RunsTyped
<1>3. RunInv'
  BY <1>1 DEF Inv, RunInv, Has, Judged, Labelled
<1>4. ReportInv'
  BY <1>1, InterferesKeeps
<1> QED BY <1>2, <1>3, <1>4 DEF Inv

-----------------------------------------------------------------------------
(* The reads of a report. *)

LEMMA Listed ==
    ASSUME NEW rows, NEW limit
    PROVE  LET list == ListRunCaseResults(rows, limit) IN
           DOMAIN list \subseteq DOMAIN rows /\ \A c \in DOMAIN list : list[c] = rows[c]
<1> DEFINE Earlier(c) == {d \in DOMAIN rows :
               \/ floatField(rows[d].metrics, "recall") < floatField(rows[c].metrics, "recall")
               \/ floatField(rows[d].metrics, "recall") = floatField(rows[c].metrics, "recall")
                  /\ d < c}
           S == {d \in DOMAIN rows : Cardinality(Earlier(d)) < limit}
<1>1. ListRunCaseResults(rows, limit) = [c \in S |-> rows[c]]
  BY DEF ListRunCaseResults
<1>2. S \subseteq DOMAIN rows
  OBVIOUS
<1> HIDE DEF S
<1> QED BY <1>1, <1>2

\* Rows read after a scope have the flags it speaks of, for nobody writes others.
LEMMA RowsAreRead ==
    ASSUME Inv, NEW run \in Runs, NEW read, ScopeRead(run, read)
    PROVE  RowsRead(run, read, Rows(run))
<1> DEFINE stored == [c \in Has(run) |-> results[run][c]]
<1>1. /\ DOMAIN Rows(run) \subseteq DOMAIN stored
      /\ \A c \in DOMAIN Rows(run) : Rows(run)[c] = stored[c]
  BY Listed DEF Rows
<1>2. \A c \in DOMAIN Rows(run) : c \in Has(run) /\ Rows(run)[c] = results[run][c]
  BY <1>1
<1>3. \A c \in Has(run) : results[run][c] \in Row /\ Judged(run, results[run][c])
  BY DEF Inv, RunsTyped, RunInv, Has
<1>4. read # "none" => \A c \in Has(run) : Labelled(results[run][c])
  BY DEF Inv, RunInv, ScopeRead
<1>5. Has(run) \subseteq Cases
  BY DEF Has
<1> HIDE DEF stored
<1> QED BY <1>2, <1>3, <1>4, <1>5 DEF RowsRead

\* One more field is read, and the others stay as they are.
LEMMA ReadsField ==
    ASSUME ReportInv, NEW from, NEW to, NEW field, NEW value, Reads(from, to, field, value),
           field \notin {"step", "overlap"}
    PROVE  /\ DOMAIN report' = DOMAIN report \cup {field}
           /\ report'.step = to /\ report'.overlap = report.overlap /\ report'[field] = value
           /\ \A f \in DOMAIN report \ {"step", field} : report'[f] = report[f]
<1>1. {"step", "overlap"} \subseteq DOMAIN report
  BY DEF ReportInv, Fields
<1>2. report' = [f \in DOMAIN report \cup {field} |->
                    CASE f = "step" -> to [] f = field -> value [] OTHER -> report[f]]
  BY DEF Reads
<1> QED BY <1>1, <1>2

LEMMA ReadsInv ==
    ASSUME Inv, UNCHANGED <<results, scope, judged, top_k, phase, labelled, notes>>, ReportInv'
    PROVE  Inv'
<1>1. RunsTyped'
  BY DEF Inv, RunsTyped
<1>2. RunInv'
  BY DEF Inv, RunInv, Has, Judged, Labelled
<1> QED BY <1>1, <1>2 DEF Inv

LEMMA SameRuns ==
    ASSUME UNCHANGED <<results, scope, judged, top_k, phase, labelled, notes>>, NEW run, NEW read, NEW rows
    PROVE  /\ ScopeRead(run, read) => ScopeRead(run, read)'
           /\ RowsRead(run, read, rows) => RowsRead(run, read, rows)'
BY DEF ScopeRead, RowsRead, Judged

LEMMA ReadBaselineRunInv ==
    ASSUME Inv, ReadBaselineRun
    PROVE  Inv'
<1> DEFINE value == scope["baseline"]
<1>1. /\ Reads("idle", "baseline", "leftScope", value) /\ report.step = "idle"
      /\ UNCHANGED <<results, scope, judged, top_k, phase, labelled, notes>>
  BY DEF ReadBaselineRun, Reads
<1> HIDE DEF value
<1>2. /\ DOMAIN report' = DOMAIN report \cup {"leftScope"} /\ report'.step = "baseline"
      /\ report'.overlap = report.overlap /\ report'.leftScope = value
  BY <1>1, ReadsField DEF Inv
<1>3. ScopeRead("baseline", report.leftScope)'
  BY <1>1, <1>2 DEF value, ScopeRead
<1>4. DOMAIN report' = Fields("baseline")
  BY <1>1, <1>2 DEF Inv, ReportInv, Fields
<1>5. ReportInv'
  BY <1>1, <1>2, <1>3, <1>4 DEF Inv, ReportInv, Steps
<1> QED BY <1>1, <1>5, ReadsInv

LEMMA ReadCandidateRunInv ==
    ASSUME Inv, ReadCandidateRun
    PROVE  Inv'
<1> DEFINE value == scope["candidate"]
<1>1. /\ Reads("baseline", "candidate", "rightScope", value) /\ report.step = "baseline"
      /\ UNCHANGED <<results, scope, judged, top_k, phase, labelled, notes>>
  BY DEF ReadCandidateRun, Reads
<1> HIDE DEF value
<1>2. ReportInv /\ "rightScope" \notin {"step", "overlap"}
  BY DEF Inv
<1>3. /\ DOMAIN report' = DOMAIN report \cup {"rightScope"} /\ report'.step = "candidate"
      /\ report'.overlap = report.overlap /\ report'.rightScope = value
      /\ \A f \in DOMAIN report \ {"step", "rightScope"} : report'[f] = report[f]
  BY <1>1, <1>2, ReadsField
<1>4. DOMAIN report' = Fields("candidate") /\ report'.leftScope = report.leftScope
  BY <1>1, <1>3 DEF Inv, ReportInv, Fields
<1>5. /\ ScopeRead("baseline", report.leftScope)'
      /\ ScopeRead("candidate", report.rightScope)'
  BY <1>1, <1>3, <1>4 DEF value, ScopeRead, Inv, ReportInv
<1>6. ReportInv'
  BY <1>1, <1>3, <1>4, <1>5 DEF Inv, ReportInv, Steps
<1> QED BY <1>1, <1>6, ReadsInv

LEMMA ReadNotesInv ==
    ASSUME Inv, ReadNotes
    PROVE  Inv'
<1> DEFINE value == [c \in {d \in Annotated : notes[d] # NoNote} |-> notes[c]]
<1>1. /\ Reads("candidate", "notes", "notes", value) /\ report.step = "candidate"
      /\ UNCHANGED <<results, scope, judged, top_k, phase, labelled, notes>>
  BY DEF ReadNotes, Reads
<1> HIDE DEF value
<1>2. /\ DOMAIN report' = DOMAIN report \cup {"notes"} /\ report'.step = "notes"
      /\ report'.overlap = report.overlap
      /\ \A f \in DOMAIN report \ {"step", "notes"} : report'[f] = report[f]
  BY <1>1, ReadsField DEF Inv
<1>3. /\ DOMAIN report' = Fields("notes")
      /\ report'.leftScope = report.leftScope /\ report'.rightScope = report.rightScope
  BY <1>1, <1>2 DEF Inv, ReportInv, Fields
<1>4. /\ ScopeRead("baseline", report.leftScope)'
      /\ ScopeRead("candidate", report.rightScope)'
  BY <1>1, <1>3 DEF ScopeRead, Inv, ReportInv
<1>5. ReportInv'
  BY <1>1, <1>2, <1>3, <1>4 DEF Inv, ReportInv, Steps
<1> QED BY <1>1, <1>5, ReadsInv

LEMMA ReadBaselineCasesInv ==
    ASSUME Inv, ReadBaselineCases
    PROVE  Inv'
<1> DEFINE value == Rows("baseline")
<1>1. /\ Reads("notes", "left", "left", value) /\ report.step = "notes"
      /\ UNCHANGED <<results, scope, judged, top_k, phase, labelled, notes>>
  BY DEF ReadBaselineCases, Reads
<1>2. RowsRead("baseline", report.leftScope, value)
  BY <1>1, RowsAreRead DEF Inv, ReportInv, Runs
<1> HIDE DEF value
<1>3. /\ DOMAIN report' = DOMAIN report \cup {"left"} /\ report'.step = "left"
      /\ report'.overlap = report.overlap /\ report'.left = value
      /\ \A f \in DOMAIN report \ {"step", "left"} : report'[f] = report[f]
  BY <1>1, ReadsField DEF Inv
<1>4. /\ DOMAIN report' = Fields("left")
      /\ report'.leftScope = report.leftScope /\ report'.rightScope = report.rightScope
  BY <1>1, <1>3 DEF Inv, ReportInv, Fields
<1>5. /\ ScopeRead("baseline", report.leftScope)'
      /\ ScopeRead("candidate", report.rightScope)'
  BY <1>1, <1>4 DEF ScopeRead, Inv, ReportInv
<1>6. RowsRead("baseline", report.leftScope, report.left)'
  BY <1>1, <1>2, <1>3, <1>4 DEF RowsRead, Judged
<1>7. ReportInv'
  BY <1>1, <1>3, <1>4, <1>5, <1>6 DEF Inv, ReportInv, Steps
<1> QED BY <1>1, <1>7, ReadsInv

LEMMA ReadCandidateCasesInv ==
    ASSUME Inv, ReadCandidateCases
    PROVE  Inv'
<1> DEFINE value == Rows("candidate")
<1>1. /\ Reads("left", "answered", "right", value) /\ report.step = "left"
      /\ UNCHANGED <<results, scope, judged, top_k, phase, labelled, notes>>
  BY DEF ReadCandidateCases, Reads
<1>2. RowsRead("candidate", report.rightScope, value)
  BY <1>1, RowsAreRead DEF Inv, ReportInv, Runs
<1> HIDE DEF value
<1>3. /\ DOMAIN report' = DOMAIN report \cup {"right"} /\ report'.step = "answered"
      /\ report'.overlap = report.overlap /\ report'.right = value
      /\ \A f \in DOMAIN report \ {"step", "right"} : report'[f] = report[f]
  BY <1>1, ReadsField DEF Inv
<1>4. /\ DOMAIN report' = Fields("answered")
      /\ report'.leftScope = report.leftScope /\ report'.rightScope = report.rightScope
      /\ report'.left = report.left
  BY <1>1, <1>3 DEF Inv, ReportInv, Fields
<1>5. /\ ScopeRead("baseline", report.leftScope)'
      /\ ScopeRead("candidate", report.rightScope)'
  BY <1>1, <1>4 DEF ScopeRead, Inv, ReportInv
<1>6. RowsRead("baseline", report.leftScope, report.left)
  BY <1>1 DEF Inv, ReportInv
<1>7. /\ RowsRead("baseline", report.leftScope, report.left)'
      /\ RowsRead("candidate", report.rightScope, report.right)'
  BY <1>1, <1>2, <1>3, <1>4, <1>6 DEF RowsRead, Judged
<1>8. ReportInv'
  BY <1>1, <1>3, <1>4, <1>5, <1>7 DEF Inv, ReportInv, Steps
<1> QED BY <1>1, <1>8, ReadsInv

LEMMA IdleInv == ReportsAssumption /\ report = Idle => ReportInv
BY DEF ReportInv, Idle, Fields, Steps

\* One run waits; the other one has been executed, and perhaps has no flags.
LEMMA InitInv == Init => Inv
<1> SUFFICES ASSUME Init PROVE Inv
  OBVIOUS
<1>0. PICK run \in Runs, old \in BOOLEAN, y \in Yardsticks :
         /\ phase = [r \in Runs |-> IF r = run THEN "done" ELSE "running"]
         /\ scope = [r \in Runs |-> IF r = run /\ ~old THEN scope_for(judged[run]) ELSE "none"]
         /\ \E o \in [Cases -> Outcomes] :
               results = [r \in Runs |-> [c \in Cases |->
                  IF r # run THEN NoResult
                  ELSE IF old THEN [Executed(run, o[c], y) EXCEPT !.flags = {}]
                  ELSE Executed(run, o[c], y)]]
  BY Zenon DEF Init
<1>1. PICK o \in [Cases -> Outcomes] :
         /\ phase = [r \in Runs |-> IF r = run THEN "done" ELSE "running"]
         /\ scope = [r \in Runs |-> IF r = run /\ ~old THEN scope_for(judged[run]) ELSE "none"]
         /\ results = [r \in Runs |-> [c \in Cases |->
               IF r # run THEN NoResult
               ELSE IF old THEN [Executed(run, o[c], y) EXCEPT !.flags = {}]
               ELSE Executed(run, o[c], y)]]
  BY <1>0
<1>2. judged \in [Runs -> BOOLEAN] /\ top_k \in TopKs /\ labelled = {} /\ notes = [c \in Annotated |-> NoNote]
  BY DEF Init
<1>3. ASSUME NEW c \in Cases
      PROVE  LET row == Executed(run, o[c], y)
                 bare == [row EXCEPT !.flags = {}]
             IN  /\ row \in Row /\ Labelled(row) /\ Judged(run, row)
                 /\ bare \in Row /\ Judged(run, bare)
  <2> DEFINE row == Executed(run, o[c], y)
  <2>1. row \in Row /\ Labelled(row) /\ Judged(run, row)
    BY <1>2, ExecutedIsRow
  <2> HIDE DEF row
  <2>2. [row EXCEPT !.flags = {}] \in Row /\ [row EXCEPT !.flags = {}].judge = row.judge
    BY <2>1 DEF Row
  <2> QED BY <2>1, <2>2 DEF Judged, row
<1>4. /\ \A c \in Cases, r \in Runs \ {run} : results[r][c] = NoResult
      /\ \A c \in Cases : results[run][c] \in Row /\ Judged(run, results[run][c])
      /\ ~old => \A c \in Cases : Labelled(results[run][c])
  BY <1>1, <1>3
<1>5. RunsTyped
  <2>1. results \in [Runs -> [Cases -> Row \cup {NoResult}]]
    <3> DEFINE stored(r, c) == IF r # run THEN NoResult
                               ELSE IF old THEN [Executed(run, o[c], y) EXCEPT !.flags = {}]
                               ELSE Executed(run, o[c], y)
    <3>1. \A r \in Runs, c \in Cases : stored(r, c) \in Row \cup {NoResult}
      BY <1>3
    <3>2. results = [r \in Runs |-> [c \in Cases |-> stored(r, c)]]
      BY <1>1
    <3> HIDE DEF stored
    <3> QED BY <3>1, <3>2
  <2>2. scope_for(judged[run]) \in Scopes /\ "none" \in Scopes
    BY <1>2, ScopeIsOne DEF Scopes
  <2> QED BY <1>1, <1>2, <2>1, <2>2 DEF RunsTyped
<1>6. RunInv
  <2>1. \A r \in Runs : \A c \in Has(r) : r = run /\ c \in Cases
    BY <1>4 DEF Has
  <2>2. scope[run] # "none" => ~old
    BY <1>1
  <2>3. phase[run] = "done" /\ \A r \in Runs : scope[r] \in {"none", scope_for(judged[r])}
    BY <1>1
  <2> QED BY <1>2, <1>4, <2>1, <2>2, <2>3 DEF RunInv
<1>7. ReportInv
  BY IdleInv, ReportsAssumption DEF Init
<1> QED BY <1>5, <1>6, <1>7 DEF Inv

LEMMA NextInv == Inv /\ [Next]_vars => Inv'
<1> SUFFICES ASSUME Inv, [Next]_vars PROVE Inv'
  OBVIOUS
<1>1. CASE UNCHANGED vars
  <2>1. ReportInv'
    BY <1>1, SameRuns DEF Inv, ReportInv, vars
  <2> QED BY <1>1, <2>1, ReadsInv DEF vars
<1>2. CASE Deliver
  <2>1. ReportInv'
    BY <1>2, ReportsAssumption DEF Deliver, ReportInv, Idle, Fields, Steps
  <2> QED BY <1>2, <2>1, ReadsInv DEF Deliver
<1>3. CASE \E run \in Runs, c \in Cases, o \in Outcomes, y \in Yardsticks :
                CompleteItem(run, c, o, y)
  BY <1>3, CompleteItemInv
<1>4. CASE \E run \in Runs, y \in Yardsticks : apply_plan(run, y)
  BY <1>4, apply_planInv
<1>5. CASE \E c \in Annotated, to \in Targets : Annotate(c, to)
  BY <1>5, AnnotateInv, ReportsAssumption
<1> QED BY <1>1, <1>2, <1>3, <1>4, <1>5, FinishJobInv, AggregateMetricsInv,
           ReadBaselineRunInv, ReadCandidateRunInv, ReadNotesInv,
           ReadBaselineCasesInv, ReadCandidateCasesInv DEF Next

-----------------------------------------------------------------------------
(* What the reports say. *)

\* Types.
THEOREM TypesCorrect == Spec => []TypeOK
<1>1. Inv => TypeOK
  BY DEF Inv, RunsTyped, ReportInv, TypeOK, Steps
<1> QED BY <1>1, InitInv, NextInv, PTL DEF Spec

\* The rows of an answer and what a comparison takes of them.
Left == toABCases(report.left)
Right == toABCases(report.right)
Shared == DOMAIN report.left \cap DOMAIN report.right

LEMMA SameFlags ==
    ASSUME NEW rows
    PROVE  /\ DOMAIN toABCases(rows) = DOMAIN rows
           /\ DOMAIN toClosureCases(rows) = DOMAIN rows
           /\ \A c \in DOMAIN rows : /\ toABCases(rows)[c].flags = rows[c].flags
                                     /\ toClosureCases(rows)[c].flags = rows[c].flags
BY DEF toABCases, toABCase, toClosureCases, toClosureCase

LEMMA ComparedCases ==
    /\ Compared.comparable = Comparable(Left, Right, Shared)
    /\ Compared.fixed \subseteq Shared /\ Compared.broke \subseteq Shared
    /\ Compared.changed \subseteq Shared
    /\ Compared.comparable => \A c \in Shared :
          LET t == FlagTransition(report.left[c].flags, report.right[c].flags) IN
          /\ c \in Compared.fixed <=> t = "fixed"
          /\ c \in Compared.broke <=> t = "broke"
          /\ c \in Compared.changed <=> t = "changed"
    /\ ~Compared.comparable => Compared.fixed = {}
<1> DEFINE comparable == Comparable(Left, Right, Shared)
           compared == IF comparable THEN Shared ELSE {}
           Moved(t) == {c \in compared : FlagTransition(Left[c].flags, Right[c].flags) = t}
<1>1. DOMAIN Left = DOMAIN report.left /\ DOMAIN Right = DOMAIN report.right
  BY SameFlags DEF Left, Right
<1>2. /\ Compared.comparable = comparable /\ Compared.fixed = Moved("fixed")
      /\ Compared.broke = Moved("broke") /\ Compared.changed = Moved("changed")
  BY <1>1 DEF Compared, ComputeAB, Left, Right, Shared
<1>3. \A c \in Shared : /\ Left[c].flags = report.left[c].flags
                        /\ Right[c].flags = report.right[c].flags
  BY SameFlags DEF Left, Right, Shared
<1> HIDE DEF comparable
<1>4. \A c, t : c \in Moved(t) <=>
         /\ comparable /\ c \in Shared
         /\ FlagTransition(report.left[c].flags, report.right[c].flags) = t
  BY <1>3
<1> HIDE DEF Moved
<1> QED BY <1>2, <1>4 DEF comparable

LEMMA FixedFlags ==
    ASSUME NEW c \in Compared.fixed
    PROVE  /\ c \in Shared /\ report.left[c].flags # {} /\ report.right[c].flags = {}
<1>1. c \in Shared /\ FlagTransition(report.left[c].flags, report.right[c].flags) = "fixed"
  BY ComparedCases
<1> QED BY <1>1 DEF FlagTransition

\* What the state of an answer says of the rows it was made from.
LEMMA AnswerRows ==
    ASSUME Inv, Answered, NEW c
    PROVE  /\ c \in DOMAIN report.left =>
                /\ c \in Cases /\ report.left[c] \in Row /\ Judged("baseline", report.left[c])
                /\ report.leftScope # "none" => Labelled(report.left[c])
           /\ c \in DOMAIN report.right =>
                /\ report.right[c] \in Row /\ Judged("candidate", report.right[c])
                /\ report.rightScope # "none" => Labelled(report.right[c])
BY DEF Inv, ReportInv, Answered, RowsRead

\* When both runs are labelled, a case that counts as fixed is repaired in the
\* candidate and was not in the baseline, whatever is written between the reads.
\* (runs_compare.go:113-121, cli/attribution.py:172-175.)
THEOREM FixedRepaired == Spec => []FixedIsRepaired
<1>1. Inv => FixedIsRepaired
  <2> SUFFICES ASSUME Inv, Answered, BothLabelled, NEW c \in Compared.fixed
               PROVE  Repaired(report.right[c]) /\ ~Repaired(report.left[c])
    BY DEF FixedIsRepaired
  <2>1. /\ c \in DOMAIN report.left /\ c \in DOMAIN report.right
        /\ report.left[c].flags # {} /\ report.right[c].flags = {}
    BY FixedFlags DEF Shared
  <2>2. /\ report.left[c] \in Row /\ Labelled(report.left[c])
        /\ report.right[c] \in Row /\ Labelled(report.right[c])
    BY <2>1, AnswerRows DEF BothLabelled
  <2> QED BY <2>1, <2>2, CleanIsRepaired
<1> QED BY <1>1, InitInv, NextInv, PTL DEF Spec

\* What a closure says of a case.
Mismatch == attributionMismatch(hasAttribution(report.leftScope), hasAttribution(report.rightScope))

LEMMA ClosureRecords ==
    /\ DOMAIN Closed.records = DOMAIN report.notes \cap DOMAIN report.left
    /\ \A c \in DOMAIN Closed.records :
          LET record == Closed.records[c]
              verdict == closureVerdict(toClosureCases(report.left), toClosureCases(report.right),
                                        c, Mismatch)
          IN  record.verdict = verdict
              /\ record.eligible = (verdict = "improved" /\ report.notes[c] = "fixed")
<1> DEFINE left == toClosureCases(report.left)
           right == toClosureCases(report.right)
           covered == {c \in DOMAIN report.notes \cap DOMAIN left :
                          "any" \in {"any", report.notes[c]}}
<1>1. Closed.records =
         [c \in covered |-> ClosureRecord(left, right, c, Mismatch, report.notes[c])]
  BY DEF Closed, ComputeClosure, Mismatch
<1>2. covered = DOMAIN report.notes \cap DOMAIN report.left
  BY SameFlags
<1> HIDE DEF covered
<1>3. \A c \in covered :
         Closed.records[c] = ClosureRecord(left, right, c, Mismatch, report.notes[c])
  BY <1>1
<1> HIDE DEF left, right
<1>4. \A c : LET record == ClosureRecord(left, right, c, Mismatch, report.notes[c])
                 verdict == closureVerdict(left, right, c, Mismatch)
             IN  record.verdict = verdict
                 /\ record.eligible = (verdict = "improved" /\ report.notes[c] = "fixed")
  BY DEF ClosureRecord
<1> QED BY <1>1, <1>2, <1>3, <1>4 DEF left, right

LEMMA VerdictByFlags ==
    ASSUME NEW c \in DOMAIN report.left
    PROVE  LET verdict == closureVerdict(toClosureCases(report.left), toClosureCases(report.right),
                                         c, Mismatch)
               t == FlagTransition(report.left[c].flags, report.right[c].flags)
           IN  IF c \notin DOMAIN report.right \/ Mismatch # "none" THEN verdict = "unverifiable"
               ELSE /\ verdict = "improved" <=> t = "fixed"
                    /\ verdict = "worsened" <=> t = "broke"
                    /\ verdict = "changed" <=> t = "changed"
<1> DEFINE left == toClosureCases(report.left)
           right == toClosureCases(report.right)
<1>1. /\ DOMAIN right = DOMAIN report.right /\ left[c].flags = report.left[c].flags
      /\ c \in DOMAIN report.right => right[c].flags = report.right[c].flags
  BY SameFlags
<1> HIDE DEF left, right
<1>2. CASE c \notin DOMAIN report.right \/ Mismatch # "none"
  BY <1>1, <1>2 DEF closureVerdict, left, right
<1>3. CASE c \in DOMAIN report.right /\ Mismatch = "none"
  <2> DEFINE t == FlagTransition(report.left[c].flags, report.right[c].flags)
  <2>1. t \in {"fixed", "broke", "changed", "stable"}
    BY DEF FlagTransition
  <2>2. closureVerdict(left, right, c, Mismatch) =
           CASE t = "fixed" -> "improved" [] t = "broke" -> "worsened" [] OTHER -> t
    BY <1>1, <1>3 DEF closureVerdict
  <2> HIDE DEF t
  <2> QED BY <1>3, <2>1, <2>2 DEF left, right, t
<1> QED BY <1>2, <1>3

\* A case that may be closed is repaired, if at least one of the runs is labelled.
\* (closure.go:179-182.)
THEOREM ClosedRepaired == Spec => []ClosedIsRepaired
<1>1. Inv => ClosedIsRepaired
  <2> SUFFICES ASSUME Inv, Answered, report.leftScope # "none" \/ report.rightScope # "none",
                      NEW c \in DOMAIN Closed.records, Closed.records[c].eligible
               PROVE  Repaired(report.right[c])
    BY DEF ClosedIsRepaired
  <2>1. /\ c \in DOMAIN report.left
        /\ closureVerdict(toClosureCases(report.left), toClosureCases(report.right),
                          c, Mismatch) = "improved"
    BY ClosureRecords
  <2>2. /\ c \in DOMAIN report.right /\ Mismatch = "none"
        /\ FlagTransition(report.left[c].flags, report.right[c].flags) = "fixed"
    BY <2>1, VerdictByFlags
  <2>3. report.rightScope # "none"
    BY <2>2 DEF Mismatch, attributionMismatch, hasAttribution
  <2>4. report.right[c] \in Row /\ Labelled(report.right[c]) /\ report.right[c].flags = {}
    BY <2>2, <2>3, AnswerRows DEF FlagTransition
  <2> QED BY <2>4, CleanIsRepaired
<1> QED BY <1>1, InitInv, NextInv, PTL DEF Spec

\* Between runs whose flags cover the same part of the pipeline, no case counts
\* as fixed because nobody judged it. (eval/ab.go:22-24.)
THEOREM FixedJudged == Spec => []FixedWasJudged
<1>1. ASSUME NEW row, Labelled(row), row.judge = NoJudge
      PROVE  row.flags \cap JudgeFlagNames = {}
  BY <1>1 DEF Labelled, attribute_case, RetrievalFlags, JudgeFlags, JudgeFlagNames
<1>2. Inv => FixedWasJudged
  <2> SUFFICES ASSUME Inv, Answered, BothLabelled, report.leftScope = report.rightScope,
                      NEW c \in Compared.fixed, report.left[c].flags \cap JudgeFlagNames # {}
               PROVE  report.right[c].judge # NoJudge
    BY DEF FixedWasJudged, LostByJudging
  <2>1. c \in DOMAIN report.left /\ c \in DOMAIN report.right
    BY FixedFlags DEF Shared
  <2>2. /\ Labelled(report.left[c]) /\ Judged("baseline", report.left[c])
        /\ Judged("candidate", report.right[c])
    BY <2>1, AnswerRows DEF BothLabelled
  <2>3. judged["baseline"]
    BY <1>1, <2>2 DEF Judged
  <2>4. /\ report.leftScope = scope["baseline"] /\ report.rightScope = scope["candidate"]
        /\ report.leftScope # "none" /\ report.rightScope # "none"
    BY DEF Inv, ReportInv, ScopeRead, Answered, BothLabelled
  <2>5. scope_for(judged["baseline"]) = scope_for(judged["candidate"])
    BY <2>4 DEF Inv, RunInv, Runs
  <2>6. judged["candidate"]
    BY <2>3, <2>5 DEF scope_for
  <2> QED BY <2>2, <2>6 DEF Judged
<1> QED BY <1>2, InitInv, NextInv, PTL DEF Spec

\* Where both reports judge a case they give one answer. (closure.go:15-17,
\* ab.go:350-354.)
THEOREM OneAnswerAlways == Spec => []OneAnswer
<1>1. OneAnswer
  <2> SUFFICES ASSUME Compared.comparable, NEW c \in DOMAIN Closed.records,
                      Closed.records[c].verdict # "unverifiable"
               PROVE  /\ Closed.records[c].verdict = "improved" <=> c \in Compared.fixed
                      /\ Closed.records[c].verdict = "worsened" <=> c \in Compared.broke
                      /\ Closed.records[c].verdict = "changed" <=> c \in Compared.changed
    BY DEF OneAnswer
  <2> DEFINE verdict == closureVerdict(toClosureCases(report.left), toClosureCases(report.right),
                                       c, Mismatch)
  <2>1. c \in DOMAIN report.left /\ Closed.records[c].verdict = verdict
    BY ClosureRecords
  <2> HIDE DEF verdict
  <2> DEFINE t == FlagTransition(report.left[c].flags, report.right[c].flags)
  <2>2. /\ c \in DOMAIN report.right
        /\ verdict = "improved" <=> t = "fixed"
        /\ verdict = "worsened" <=> t = "broke"
        /\ verdict = "changed" <=> t = "changed"
    BY <2>1, VerdictByFlags DEF verdict
  <2>3. /\ c \in Compared.fixed <=> t = "fixed"
        /\ c \in Compared.broke <=> t = "broke"
        /\ c \in Compared.changed <=> t = "changed"
    BY <2>1, <2>2, ComparedCases DEF Shared
  <2> QED BY <2>1, <2>2, <2>3
<1> QED BY <1>1, PTL

\* A case one of the runs did not judge leaves the generation metrics alone.
\* (ab.go:398-401.)
THEOREM UnjudgedLeftOut == Spec => []UnjudgedNotCompared
<1>1. UnjudgedNotCompared
  <2> DEFINE both == {c \in DOMAIN Left \cap DOMAIN Right :
                         Left[c].judge # NoJudge /\ Right[c].judge # NoJudge}
  <2> SUFFICES ASSUME Compared.comparable, NEW name \in GenerationMetrics
               PROVE  Compared.summary[name] = compareMetric(Left, Right, both, name)
    BY DEF UnjudgedNotCompared, Left, Right
  <2>1. Compared.summary[name] = compareMetric(Left, Right, DOMAIN Left \cap DOMAIN Right, name)
    BY DEF Compared, ComputeAB, Left, Right
  <2>2. name \notin MetricsCompared
    BY DEF GenerationMetrics, Rates, RubricScores, MetricsCompared
  <2>3. \A item : Value(name, item) # NoValue => item.judge # NoJudge
    BY <2>2 DEF Value
  <2>4. Pairs(Left, Right, DOMAIN Left \cap DOMAIN Right, name) = Pairs(Left, Right, both, name)
    BY <2>3 DEF Pairs
  <2> QED BY <2>1, <2>4 DEF compareMetric
<1> QED BY <1>1, PTL

-----------------------------------------------------------------------------
(* The strata of a comparison. *)

FlaggedLeft == {c \in Shared : report.left[c].flags # {}}
FlaggedRight == {c \in Shared : report.right[c].flags # {}}

\* Without the cases flagged on both sides, the flagged ones are those that
\* turned.
LEMMA TurnedCases ==
    ASSUME Compared.comparable
    PROVE  /\ Compared.fixed = FlaggedLeft \ FlaggedRight
           /\ Compared.broke = FlaggedRight \ FlaggedLeft
<1>1. \A c \in Shared :
         LET t == FlagTransition(report.left[c].flags, report.right[c].flags) IN
         /\ t = "fixed" <=> c \in FlaggedLeft /\ c \notin FlaggedRight
         /\ t = "broke" <=> c \notin FlaggedLeft /\ c \in FlaggedRight
  BY DEF FlagTransition, FlaggedLeft, FlaggedRight
<1>2. \A c \in Shared :
         LET t == FlagTransition(report.left[c].flags, report.right[c].flags) IN
         /\ c \in Compared.fixed <=> t = "fixed"
         /\ c \in Compared.broke <=> t = "broke"
  BY ComparedCases
<1>3. Compared.fixed \subseteq Shared /\ Compared.broke \subseteq Shared
  BY ComparedCases
<1>4. FlaggedLeft \subseteq Shared /\ FlaggedRight \subseteq Shared
  BY DEF FlaggedLeft, FlaggedRight
<1> QED BY <1>1, <1>2, <1>3, <1>4

\* The flagged cases of all groups are the flagged cases.
LEMMA FlaggedInGroups ==
    ASSUME IsFiniteSet(Shared), NEW F \in SUBSET Shared
    PROVE  LET keys == {Category[c] : c \in Shared} IN
           /\ IsFiniteSet(keys)
           /\ \A k \in keys : Cardinality({c \in F : Category[c] = k}) \in Nat
           /\ SumFunctionOnSet([k \in keys |-> Cardinality({c \in F : Category[c] = k})], keys)
                 = Cardinality(F)
<1> DEFINE keys == {Category[c] : c \in Shared}
           all == [c \in Shared |-> Category[c]]
           key == [c \in F |-> Category[c]]
           size == [k \in keys |-> Cardinality({c \in F : Category[c] = k})]
<1>1. IsFiniteSet(keys)
  <2>1. all \in Surjection(Shared, keys)
    BY DEF Surjection
  <2> HIDE DEF all, keys
  <2> QED BY <2>1, FS_Surjection
<1>2. IsFiniteSet(F)
  BY FS_Subset
<1>3. key \in [F -> keys]
  OBVIOUS
<1>4. size = [k \in keys |-> Cardinality({c \in F : key[c] = k})]
  <2>1. \A k \in keys : {c \in F : key[c] = k} = {c \in F : Category[c] = k}
    OBVIOUS
  <2> HIDE DEF key, keys
  <2> QED BY <2>1
<1>5. SumFunctionOnSet(size, keys) = Cardinality(F)
  <2> HIDE DEF key, keys, size
  <2> QED BY <1>1, <1>2, <1>3, <1>4, SumGroups
<1>6. \A k \in keys : Cardinality({c \in F : Category[c] = k}) \in Nat
  <2> SUFFICES ASSUME NEW k PROVE Cardinality({c \in F : Category[c] = k}) \in Nat
    OBVIOUS
  <2>1. IsFiniteSet({c \in F : Category[c] = k})
    BY <1>2, FS_Subset
  <2> QED BY <2>1, FS_CardinalityType
<1> QED BY <1>1, <1>5, <1>6

\* A category counts its flagged cases on both sides, and so does a flag.
LEMMA StrataCounts ==
    ASSUME Compared.comparable
    PROVE  LET byCategory == Compared.byCategory
               byFlag == Compared.byFlag IN
           /\ DOMAIN byCategory = {Category[c] : c \in Shared}
           /\ \A k \in DOMAIN byCategory :
                /\ byCategory[k].flaggedLeft = Cardinality({c \in FlaggedLeft : Category[c] = k})
                /\ byCategory[k].flaggedRight = Cardinality({c \in FlaggedRight : Category[c] = k})
           /\ \A f \in DOMAIN byFlag :
                /\ byFlag[f].flaggedLeft = Cardinality({c \in Shared : f \in report.left[c].flags})
                /\ byFlag[f].flaggedRight = Cardinality({c \in Shared : f \in report.right[c].flags})
<1>1. DOMAIN Left = DOMAIN report.left /\ DOMAIN Right = DOMAIN report.right
  BY SameFlags DEF Left, Right
<1>2. /\ Compared.byCategory = stratify(Left, Right, Shared)
      /\ Compared.byFlag = stratifyByFlag(Left, Right, Shared)
  <2>1. Compared.comparable = Comparable(Left, Right, Shared)
    BY ComparedCases
  <2> QED BY <1>1, <2>1 DEF Compared, ComputeAB, Left, Right, Shared
<1>3. \A c \in Shared : /\ Left[c].flags = report.left[c].flags
                        /\ Right[c].flags = report.right[c].flags
  BY SameFlags DEF Left, Right, Shared
<1>4. ASSUME NEW k
      PROVE  /\ {c \in {d \in Shared : Category[d] = k} : Left[c].flags # {}}
                   = {c \in FlaggedLeft : Category[c] = k}
             /\ {c \in {d \in Shared : Category[d] = k} : Right[c].flags # {}}
                   = {c \in FlaggedRight : Category[c] = k}
  BY <1>3 DEF FlaggedLeft, FlaggedRight
<1>5. ASSUME NEW f
      PROVE  /\ {c \in Shared : f \in Left[c].flags} = {c \in Shared : f \in report.left[c].flags}
             /\ {c \in Shared : f \in Right[c].flags} = {c \in Shared : f \in report.right[c].flags}
  BY <1>3
<1>6. /\ DOMAIN Compared.byCategory = {Category[c] : c \in Shared}
      /\ \A k \in DOMAIN Compared.byCategory :
            /\ Compared.byCategory[k].flaggedLeft = Cardinality({c \in FlaggedLeft : Category[c] = k})
            /\ Compared.byCategory[k].flaggedRight = Cardinality({c \in FlaggedRight : Category[c] = k})
  <2> DEFINE keys == {Category[c] : c \in Shared}
             Group(k) == {c \in Shared : Category[c] = k}
             stratum(k) == Stratum(Left, Right, Group(k))
             L(k) == {c \in Group(k) : Left[c].flags # {}}
             R(k) == {c \in Group(k) : Right[c].flags # {}}
  <2>1. Compared.byCategory =
           [k \in keys |-> [stratum |-> stratum(k),
                            flaggedLeft |-> Cardinality(L(k)), flaggedRight |-> Cardinality(R(k))]]
    BY <1>2 DEF stratify
  <2>2. \A k : /\ L(k) = {c \in FlaggedLeft : Category[c] = k}
               /\ R(k) = {c \in FlaggedRight : Category[c] = k}
    BY <1>4
  <2>3. DOMAIN Compared.byCategory = keys
    <3> HIDE DEF keys, stratum, L, R
    <3> QED BY <2>1
  <2>4. \A k \in keys : /\ Compared.byCategory[k].flaggedLeft = Cardinality(L(k))
                        /\ Compared.byCategory[k].flaggedRight = Cardinality(R(k))
    <3> HIDE DEF keys, stratum, L, R
    <3> QED BY <2>1
  <2> QED BY <2>2, <2>3, <2>4
<1>7. \A f \in DOMAIN Compared.byFlag :
         /\ Compared.byFlag[f].flaggedLeft = Cardinality({c \in Shared : f \in report.left[c].flags})
         /\ Compared.byFlag[f].flaggedRight = Cardinality({c \in Shared : f \in report.right[c].flags})
  <2> DEFINE keys == UNION {Left[c].flags \cup Right[c].flags : c \in Shared}
             L(f) == {c \in Shared : f \in Left[c].flags}
             R(f) == {c \in Shared : f \in Right[c].flags}
             stratum(f) == Stratum(Left, Right, L(f) \cup R(f))
  <2>1. Compared.byFlag =
           [f \in keys |-> [stratum |-> stratum(f),
                            flaggedLeft |-> Cardinality(L(f)), flaggedRight |-> Cardinality(R(f))]]
    BY <1>2 DEF stratifyByFlag
  <2>2. \A f : /\ L(f) = {c \in Shared : f \in report.left[c].flags}
               /\ R(f) = {c \in Shared : f \in report.right[c].flags}
    BY <1>5
  <2>3. \A f \in DOMAIN Compared.byFlag :
           /\ Compared.byFlag[f].flaggedLeft = Cardinality(L(f))
           /\ Compared.byFlag[f].flaggedRight = Cardinality(R(f))
    <3> HIDE DEF keys, stratum, L, R
    <3> QED BY <2>1
  <2> QED BY <2>2, <2>3
<1> QED BY <1>6, <1>7

\* Over all categories as many flagged cases disappeared as were fixed, less
\* those that broke, and a flag grew rarer only where some case was fixed or
\* changed. (ab.go:451-549.)
THEOREM StrataTold == Spec => []StrataAgree
<1>1. Inv /\ ReportsAssumption => StrataAgree
  <2> SUFFICES ASSUME Inv, Answered, Compared.comparable
               PROVE  LET r == Compared
                          fewer == [k \in DOMAIN r.byCategory |->
                             r.byCategory[k].flaggedLeft - r.byCategory[k].flaggedRight]
                      IN /\ SumFunction(fewer) = Cardinality(r.fixed) - Cardinality(r.broke)
                         /\ \A f \in DOMAIN r.byFlag :
                              r.byFlag[f].flaggedLeft > r.byFlag[f].flaggedRight =>
                                 r.fixed \cup r.changed # {}
    BY DEF StrataAgree
  <2>1. IsFiniteSet(Shared)
    <3>1. Shared \in SUBSET Cases
      BY AnswerRows DEF Shared
    <3> QED BY <3>1, ReportsAssumption, FS_Subset
  <2> DEFINE keys == {Category[c] : c \in Shared}
             Fewer(k) == Compared.byCategory[k].flaggedLeft - Compared.byCategory[k].flaggedRight
             left == [k \in keys |-> Cardinality({c \in FlaggedLeft : Category[c] = k})]
             right == [k \in keys |-> Cardinality({c \in FlaggedRight : Category[c] = k})]
             fewer == [k \in DOMAIN Compared.byCategory |-> Fewer(k)]
  <2>2. FlaggedLeft \in SUBSET Shared /\ FlaggedRight \in SUBSET Shared
    BY DEF FlaggedLeft, FlaggedRight
  <2>3. DOMAIN fewer = keys /\ \A k \in keys : fewer[k] = left[k] - right[k]
    BY StrataCounts
  <2>4. /\ IsFiniteSet(keys)
        /\ \A k \in keys : left[k] \in Int /\ right[k] \in Int
        /\ SumFunctionOnSet(left, keys) = Cardinality(FlaggedLeft)
        /\ SumFunctionOnSet(right, keys) = Cardinality(FlaggedRight)
    <3>1. /\ IsFiniteSet(keys)
          /\ \A k \in keys : Cardinality({c \in FlaggedLeft : Category[c] = k}) \in Nat
          /\ SumFunctionOnSet(left, keys) = Cardinality(FlaggedLeft)
      BY <2>1, <2>2, FlaggedInGroups
    <3>2. /\ \A k \in keys : Cardinality({c \in FlaggedRight : Category[c] = k}) \in Nat
          /\ SumFunctionOnSet(right, keys) = Cardinality(FlaggedRight)
      BY <2>1, <2>2, FlaggedInGroups
    <3>3. ASSUME NEW k \in keys PROVE left[k] \in Int /\ right[k] \in Int
      <4>1. /\ left[k] = Cardinality({c \in FlaggedLeft : Category[c] = k})
            /\ right[k] = Cardinality({c \in FlaggedRight : Category[c] = k})
        OBVIOUS
      <4>2. Cardinality({c \in FlaggedLeft : Category[c] = k}) \in Nat
        BY <3>1
      <4>3. Cardinality({c \in FlaggedRight : Category[c] = k}) \in Nat
        BY <3>2
      <4> HIDE DEF left, right, keys
      <4> QED BY <4>1, <4>2, <4>3
    <3> QED BY <3>1, <3>2, <3>3
  <2>5. SumFunction(fewer) = Cardinality(FlaggedLeft) - Cardinality(FlaggedRight)
    <3> HIDE DEF keys, left, right, fewer
    <3>1. SumFunctionOnSet(fewer, keys) = SumFunctionOnSet(left, keys) - SumFunctionOnSet(right, keys)
      BY <2>3, <2>4, SumDifference
    <3> QED BY <2>3, <2>4, <3>1 DEF SumFunction
  <2>6. /\ IsFiniteSet(FlaggedLeft) /\ IsFiniteSet(FlaggedRight)
        /\ Cardinality(FlaggedLeft) \in Nat /\ Cardinality(FlaggedRight) \in Nat
        /\ Cardinality(FlaggedLeft \cap FlaggedRight) \in Nat
    <3>1. IsFiniteSet(FlaggedLeft) /\ IsFiniteSet(FlaggedRight)
      BY <2>1, <2>2, FS_Subset
    <3>2. IsFiniteSet(FlaggedLeft \cap FlaggedRight)
      BY <3>1, FS_Intersection
    <3> QED BY <3>1, <3>2, FS_CardinalityType
  <2>7. /\ Cardinality(Compared.fixed)
              = Cardinality(FlaggedLeft) - Cardinality(FlaggedLeft \cap FlaggedRight)
        /\ Cardinality(Compared.broke)
              = Cardinality(FlaggedRight) - Cardinality(FlaggedLeft \cap FlaggedRight)
    <3>1. FlaggedRight \cap FlaggedLeft = FlaggedLeft \cap FlaggedRight
      OBVIOUS
    <3>2. Cardinality(FlaggedLeft \ FlaggedRight)
             = Cardinality(FlaggedLeft) - Cardinality(FlaggedLeft \cap FlaggedRight)
      BY <2>6, FS_Difference
    <3>3. Cardinality(FlaggedRight \ FlaggedLeft)
             = Cardinality(FlaggedRight) - Cardinality(FlaggedRight \cap FlaggedLeft)
      BY <2>6, FS_Difference
    <3> QED BY <3>1, <3>2, <3>3, TurnedCases
  <2>8. SumFunction(fewer) = Cardinality(Compared.fixed) - Cardinality(Compared.broke)
    <3> HIDE DEF fewer
    <3> QED BY <2>5, <2>6, <2>7
  <2>9. ASSUME NEW f \in DOMAIN Compared.byFlag,
               Compared.byFlag[f].flaggedLeft > Compared.byFlag[f].flaggedRight
        PROVE  Compared.fixed \cup Compared.changed # {}
    <3> DEFINE A == {c \in Shared : f \in report.left[c].flags}
               B == {c \in Shared : f \in report.right[c].flags}
    <3>1. Cardinality(A) > Cardinality(B)
      BY <2>9, StrataCounts
    <3>2. IsFiniteSet(A) /\ IsFiniteSet(B) /\ Cardinality(A) \in Nat /\ Cardinality(B) \in Nat
      <4>1. A \in SUBSET Shared /\ B \in SUBSET Shared
        OBVIOUS
      <4>2. IsFiniteSet(A) /\ IsFiniteSet(B)
        BY <2>1, <4>1, FS_Subset
      <4> QED BY <4>2, FS_CardinalityType
    <3>3. ~(A \subseteq B)
      <4> SUFFICES ASSUME A \subseteq B PROVE FALSE
        OBVIOUS
      <4>1. Cardinality(A) <= Cardinality(B)
        <5> HIDE DEF A, B
        <5> QED BY <3>2, FS_Subset
      <4> HIDE DEF A, B
      <4> QED BY <3>1, <3>2, <4>1
    <3>4. PICK c \in Shared : f \in report.left[c].flags /\ f \notin report.right[c].flags
      BY <3>3
    <3>5. FlagTransition(report.left[c].flags, report.right[c].flags) \in {"fixed", "changed"}
      BY <3>4 DEF FlagTransition
    <3>6. c \in Compared.fixed \/ c \in Compared.changed
      BY <3>5, ComparedCases
    <3> QED BY <3>6
  <2> QED BY <2>8, <2>9
<1> QED BY <1>1, InitInv, NextInv, ReportsAssumption, PTL DEF Spec

=============================================================================
