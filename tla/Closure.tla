------------------------------ MODULE Closure ------------------------------
(***************************************************************************)
(* The closure report: which annotated cases of a baseline run does a      *)
(* candidate run show to be repaired? server/internal/eval/closure.go, and *)
(* what server/internal/http/closure.go makes of the stored results.       *)
(*                                                                         *)
(* The annotations of the baseline are a function from cases to statuses.  *)
(***************************************************************************)
EXTENDS Compare, AnnotationStatus

\* numericMetrics: unlike in a comparison, a metric that is not stored has no value.
numericMetric(metric, name) == IF metric = NoMetric THEN NoValue ELSE metric[name]

toClosureCase(row) ==
    [metrics |-> [name \in MetricsCompared |-> numericMetric(row.metrics, name)],
     flags |-> row.flags, judge |-> judgeSummary(row.judge)]

toClosureCases(rows) == [c \in DOMAIN rows |-> toClosureCase(rows[c])]

\* closureEvidence: one metric of one case, and which way it went.
closureEvidence(left, right, name) ==
    LET l == Value(name, left)
        r == Value(name, right)
        comparable == l # NoValue /\ r # NoValue
    IN [comparable |-> comparable,
        direction |-> IF ~comparable \/ abs(r - l) <= NoiseFloor THEN "same"
                      ELSE IF (r > l) = HigherIsBetter(name) THEN "better" ELSE "worse"]

\* Mutant: a warning about the flags does not keep a case from being judged.
closureVerdict_Warned(left, right, c, mismatch) ==
    IF c \notin DOMAIN right THEN "unverifiable"
    ELSE LET t == FlagTransition(left[c].flags, right[c].flags) IN
         CASE t = "fixed" -> "improved"
           [] t = "broke" -> "worsened"
           [] OTHER -> t

\* Mutant: a case that has lost some of its flags is improved, too.
closureVerdict_FewerFlags(left, right, c, mismatch) ==
    IF c \notin DOMAIN right \/ mismatch # "none" THEN "unverifiable"
    ELSE LET t == FlagTransition(left[c].flags, right[c].flags) IN
         CASE t = "fixed" \/ left[c].flags \ right[c].flags # {} -> "improved"
           [] t = "broke" -> "worsened"
           [] OTHER -> t

\* What the candidate shows of an annotated case.
closureVerdict(left, right, c, mismatch) ==
    IF c \notin DOMAIN right \/ mismatch # "none" THEN "unverifiable"
    ELSE LET t == FlagTransition(left[c].flags, right[c].flags) IN
         CASE t = "fixed" -> "improved"
           [] t = "broke" -> "worsened"
           [] OTHER -> t

\* Why the case cannot be closed yet, and "nothing" if it can be.
BlockedReason(left, right, c, mismatch, status) ==
    LET verdict == closureVerdict(left, right, c, mismatch) IN
    IF c \notin DOMAIN right THEN "not_in_this_run"
    ELSE IF mismatch # "none" THEN "attribution_differs"
    ELSE IF verdict = "improved"
         THEN CASE status = "fixed" -> "nothing"
                [] status = "open" -> "mark_it_fixed_first"
                [] status = "verified" -> "verified_already"
                [] status = "wontfix" -> "can_be_marked_verified"
    ELSE IF verdict = "stable"
         THEN IF right[c].flags # {} THEN "same_flags" ELSE "clean_in_both"
    ELSE verdict

\* The status an annotator who follows the report gives the annotation next.
Advised(record) ==
    IF record.eligible \/ record.blocked = "can_be_marked_verified" THEN {"verified"}
    ELSE IF record.blocked = "mark_it_fixed_first" THEN {"fixed"}
    ELSE {}

ClosureRecord(left, right, c, mismatch, status) ==
    LET verdict == closureVerdict(left, right, c, mismatch) IN
    [status |-> status,
     verdict |-> verdict,
     eligible |-> verdict = "improved" /\ status = "fixed",
     blocked |-> BlockedReason(left, right, c, mismatch, status),
     evidence |-> IF c \notin DOMAIN right THEN <<>>
                  ELSE [name \in MetricsCompared \cup GenerationMetrics |->
                            closureEvidence(left[c], right[c], name)]]

\* ComputeClosure: a record for every annotation, of the status asked for if one
\* is, whose case has a result in the baseline.
ComputeClosure(notes, left, right, leftAttribution, rightAttribution, statusFilter) ==
    LET mismatch == attributionMismatch(leftAttribution, rightAttribution)
        covered == {c \in DOMAIN notes \cap DOMAIN left : statusFilter \in {"any", notes[c]}}
        records == [c \in covered |-> ClosureRecord(left, right, c, mismatch, notes[c])]
        Ended(v) == {c \in covered : records[c].verdict = v}
    IN [comparable |-> mismatch = "none",
        records |-> records,
        summary |->
          [annotated |-> Cardinality(covered),
           verdicts |-> [v \in {"improved", "worsened", "changed", "stable", "unverifiable"} |->
                            Cardinality(Ended(v))],
           byStatus |-> [s \in Statuses |-> Cardinality({c \in covered : notes[c] = s})],
           eligible |-> Cardinality({c \in covered : records[c].eligible})]]

=============================================================================
