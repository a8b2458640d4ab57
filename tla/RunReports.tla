----------------------------- MODULE RunReports -----------------------------
(***************************************************************************)
(* The two reports over a baseline and a candidate run, GET /compare and   *)
(* GET /closure, while the results they read are still being written: by   *)
(* the worker that executes a run, by the command that labels an old run   *)
(* (worker/app/cli/attribution.py), and by those who annotate its cases.   *)
(*                                                                         *)
(* A handler reads both run rows, the annotations and the results of one   *)
(* run after the other, each in a statement of its own; writes come in     *)
(* between. GET /compare does without the annotations.                     *)
(***************************************************************************)
EXTENDS Closure

CONSTANTS
    Cases,           \* 1..n
    TopKs,           \* what the snapshots of the two runs say of top_k
    Yardsticks,      \* the ratios and lines workers and commands are started with
    Outcomes,        \* what executing a case may yield: gold, retrieved and a judgement
    Annotated,       \* the cases of the baseline people annotate
    Targets,         \* the statuses they set
    MaxCompareCases, \* how many cases of a run a report reads (500 in the code)
    MaxOverlap,      \* bound: writes between the reads of one report
    NoResult,        \* "no row in case_results"
    NoNote           \* "no annotation"

INSTANCE Attribution

Runs == {"baseline", "candidate"}

\* A dataset is finite, a search returns a chunk once, and a judge that answers
\* counts the claims.
ASSUME ReportsAssumption ==
    /\ IsFiniteSet(Cases)
    /\ TopKs \subseteq [Runs -> Nat \ {0}]
    /\ Yardsticks \subseteq [low_rank_ratio : 1..100, quality_line : 1..5]
    /\ Targets \subseteq Statuses /\ MaxOverlap \in Nat
    /\ \A o \in Outcomes :
          /\ IsFiniteSet(o.gold) /\ Len(o.retrieved) \in Nat
          /\ \A i, j \in 1..Len(o.retrieved) : o.retrieved[i] = o.retrieved[j] => i = j
          /\ o.judge # NoJudge
          /\ {o.judge.supported, o.judge.unsupported, o.judge.irrelevant} \subseteq Nat
          /\ o.judge.rubric # NoRubric =>
                {o.judge.rubric.relevance, o.judge.rubric.helpfulness} \subseteq Nat

VARIABLES
    results,  \* the case_results of each run
    scope,    \* runs.metrics.attribution.scope, "none" if it is missing
    judged,   \* the run's configuration has a judge section
    top_k,    \* how many chunks a search of the run returns
    phase,    \* running, ended (metrics not written yet) or done
    labelled, \* runs whose flags the command has written, and not yet the scope
    notes,    \* the annotations of the baseline
    report    \* what a handler has read

vars == <<results, scope, judged, top_k, phase, labelled, notes, report>>

\* A stored result. Which thresholds its flags were asked with is a history: the
\* database keeps those of the last writer only, for the whole run, and no report
\* reads them.
Row == [metrics : {evaluate_case(o.gold, o.retrieved, k[run]) :
                      o \in Outcomes, k \in TopKs, run \in Runs},
        judge : {o.judge : o \in Outcomes} \cup {NoJudge},
        flags : SUBSET {"no_gold", "anchor_incomplete", "retrieval_miss", "retrieval_partial",
                        "retrieval_low_rank", "hallucination", "off_topic",
                        "generation_quality", "no_claims"},
        rules : Thresholds]

Scopes == {"none", "retrieval", "retrieval+judge"}

TypeOK ==
    /\ \A run \in Runs, c \in Cases : results[run][c] = NoResult \/ results[run][c] \in Row
    /\ scope \in [Runs -> Scopes]
    /\ judged \in [Runs -> BOOLEAN] /\ top_k \in TopKs
    /\ phase \in [Runs -> {"running", "ended", "done"}]
    /\ labelled \subseteq Runs
    /\ notes \in [Annotated -> Statuses \cup {NoNote}]
    /\ report.step \in {"idle", "baseline", "candidate", "notes", "left", "answered"}
    /\ report.overlap \in 0..MaxOverlap

Idle == [step |-> "idle", overlap |-> 0]

\* The thresholds a process started with yardstick y uses for a run.
thresholds(run, y) ==
    [k |-> top_k[run], low_rank_ratio |-> y.low_rank_ratio, quality_line |-> y.quality_line]

\* What the worker stores of an executed case.
Result(o, judge, rules) ==
    LET metric == evaluate_case(o.gold, o.retrieved, rules.k) IN
    [metrics |-> metric, judge |-> judge, flags |-> attribute_case(metric, judge, rules),
     rules |-> rules]

\* Answers are judged if the configuration of the run says so.
Executed(run, o, y) ==
    Result(o, IF judged[run] THEN o.judge ELSE NoJudge, thresholds(run, y))

\* One run waits for the worker. The other one has been executed by one worker,
\* lately or before there were rules, and then it has no flags.
Init ==
    /\ judged \in [Runs -> BOOLEAN] /\ top_k \in TopKs
    /\ \E run \in Runs, old \in BOOLEAN, y \in Yardsticks :
          /\ phase = [r \in Runs |-> IF r = run THEN "done" ELSE "running"]
          /\ scope = [r \in Runs |->
                IF r = run /\ ~old THEN scope_for(judged[run]) ELSE "none"]
          /\ \E o \in [Cases -> Outcomes] :
                results = [r \in Runs |-> [c \in Cases |->
                    IF r # run THEN NoResult
                    ELSE IF old THEN [Executed(run, o[c], y) EXCEPT !.flags = {}]
                    ELSE Executed(run, o[c], y)]]
    /\ labelled = {}
    /\ notes = [c \in Annotated |-> NoNote]
    /\ report = Idle

-----------------------------------------------------------------------------
(* Writers *)

\* A write happens before a report is asked for or between its reads.
Interferes ==
    /\ report.step # "answered"
    /\ report.step # "idle" => report.overlap < MaxOverlap
    /\ report' = IF report.step = "idle" THEN report
                 ELSE [report EXCEPT !.overlap = @ + 1]

Has(run) == {c \in Cases : results[run][c] # NoResult}

\* Mutant: an answer whose judgement has failed is stored without one.
CompleteItem_Unjudged(run, c, o, y) ==
    /\ Interferes
    /\ phase[run] = "running" /\ results[run][c] = NoResult
    /\ \E judge \in {o.judge, NoJudge} :
          results' = [results EXCEPT ![run][c] =
                         Result(o, IF judged[run] THEN judge ELSE NoJudge, thresholds(run, y))]
    /\ UNCHANGED <<scope, judged, top_k, phase, labelled, notes>>

\* A worker stores the result of a case with the flags of the rules. A run that
\* was interrupted goes on in another worker, started with another yardstick.
CompleteItem(run, c, o, y) ==
    /\ Interferes
    /\ phase[run] = "running" /\ results[run][c] = NoResult
    /\ results' = [results EXCEPT ![run][c] = Executed(run, o, y)]
    /\ UNCHANGED <<scope, judged, top_k, phase, labelled, notes>>

\* The job ends, completely or not; the worker may end before it writes the
\* metrics of the run, and then they are never written.
FinishJob(run) ==
    /\ Interferes
    /\ phase[run] = "running"
    /\ phase' = [phase EXCEPT ![run] = "ended"]
    /\ UNCHANGED <<results, scope, judged, top_k, labelled, notes>>

\* update_run_metrics with what _aggregate_run_metrics says of attribution.
AggregateMetrics(run) ==
    /\ Interferes
    /\ phase[run] = "ended"
    /\ phase' = [phase EXCEPT ![run] = "done"]
    /\ scope' = [scope EXCEPT ![run] = scope_for(judged[run])]
    /\ UNCHANGED <<results, judged, top_k, labelled, notes>>

\* build_plan and update_case_flags: the rules over the stored signals, with the
\* top_k of the run and the yardstick of the command.
Relabelled(run, y) ==
    [results EXCEPT ![run] = [c \in Cases |->
        IF c \in Has(run)
        THEN [results[run][c] EXCEPT
                 !.flags = attribute_case(results[run][c].metrics, results[run][c].judge,
                                          thresholds(run, y)),
                 !.rules = thresholds(run, y)]
        ELSE NoResult]]

\* Mutant: the scope is written before the flags.
apply_plan_ScopeFirst(run, y) ==
    /\ Interferes
    /\ phase[run] = "done"
    /\ \/ /\ run \notin labelled
          /\ labelled' = labelled \cup {run}
          /\ scope' = [scope EXCEPT ![run] = scope_for(judged[run])]
          /\ UNCHANGED results
       \/ /\ run \in labelled
          /\ results' = Relabelled(run, y)
          /\ labelled' = labelled \ {run}
          /\ UNCHANGED scope
    /\ UNCHANGED <<judged, top_k, phase, notes>>

\* apply_plan: first the flags of all cases, then the scope they cover, in a
\* transaction each.
apply_plan(run, y) ==
    /\ Interferes
    /\ phase[run] = "done"
    /\ \/ /\ run \notin labelled
          /\ results' = Relabelled(run, y)
          /\ labelled' = labelled \cup {run}
          /\ UNCHANGED scope
       \/ /\ run \in labelled
          /\ scope' = [scope EXCEPT ![run] = scope_for(judged[run])]
          /\ labelled' = labelled \ {run}
          /\ UNCHANGED results
    /\ UNCHANGED <<judged, top_k, phase, notes>>

\* A case of the baseline is annotated, or its annotation moves on.
Annotate(c, to) ==
    /\ Interferes
    /\ c \in Has("baseline")
    /\ notes[c] # to
    /\ notes[c] = NoNote \/ canTransition(notes[c], to)
    /\ notes' = [notes EXCEPT ![c] = to]
    /\ UNCHANGED <<results, scope, judged, top_k, phase, labelled>>

-----------------------------------------------------------------------------
(* A report: one read after the other. *)

Reads(from, to, field, value) ==
    /\ report.step = from
    /\ report' = [f \in DOMAIN report \cup {field} |->
                    CASE f = "step" -> to [] f = field -> value [] OTHER -> report[f]]
    /\ UNCHANGED <<results, scope, judged, top_k, phase, labelled, notes>>

ReadBaselineRun == Reads("idle", "baseline", "leftScope", scope["baseline"])

ReadCandidateRun == Reads("baseline", "candidate", "rightScope", scope["candidate"])

\* ListAnnotations of the baseline.
ReadNotes ==
    Reads("candidate", "notes",
          "notes", [c \in {d \in Annotated : notes[d] # NoNote} |-> notes[c]])

Rows(run) == ListRunCaseResults([c \in Has(run) |-> results[run][c]], MaxCompareCases)

ReadBaselineCases == Reads("notes", "left", "left", Rows("baseline"))

ReadCandidateCases == Reads("left", "answered", "right", Rows("candidate"))

\* The answer has gone out; the next report starts from nothing.
Deliver ==
    /\ report.step = "answered"
    /\ report' = Idle
    /\ UNCHANGED <<results, scope, judged, top_k, phase, labelled, notes>>

\* The body of GET /compare.
Compared ==
    ComputeAB(toABCases(report.left), toABCases(report.right),
              hasAttribution(report.leftScope), hasAttribution(report.rightScope))

\* The body of GET /closure.
Closed ==
    ComputeClosure(report.notes, toClosureCases(report.left), toClosureCases(report.right),
                   hasAttribution(report.leftScope), hasAttribution(report.rightScope), "any")

Next ==
    \/ \E run \in Runs :
         \/ \E c \in Cases, o \in Outcomes, y \in Yardsticks : CompleteItem(run, c, o, y)
         \/ FinishJob(run)
         \/ AggregateMetrics(run)
         \/ \E y \in Yardsticks : apply_plan(run, y)
    \/ \E c \in Annotated, to \in Targets : Annotate(c, to)
    \/ ReadBaselineRun
    \/ ReadCandidateRun
    \/ ReadNotes
    \/ ReadBaselineCases
    \/ ReadCandidateCases
    \/ Deliver

Spec == Init /\ [][Next]_vars

-----------------------------------------------------------------------------
(* Properties *)

Answered == report.step = "answered"

BothLabelled == report.leftScope # "none" /\ report.rightScope # "none"

\* The answer is right and good, and every piece of evidence for it was found early
\* enough, as the given thresholds see it ...
RepairedBy(row, rules) ==
    /\ row.metrics # NoMetric
    /\ row.metrics.hits = row.metrics.gold_count
    /\ row.metrics.first_hit_rank <= low_rank_limit(rules)
    /\ row.judge # NoJudge =>
         row.judge.supported > 0 /\ row.judge.unsupported = 0 /\ row.judge.irrelevant = 0
    /\ row.judge # NoJudge /\ row.judge.rubric # NoRubric =>
         /\ row.judge.rubric.relevance > rules.quality_line
         /\ row.judge.rubric.helpfulness > rules.quality_line

\* ... and as those see it that its own flags were asked with.
Repaired(row) == RepairedBy(row, row.rules)

\* When both runs are labelled, a case that counts as fixed is repaired in the
\* candidate and was not in the baseline, each by the thresholds it was labelled
\* with: no write between the reads of a report makes it trust flags that nobody
\* has written. (runs_compare.go:113-121, cli/attribution.py:172-175.)
FixedIsRepaired ==
    Answered /\ BothLabelled =>
        \A c \in Compared.fixed : Repaired(report.right[c]) /\ ~Repaired(report.left[c])

\* By one yardstick it need not be: nothing keeps two runs, or two cases of one
\* run, from being labelled with other ratios and lines, runs may differ in top_k,
\* and a report compares their flags all the same. TLC refutes this; the README
\* says how. (queue_runner.py:222-228, process.md:294-302.)
FixedByOneYardstick ==
    Answered /\ BothLabelled =>
        \A c \in Compared.fixed : ~RepairedBy(report.left[c], report.right[c].rules)

\* A case that may be closed is repaired by the thresholds it was labelled with in
\* the candidate, if at least one of the runs is labelled: nobody is led to close it
\* because the candidate has no flags yet. (A looser threshold may: see above.)
\* (closure.go:179-182.)
ClosedIsRepaired ==
    Answered /\ (report.leftScope # "none" \/ report.rightScope # "none") =>
        LET records == Closed.records IN
        \A c \in DOMAIN records : records[c].eligible => Repaired(report.right[c])

JudgeFlagNames == {"hallucination", "off_topic", "generation_quality", "no_claims"}

\* A case that lost a flag of the judge lost it because it was judged again.
LostByJudging(c) ==
    report.left[c].flags \cap JudgeFlagNames # {} => report.right[c].judge # NoJudge

\* Between runs whose flags cover the same part of the pipeline, no case counts
\* as fixed because nobody judged it. (eval/ab.go:22-24.)
FixedWasJudged ==
    Answered /\ BothLabelled /\ report.leftScope = report.rightScope =>
        \A c \in Compared.fixed : LostByJudging(c)

\* Neither does it between any two labelled runs: "no judgement" is never taken
\* for "no hallucination". (process.md:301, eval/ab.go:22-24, 400-401.)
UnjudgedNotFixed ==
    Answered /\ BothLabelled => \A c \in Compared.fixed : LostByJudging(c)

\* Where neither run was labelled there are no false positives: what the report
\* calls fixed, the rules find nothing wrong with. (eval/ab.go:298-299.)
UnlabelledNotFixed ==
    Answered /\ report.leftScope = "none" /\ report.rightScope = "none" =>
        \A c \in Compared.fixed :
            attribute_case(report.right[c].metrics, report.right[c].judge,
                           report.right[c].rules) = {}

\* The two reports give one answer to "is it fixed": where both judge a case,
\* the closure calls it improved, worsened or changed exactly if the comparison
\* lists it as fixed, broke or changed. (closure.go:15-17, ab.go:350-354.)
OneAnswer ==
    Answered =>
        LET r == Compared
            records == Closed.records
        IN r.comparable =>
            \A c \in DOMAIN records : records[c].verdict # "unverifiable" =>
                /\ records[c].verdict = "improved" <=> c \in r.fixed
                /\ records[c].verdict = "worsened" <=> c \in r.broke
                /\ records[c].verdict = "changed" <=> c \in r.changed

\* A case one of the runs did not judge leaves the generation metrics alone: they
\* are the same if the case is taken out of both runs. (ab.go:398-401.)
UnjudgedNotCompared ==
    Answered =>
        LET r == Compared
            left == toABCases(report.left)
            right == toABCases(report.right)
            both == {c \in DOMAIN left \cap DOMAIN right :
                        left[c].judge # NoJudge /\ right[c].judge # NoJudge}
        IN r.comparable => \A name \in GenerationMetrics :
              r.summary[name] = compareMetric(left, right, both, name)

\* The strata and the list of cases that turned tell the same story: over all
\* categories as many flagged cases disappeared as were fixed, less those that
\* broke, and for every flag that grew rarer some case was fixed or changed.
\* (ab.go:451-549.)
StrataAgree ==
    Answered =>
        LET r == Compared
            fewer == [k \in DOMAIN r.byCategory |->
                         r.byCategory[k].flaggedLeft - r.byCategory[k].flaggedRight]
        IN r.comparable =>
           /\ SumFunction(fewer) = Cardinality(r.fixed) - Cardinality(r.broke)
           /\ \A f \in DOMAIN r.byFlag :
                r.byFlag[f].flaggedLeft > r.byFlag[f].flaggedRight => r.fixed \cup r.changed # {}

\* The next status a report advises is one the annotation may take, unless it
\* has been changed since it was read. (closure.go:279-292, annotations.go:46-50.)
AdviceAccepted ==
    Answered =>
        \A c \in DOMAIN Closed.records, to \in Statuses :
            to \in Advised(Closed.records[c]) /\ notes[c] = report.notes[c] =>
                canTransition(notes[c], to)

=============================================================================
