----------------------------- MODULE Evaluation -----------------------------
(***************************************************************************)
(* What an evaluation run promises its reader, without queue, workers or   *)
(* heartbeats: every case is settled at most once, as done (its result is  *)
(* stored) or dead (given up), and a run gets at most one verdict, which   *)
(* says "succeeded" only if every case of the dataset is done.             *)
(***************************************************************************)
CONSTANTS Jobs, Cases

VARIABLES
    outcome, \* what became of each case of each run
    verdict  \* the terminal status of each run, "none" before

promise == <<outcome, verdict>>

Outcomes == {"open", "done", "dead"}
Verdicts == {"none", "succeeded", "failed"}

Init ==
    /\ outcome = [j \in Jobs |-> [c \in Cases |-> "open"]]
    /\ verdict = [j \in Jobs |-> "none"]

\* A worker's checkpoint, or the last failed attempt.
Settle(j, c, o) ==
    /\ verdict[j] = "none"
    /\ outcome[j][c] = "open"
    /\ o \in {"done", "dead"}
    /\ outcome' = [outcome EXCEPT ![j][c] = o]
    /\ UNCHANGED verdict

\* A run may fail with cases open, it cannot succeed with any.
Conclude(j, v) ==
    /\ verdict[j] = "none"
    /\ v \in {"succeeded", "failed"}
    /\ v = "succeeded" => \A c \in Cases : outcome[j][c] = "done"
    /\ verdict' = [verdict EXCEPT ![j] = v]
    /\ UNCHANGED outcome

Next ==
    \E j \in Jobs :
        \/ \E c \in Cases, o \in Outcomes : Settle(j, c, o)
        \/ \E v \in Verdicts : Conclude(j, v)

Spec == Init /\ [][Next]_promise
=============================================================================
