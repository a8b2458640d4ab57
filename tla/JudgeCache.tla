----------------------------- MODULE JudgeCache -----------------------------
(***************************************************************************)
(* The judge and its cache (worker/app/judge/builtin.py, judge/cache.py):  *)
(* an answer is judged in two stages, claims and rubric, and each stage    *)
(* looks in the table judge_cache before it asks the model.                *)
(*                                                                         *)
(* Items are judged by several workers at the same time. Lookup, call and  *)
(* store are separate actions: other threads come in between. The rubric   *)
(* prompt is one that shows the model a summary of the claims (rubric v2). *)
(***************************************************************************)
EXTENDS Naturals, FiniteSets

CONSTANTS
    Threads,  \* judgements under way at the same time
    Payloads, \* what is judged: question, answer and contexts
    Claims,   \* what a model may answer to the claims prompt
    Unfounded,\* the answers among them with an unfounded claim
    Scores,   \* what it may answer to the rubric prompt
    Retries,  \* max_retries: invalid answers tolerated per stage
    Damaged,  \* payloads whose claims entry does not validate any more
    DamagedRubrics, \* payloads whose rubric entries do not
    Broken,   \* an entry that does not validate
    None      \* no entry, no rubric, no answer

\* claims_summary_text: all the rubric prompt sees of the claims.
Summary(claims) == IF claims \in Unfounded THEN "unfounded" ELSE "founded"

Summaries == {"founded", "unfounded"}

\* A rubric the model gave to a prompt with this summary.
Rubric == [summary : Summaries, score : Scores]

ASSUME JudgeAssumption ==
    /\ IsFiniteSet(Threads)
    /\ Unfounded \subseteq Claims
    /\ Damaged \subseteq Payloads /\ DamagedRubrics \subseteq Payloads
    /\ Retries \in Nat
    /\ Broken \notin Claims \cup {None}
    /\ None \notin Claims
    /\ (Claims \cup {Broken, None}) \cap Rubric = {}

\* Mutant: the summary of the claims is left out of the key.
RubricKey_NoSummary(p, c) == <<"rubric", p, "founded">>

\* judge_cache_key of either stage.
ClaimsKey(p) == <<"claims", p>>
RubricKey(p, claims) == <<"rubric", p, Summary(claims)>>

ClaimsKeys == {ClaimsKey(p) : p \in Payloads}
RubricKeys == {RubricKey(p, c) : p \in Payloads, c \in Claims}
Keys == ClaimsKeys \cup RubricKeys

\* Entries of an older protocol: they are there and do not validate.
DamagedKeys ==
    {ClaimsKey(p) : p \in Damaged} \cup {RubricKey(p, c) : p \in DamagedRubrics, c \in Claims}

VARIABLES
    cache,   \* judge_cache.response of each key
    pc,      \* what each thread does next
    payload, \* what it judges
    attempt, \* invalid answers it has had in this stage
    claims,  \* the claims it has
    rubric,  \* the rubric it has
    results  \* what was judged: <<payload, claims, rubric>>

vars == <<cache, pc, payload, attempt, claims, rubric, results>>

Steps == {"idle", "claims", "ask_claims", "put_claims", "rubric", "ask_rubric",
          "put_rubric", "done"}

TypeOK ==
    /\ cache \in [Keys -> {None, Broken} \cup Claims \cup Rubric]
    /\ \A k \in ClaimsKeys : cache[k] \notin Rubric
    /\ \A k \in RubricKeys : cache[k] \in Rubric \cup {None, Broken}
    /\ pc \in [Threads -> Steps]
    /\ payload \in [Threads -> Payloads \cup {None}]
    /\ attempt \in [Threads -> 0..Retries]
    /\ claims \in [Threads -> Claims \cup {None}]
    /\ rubric \in [Threads -> Rubric \cup {None}]
    /\ results \subseteq Payloads \X Claims \X (Rubric \cup {None})

Init ==
    /\ cache = [k \in Keys |-> IF k \in DamagedKeys THEN Broken ELSE None]
    /\ pc = [t \in Threads |-> "idle"]
    /\ payload = [t \in Threads |-> None]
    /\ attempt = [t \in Threads |-> 0]
    /\ claims = [t \in Threads |-> None]
    /\ rubric = [t \in Threads |-> None]
    /\ results = {}

-----------------------------------------------------------------------------

Goes(t, next) == pc' = [pc EXCEPT ![t] = next]

\* Mutant: responses are not stored.
put_Nothing(k, response) == UNCHANGED cache

\* The first write counts: INSERT ... ON CONFLICT (cache_key) DO NOTHING.
put(k, response) ==
    cache' = IF cache[k] = None THEN [cache EXCEPT ![k] = response] ELSE cache

\* judge_case starts.
JudgeCase(t, p) ==
    /\ pc[t] = "idle"
    /\ Goes(t, "claims")
    /\ payload' = [payload EXCEPT ![t] = p]
    /\ UNCHANGED <<cache, attempt, claims, rubric, results>>

\* The claims of an earlier judgement are taken over; an entry that does not
\* validate counts as a miss.
LookupClaims(t) ==
    /\ pc[t] = "claims"
    /\ \/ /\ cache[ClaimsKey(payload[t])] \in Claims
          /\ claims' = [claims EXCEPT ![t] = cache[ClaimsKey(payload[t])]]
          /\ Goes(t, "rubric")
       \/ /\ cache[ClaimsKey(payload[t])] \notin Claims
          /\ Goes(t, "ask_claims")
          /\ UNCHANGED claims
    /\ UNCHANGED <<cache, payload, attempt, rubric, results>>

\* The model answers, for all the code knows, something else every time.
AskClaims(t) ==
    /\ pc[t] = "ask_claims"
    /\ \E answer \in Claims :
         /\ claims' = [claims EXCEPT ![t] = answer]
         /\ attempt' = [attempt EXCEPT ![t] = 0]
         /\ Goes(t, "put_claims")
    /\ UNCHANGED <<cache, payload, rubric, results>>

\* The judgement is given up without a result; the item is retried later.
JudgeFailed(t) ==
    /\ Goes(t, "idle")
    /\ payload' = [payload EXCEPT ![t] = None]
    /\ attempt' = [attempt EXCEPT ![t] = 0]

\* An answer against the protocol: asked again, or the judgement fails.
ClaimsInvalid(t) ==
    /\ pc[t] = "ask_claims"
    /\ \/ /\ attempt[t] < Retries
          /\ attempt' = [attempt EXCEPT ![t] = @ + 1]
          /\ UNCHANGED <<pc, payload>>
       \/ /\ attempt[t] = Retries
          /\ JudgeFailed(t)
    /\ UNCHANGED <<cache, claims, rubric, results>>

PutClaims(t) ==
    /\ pc[t] = "put_claims"
    /\ put(ClaimsKey(payload[t]), claims[t])
    /\ Goes(t, "rubric")
    /\ UNCHANGED <<payload, attempt, claims, rubric, results>>

\* Here too an entry that does not validate counts as a miss.
LookupRubric(t) ==
    /\ pc[t] = "rubric"
    /\ LET k == RubricKey(payload[t], claims[t]) IN
       \/ /\ cache[k] \in Rubric
          /\ rubric' = [rubric EXCEPT ![t] = cache[k]]
          /\ Goes(t, "done")
       \/ /\ cache[k] \notin Rubric
          /\ Goes(t, "ask_rubric")
          /\ UNCHANGED rubric
    /\ UNCHANGED <<cache, payload, attempt, claims, results>>

\* The prompt shows the model the summary of the thread's claims.
AskRubric(t) ==
    /\ pc[t] = "ask_rubric"
    /\ \E s \in Scores :
         /\ rubric' = [rubric EXCEPT ![t] = [summary |-> Summary(claims[t]), score |-> s]]
         /\ attempt' = [attempt EXCEPT ![t] = 0]
         /\ Goes(t, "put_rubric")
    /\ UNCHANGED <<cache, payload, claims, results>>

\* An invalid rubric is asked for again; after that the case goes without one.
RubricInvalid(t) ==
    /\ pc[t] = "ask_rubric"
    /\ \/ /\ attempt[t] < Retries
          /\ attempt' = [attempt EXCEPT ![t] = @ + 1]
          /\ UNCHANGED pc
       \/ /\ attempt[t] = Retries
          /\ attempt' = [attempt EXCEPT ![t] = 0]
          /\ Goes(t, "done")
    /\ UNCHANGED <<cache, payload, claims, rubric, results>>

PutRubric(t) ==
    /\ pc[t] = "put_rubric"
    /\ put(RubricKey(payload[t], claims[t]), rubric[t])
    /\ Goes(t, "done")
    /\ UNCHANGED <<payload, attempt, claims, rubric, results>>

\* The result goes back to the queue runner, which stores it.
Judged(t) ==
    /\ pc[t] = "done"
    /\ results' = results \cup {<<payload[t], claims[t], rubric[t]>>}
    /\ Goes(t, "idle")
    /\ payload' = [payload EXCEPT ![t] = None]
    /\ claims' = [claims EXCEPT ![t] = None]
    /\ rubric' = [rubric EXCEPT ![t] = None]
    /\ UNCHANGED <<cache, attempt>>

\* The worker is killed, or the model or the database cannot be reached: what
\* the thread had in memory is gone.
Crash(t) ==
    /\ pc[t] # "idle"
    /\ Goes(t, "idle")
    /\ payload' = [payload EXCEPT ![t] = None]
    /\ attempt' = [attempt EXCEPT ![t] = 0]
    /\ claims' = [claims EXCEPT ![t] = None]
    /\ rubric' = [rubric EXCEPT ![t] = None]
    /\ UNCHANGED <<cache, results>>

Next ==
    \E t \in Threads :
        \/ \E p \in Payloads : JudgeCase(t, p)
        \/ LookupClaims(t) \/ AskClaims(t) \/ ClaimsInvalid(t) \/ PutClaims(t)
        \/ LookupRubric(t) \/ AskRubric(t) \/ RubricInvalid(t) \/ PutRubric(t)
        \/ Judged(t) \/ Crash(t)

Spec == Init /\ [][Next]_vars

-----------------------------------------------------------------------------
(* Properties *)

\* The claims a payload has been given.
Verdicts(p) == {r[2] : r \in {s \in results : s[1] = p}}

\* However judgements interleave, crash or fail, a payload gets at most as many
\* different verdicts as threads could miss its entry at the same time: after
\* the first store nobody asks the model again. A payload whose entry does not
\* validate is the exception: it is asked about for good. (judge/cache.py:9-11.)
VerdictsBounded ==
    \A p \in Payloads \ Damaged : Cardinality(Verdicts(p)) <= Cardinality(Threads)

\* A rubric was given in view of the claims it is reported with, also when it
\* comes from the cache: a rubric for other claims is not taken over.
\* (judge/builtin.py:299-317.)
RubricFitsClaims ==
    \A r \in results : r[3] # None => r[3].summary = Summary(r[2])

\* What the cache returns for a key once, it returns ever after.
\* (judge/cache.py:9.)
EntryStays ==
    [][\A k \in Keys : cache[k] # None => cache'[k] = cache[k]]_cache

=============================================================================
