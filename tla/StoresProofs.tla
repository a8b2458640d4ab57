----------------------------- MODULE StoresProofs -----------------------------
(***************************************************************************)
(* The judge's cache and the vector index, for any number of threads,      *)
(* workers, documents, chunks and cuttings, and then the four shared       *)
(* stores of MCStores together.                                            *)
(*                                                                         *)
(* The cache: rubrics fit the claims they are reported with, an entry      *)
(* never changes, and a payload gets no more verdicts than there are       *)
(* threads. The index: a point is where its id says and in the collection  *)
(* of its cutting, nobody holds a text its document did not have, and a    *)
(* build which nobody disturbed finds in the collection all it has         *)
(* written.                                                                *)
(***************************************************************************)
EXTENDS MCStores, CatalogueProofs, JobTransactionsProofs, FiniteSetTheorems, TLAPS

-----------------------------------------------------------------------------
(* The cache of the judge *)

LEMMA KeysDiffer ==
    /\ \A p, q \in Payloads, c, d \in Claims :
          RubricKey(p, c) = RubricKey(q, d) => Summary(c) = Summary(d)
    /\ \A p, q \in Payloads, c \in Claims : ClaimsKey(p) # RubricKey(q, c)
<1>1. \A x, y, a, b : <<"rubric", x, a>> = <<"rubric", y, b>> => a = b
    OBVIOUS
<1>2. \A x, y, a : <<"claims", x>> # <<"rubric", y, a>>
    OBVIOUS
<1> QED
    BY <1>1, <1>2 DEF RubricKey, ClaimsKey

\* What each thread knows about the rubric it has or will take over.
Fits ==
    /\ \A p \in Payloads, c \in Claims :
          cache[RubricKey(p, c)] \in Rubric => cache[RubricKey(p, c)].summary = Summary(c)
    /\ \A t \in Threads :
          /\ pc[t] \in {"put_claims", "rubric", "ask_rubric", "put_rubric", "done"} =>
                claims[t] \in Claims
          /\ pc[t] # "idle" => payload[t] \in Payloads
          /\ pc[t] = "put_rubric" =>
                rubric[t] \in Rubric /\ rubric[t].summary = Summary(claims[t])
          /\ pc[t] = "done" /\ rubric[t] # None => rubric[t].summary = Summary(claims[t])
          /\ pc[t] \notin {"put_rubric", "done"} => rubric[t] = None
    /\ RubricFitsClaims

FitInv == TypeOK /\ Fits

\* The keys of the two stages are keys.
LEMMA KeyTypes ==
    /\ \A p \in Payloads : ClaimsKey(p) \in Keys /\ ClaimsKey(p) \in ClaimsKeys
    /\ \A p \in Payloads, c \in Claims :
          RubricKey(p, c) \in Keys /\ RubricKey(p, c) \in RubricKeys
    /\ \A k \in ClaimsKeys : k \notin RubricKeys
BY KeysDiffer DEF Keys, ClaimsKeys, RubricKeys

LEMMA SummaryType == \A c \in Claims : Summary(c) \in Summaries
BY DEF Summary, Summaries

LEMMA InitFits == Init => FitInv
<1> SUFFICES ASSUME Init PROVE FitInv
    OBVIOUS
<1>1. \A k \in Keys : cache[k] \in {None, Broken}
    BY DEF Init
<1>2. \A k \in RubricKeys : cache[k] \in {None, Broken}
    BY <1>1 DEF Keys
<1>3. None \notin Rubric /\ Broken \notin Rubric
    BY JudgeAssumption
<1>4. TypeOK
    BY <1>1, <1>2, <1>3, JudgeAssumption DEF Init, TypeOK, Steps, Keys
<1>5. Fits
    BY <1>2, <1>3, KeyTypes DEF Init, Fits, RubricFitsClaims
<1> QED
    BY <1>4, <1>5 DEF FitInv

LEMMA TypeStep ==
    ASSUME FitInv, [Next]_vars
    PROVE  TypeOK'
<1> USE JudgeAssumption DEF FitInv
<1>1. ASSUME NEW t \in Threads, NEW p \in Payloads, JudgeCase(t, p)
      PROVE  TypeOK'
    BY <1>1 DEF JudgeCase, Goes, TypeOK, Steps
<1>2. ASSUME NEW t \in Threads, LookupClaims(t)
      PROVE  TypeOK'
    BY <1>2 DEF LookupClaims, Goes, TypeOK, Steps
<1>3. ASSUME NEW t \in Threads, AskClaims(t)
      PROVE  TypeOK'
    BY <1>3 DEF AskClaims, Goes, TypeOK, Steps
<1>4. ASSUME NEW t \in Threads, ClaimsInvalid(t)
      PROVE  TypeOK'
    BY <1>4 DEF ClaimsInvalid, JudgeFailed, Goes, TypeOK, Steps
<1>5. ASSUME NEW t \in Threads, PutClaims(t)
      PROVE  TypeOK'
    <2>1. payload[t] \in Payloads /\ claims[t] \in Claims
        BY <1>5 DEF PutClaims, Fits, TypeOK
    <2>2. claims[t] \notin Rubric
        BY <2>1, JudgeAssumption
    <2> QED
        BY <1>5, <2>1, <2>2, KeyTypes DEF PutClaims, put, Goes, TypeOK, Steps
<1>6. ASSUME NEW t \in Threads, LookupRubric(t)
      PROVE  TypeOK'
    <2>1. payload[t] \in Payloads /\ claims[t] \in Claims
        BY <1>6 DEF LookupRubric, Fits, TypeOK
    <2> QED
        BY <1>6, <2>1, KeyTypes DEF LookupRubric, Goes, TypeOK, Steps
<1>7. ASSUME NEW t \in Threads, AskRubric(t)
      PROVE  TypeOK'
    <2>1. \A s \in Scores : [summary |-> Summary(claims[t]), score |-> s] \in Rubric
        BY <1>7, SummaryType DEF AskRubric, Fits, TypeOK, Rubric
    <2> QED
        BY <1>7, <2>1 DEF AskRubric, Goes, TypeOK, Steps
<1>8. ASSUME NEW t \in Threads, RubricInvalid(t)
      PROVE  TypeOK'
    BY <1>8 DEF RubricInvalid, Goes, TypeOK, Steps
<1>9. ASSUME NEW t \in Threads, PutRubric(t)
      PROVE  TypeOK'
    <2>1. payload[t] \in Payloads /\ claims[t] \in Claims /\ rubric[t] \in Rubric
        BY <1>9 DEF PutRubric, Fits, TypeOK
    <2> QED
        BY <1>9, <2>1, KeyTypes DEF PutRubric, put, Goes, TypeOK, Steps
<1>10. ASSUME NEW t \in Threads, Judged(t)
       PROVE  TypeOK'
    <2>1. payload[t] \in Payloads /\ claims[t] \in Claims
        BY <1>10 DEF Judged, Fits, TypeOK
    <2> QED
        BY <1>10, <2>1 DEF Judged, Goes, TypeOK, Steps
<1>11. ASSUME NEW t \in Threads, Crash(t)
       PROVE  TypeOK'
    BY <1>11 DEF Crash, Goes, TypeOK, Steps
<1>12. CASE UNCHANGED vars
    BY <1>12 DEF vars, TypeOK
<1> QED
    BY <1>1, <1>2, <1>3, <1>4, <1>5, <1>6, <1>7, <1>8, <1>9, <1>10, <1>11, <1>12 DEF Next

LEMMA FitsStep ==
    ASSUME FitInv, [Next]_vars
    PROVE  Fits'
<1> USE DEF FitInv
<1>1. ASSUME NEW t \in Threads, NEW p \in Payloads, JudgeCase(t, p)
      PROVE  Fits'
    BY <1>1 DEF JudgeCase, Goes, TypeOK, Fits, RubricFitsClaims
<1>2. ASSUME NEW t \in Threads, LookupClaims(t)
      PROVE  Fits'
    BY <1>2 DEF LookupClaims, Goes, TypeOK, Fits, RubricFitsClaims
<1>3. ASSUME NEW t \in Threads, AskClaims(t)
      PROVE  Fits'
    BY <1>3 DEF AskClaims, Goes, TypeOK, Fits, RubricFitsClaims
<1>4. ASSUME NEW t \in Threads, ClaimsInvalid(t)
      PROVE  Fits'
    BY <1>4 DEF ClaimsInvalid, JudgeFailed, Goes, TypeOK, Fits, RubricFitsClaims
<1>5. ASSUME NEW t \in Threads, PutClaims(t)
      PROVE  Fits'
    <2>1. payload[t] \in Payloads /\ claims[t] \in Claims
        BY <1>5 DEF PutClaims, Fits, TypeOK
    <2>2. \A k \in RubricKeys : cache'[k] = cache[k]
        BY <1>5, <2>1, KeyTypes DEF PutClaims, put, TypeOK, Keys
    <2>3. \A p \in Payloads, c \in Claims : cache'[RubricKey(p, c)] = cache[RubricKey(p, c)]
        BY <2>2, KeyTypes
    <2> QED
        BY <1>5, <2>1, <2>3 DEF PutClaims, Goes, TypeOK, Fits, RubricFitsClaims
<1>6. ASSUME NEW t \in Threads, LookupRubric(t)
      PROVE  Fits'
    <2>1. payload[t] \in Payloads /\ claims[t] \in Claims
        BY <1>6 DEF LookupRubric, Fits, TypeOK
    <2> QED
        BY <1>6, <2>1 DEF LookupRubric, Goes, TypeOK, Fits, RubricFitsClaims
<1>7. ASSUME NEW t \in Threads, AskRubric(t)
      PROVE  Fits'
    <2>1. \A s \in Scores : [summary |-> Summary(claims[t]), score |-> s] \in Rubric
        BY <1>7, SummaryType DEF AskRubric, Fits, TypeOK, Rubric
    <2> QED
        BY <1>7, <2>1 DEF AskRubric, Goes, TypeOK, Fits, RubricFitsClaims
<1>8. ASSUME NEW t \in Threads, RubricInvalid(t)
      PROVE  Fits'
    BY <1>8 DEF RubricInvalid, Goes, TypeOK, Fits, RubricFitsClaims
<1>9. ASSUME NEW t \in Threads, PutRubric(t)
      PROVE  Fits'
    <2> DEFINE k == RubricKey(payload[t], claims[t])
    <2>1. payload[t] \in Payloads /\ claims[t] \in Claims
          /\ rubric[t].summary = Summary(claims[t])
        BY <1>9 DEF PutRubric, Fits, TypeOK
    <2>2. \A p \in Payloads, c \in Claims :
             cache'[RubricKey(p, c)] =
               IF RubricKey(p, c) = k /\ cache[k] = None THEN rubric[t]
               ELSE cache[RubricKey(p, c)]
        BY <1>9, KeyTypes DEF PutRubric, put, TypeOK
    <2>3. \A p \in Payloads, c \in Claims :
             RubricKey(p, c) = k => Summary(c) = Summary(claims[t])
        BY <2>1, KeysDiffer
    <2>4. \A p \in Payloads, c \in Claims :
             cache'[RubricKey(p, c)] \in Rubric =>
               cache'[RubricKey(p, c)].summary = Summary(c)
        BY <2>1, <2>2, <2>3 DEF Fits
    <2> QED
        BY <1>9, <2>1, <2>4 DEF PutRubric, Goes, TypeOK, Fits, RubricFitsClaims
<1>10. ASSUME NEW t \in Threads, Judged(t)
       PROVE  Fits'
    <2>1. rubric[t] # None => rubric[t].summary = Summary(claims[t])
        BY <1>10 DEF Judged, Fits
    <2>2. RubricFitsClaims'
        BY <1>10, <2>1 DEF Judged, Fits, RubricFitsClaims
    <2> QED
        BY <1>10, <2>2 DEF Judged, Goes, TypeOK, Fits
<1>11. ASSUME NEW t \in Threads, Crash(t)
       PROVE  Fits'
    BY <1>11 DEF Crash, Goes, TypeOK, Fits, RubricFitsClaims
<1>12. CASE UNCHANGED vars
    BY <1>12 DEF vars, TypeOK, Fits, RubricFitsClaims
<1> QED
    BY <1>1, <1>2, <1>3, <1>4, <1>5, <1>6, <1>7, <1>8, <1>9, <1>10, <1>11, <1>12 DEF Next

\* The types; neither stage ever finds a response of the other under its keys, and
\* what a thread reports is valid although entries of the cache are not.
\* (judge/cache.py:58-70, 147-170; judge/builtin.py:216-224, 319-328.)
THEOREM CacheTyped == Spec => []TypeOK
<1>1. FitInv /\ [Next]_vars => FitInv'
    BY TypeStep, FitsStep DEF FitInv
<1>2. FitInv => TypeOK
    BY DEF FitInv
<1> QED
    BY InitFits, <1>1, <1>2, PTL DEF Spec

\* However many threads judge however many payloads, a rubric is reported only
\* with claims whose summary the model was shown. (judge/builtin.py:299-317.)
THEOREM RubricsFit == Spec => []RubricFitsClaims
<1>1. FitInv /\ [Next]_vars => FitInv'
    BY TypeStep, FitsStep DEF FitInv
<1>2. FitInv => RubricFitsClaims
    BY DEF FitInv, Fits
<1> QED
    BY InitFits, <1>1, <1>2, PTL DEF Spec

\* The first response stored under a key is the one every later lookup gets.
\* (judge/cache.py:9-11, 164.)
THEOREM FirstStays == Spec => EntryStays
<1>1. FitInv /\ [Next]_vars => FitInv'
    BY TypeStep, FitsStep DEF FitInv
<1>2. ASSUME FitInv, [Next]_vars
      PROVE  [\A k \in Keys : cache[k] # None => cache'[k] = cache[k]]_cache
    <2>1. \A k, r : k \in Keys /\ put(k, r) =>
             \A j \in Keys : cache[j] # None => cache'[j] = cache[j]
        BY <1>2 DEF put, FitInv, TypeOK
    <2>2. ASSUME NEW t \in Threads, PutClaims(t)
          PROVE  \A j \in Keys : cache[j] # None => cache'[j] = cache[j]
        <3>1. ClaimsKey(payload[t]) \in Keys
            BY <1>2, <2>2, KeyTypes DEF PutClaims, FitInv, Fits
        <3> QED
            BY <2>1, <2>2, <3>1 DEF PutClaims
    <2>3. ASSUME NEW t \in Threads, PutRubric(t)
          PROVE  \A j \in Keys : cache[j] # None => cache'[j] = cache[j]
        <3>1. RubricKey(payload[t], claims[t]) \in Keys
            BY <1>2, <2>3, KeyTypes DEF PutRubric, FitInv, Fits
        <3> QED
            BY <2>1, <2>3, <3>1 DEF PutRubric
    <2>4. CASE UNCHANGED cache
        BY <2>4
    <2> QED
        BY <1>2, <2>2, <2>3, <2>4 DEF Next, vars, JudgeCase, LookupClaims, AskClaims,
           ClaimsInvalid, LookupRubric, AskRubric, RubricInvalid, Judged, Crash
<1> QED
    BY InitFits, <1>1, <1>2, PTL DEF Spec, EntryStays
-----------------------------------------------------------------------------
(* How many verdicts there can be *)

\* Threads that found no claims of p and will report what the model tells them,
\* and what is known of p: reported, about to be reported, or cached.
Missed(p) == {t \in Threads : payload[t] = p /\ pc[t] \in {"ask_claims", "put_claims"}}

Carried(p) ==
    {claims[t] : t \in {u \in Threads :
        payload[u] = p /\ pc[u] \in {"rubric", "ask_rubric", "put_rubric", "done"}}}

ClaimsEntry(p) == cache[ClaimsKey(p)]

Known(p) == Verdicts(p) \cup Carried(p) \cup {ClaimsEntry(p)}

\* Nothing is known before the entry is there; after that only a thread that had
\* missed it can bring something new, and only once.
Counted(p) ==
    /\ ClaimsEntry(p) = None => Verdicts(p) = {} /\ Carried(p) = {}
    /\ ClaimsEntry(p) # None =>
          /\ ClaimsEntry(p) \in Claims
          /\ IsFiniteSet(Known(p))
          /\ Cardinality(Known(p)) + Cardinality(Missed(p)) <= Cardinality(Threads)

\* A step after which nothing new is known of p and nobody else has missed it.
Quiet(p) ==
    /\ ClaimsEntry(p)' = ClaimsEntry(p)
    /\ Verdicts(p)' \cup Carried(p)' \subseteq Verdicts(p) \cup Carried(p) \cup ({ClaimsEntry(p)} \ {None})
    /\ ClaimsEntry(p) # None => Missed(p)' \subseteq Missed(p)

LEMMA MissedFinite == \A p : IsFiniteSet(Missed(p)) /\ Missed(p) \subseteq Threads
BY JudgeAssumption, FS_Subset DEF Missed

LEMMA QuietCounts ==
    ASSUME NEW p, Counted(p), Quiet(p)
    PROVE  Counted(p)'
<1>1. CASE ClaimsEntry(p) = None
  BY <1>1 DEF Counted, Quiet
<1>2. CASE ClaimsEntry(p) # None
  <2>1. Known(p)' \subseteq Known(p) /\ Missed(p)' \subseteq Missed(p)
    BY <1>2 DEF Quiet, Known
  <2>2. IsFiniteSet(Known(p)) /\ IsFiniteSet(Missed(p))
    BY <1>2, MissedFinite DEF Counted
  <2>3. IsFiniteSet(Known(p)') /\ Cardinality(Known(p)') <= Cardinality(Known(p))
    BY <2>1, <2>2, FS_Subset
  <2>4. IsFiniteSet(Missed(p)') /\ Cardinality(Missed(p)') <= Cardinality(Missed(p))
    BY <2>1, <2>2, FS_Subset
  <2>5. /\ Cardinality(Known(p)) \in Nat /\ Cardinality(Missed(p)) \in Nat
        /\ Cardinality(Known(p)') \in Nat /\ Cardinality(Missed(p)') \in Nat
        /\ Cardinality(Threads) \in Nat
    BY <2>2, <2>3, <2>4, JudgeAssumption, FS_CardinalityType
  <2>6. Cardinality(Known(p)') + Cardinality(Missed(p)') <= Cardinality(Threads)
    BY <1>2, <2>3, <2>4, <2>5 DEF Counted
  <2> QED BY <1>2, <2>3, <2>6 DEF Counted, Quiet
<1> QED BY <1>1, <1>2

\* The first store makes the entry; a later one is a verdict more and a thread less.
LEMMA PutCounts ==
    ASSUME NEW p, Counted(p), NEW t \in Missed(p), NEW answer \in Claims,
           ClaimsEntry(p)' = IF ClaimsEntry(p) = None THEN answer ELSE ClaimsEntry(p),
           Verdicts(p)' = Verdicts(p), Carried(p)' \subseteq Carried(p) \cup {answer},
           Missed(p)' \subseteq Missed(p) \ {t}
    PROVE  Counted(p)'
<1>1. /\ IsFiniteSet(Missed(p)') /\ IsFiniteSet(Missed(p))
      /\ Cardinality(Missed(p)') <= Cardinality(Missed(p)) - 1
      /\ Cardinality(Missed(p)) <= Cardinality(Threads)
      /\ Cardinality(Missed(p)') \in Nat /\ Cardinality(Missed(p)) \in Nat
      /\ Cardinality(Threads) \in Nat
  <2>1. IsFiniteSet(Missed(p)) /\ Missed(p) \subseteq Threads
    BY MissedFinite
  <2>2. /\ IsFiniteSet(Missed(p) \ {t})
        /\ Cardinality(Missed(p) \ {t}) = Cardinality(Missed(p)) - 1
    BY <2>1, FS_RemoveElement
  <2>3. IsFiniteSet(Missed(p)') /\ Cardinality(Missed(p)') <= Cardinality(Missed(p) \ {t})
    BY <2>2, FS_Subset
  <2>4. Cardinality(Missed(p)) <= Cardinality(Threads)
    BY <2>1, JudgeAssumption, FS_Subset
  <2> QED BY <2>1, <2>2, <2>3, <2>4, JudgeAssumption, FS_CardinalityType
<1>2. ClaimsEntry(p)' \in Claims /\ ClaimsEntry(p)' # None
  BY JudgeAssumption DEF Counted
<1>3. CASE ClaimsEntry(p) = None
  <2>1. Known(p)' \subseteq {answer}
    BY <1>3 DEF Counted, Known
  <2>2. IsFiniteSet({answer}) /\ Cardinality({answer}) = 1
    BY FS_Singleton
  <2>3. IsFiniteSet(Known(p)') /\ Cardinality(Known(p)') <= 1 /\ Cardinality(Known(p)') \in Nat
    BY <2>1, <2>2, FS_Subset, FS_CardinalityType
  <2> QED BY <1>1, <1>2, <2>3 DEF Counted
<1>4. CASE ClaimsEntry(p) # None
  <2>1. Known(p)' \subseteq Known(p) \cup {answer} /\ IsFiniteSet(Known(p))
    BY <1>4 DEF Counted, Known
  <2>2. /\ IsFiniteSet(Known(p) \cup {answer})
        /\ Cardinality(Known(p) \cup {answer}) <= Cardinality(Known(p)) + 1
        /\ Cardinality(Known(p)) \in Nat
    <3>1. Cardinality(Known(p)) \in Nat
      BY <2>1, FS_CardinalityType
    <3>2. /\ IsFiniteSet(Known(p) \cup {answer})
          /\ Cardinality(Known(p) \cup {answer}) =
               IF answer \in Known(p) THEN Cardinality(Known(p)) ELSE Cardinality(Known(p)) + 1
      BY <2>1, FS_AddElement
    <3> QED BY <3>1, <3>2
  <2>3. /\ IsFiniteSet(Known(p)') /\ Cardinality(Known(p)') \in Nat
        /\ Cardinality(Known(p)') <= Cardinality(Known(p) \cup {answer})
        /\ Cardinality(Known(p) \cup {answer}) \in Nat
    BY <2>1, <2>2, FS_Subset, FS_CardinalityType
  <2>4. Cardinality(Known(p)) + Cardinality(Missed(p)) <= Cardinality(Threads)
    BY <1>4 DEF Counted
  <2>5. Cardinality(Known(p)') + Cardinality(Missed(p)') <= Cardinality(Threads)
    BY <1>1, <2>2, <2>3, <2>4
  <2> QED BY <1>2, <2>3, <2>5 DEF Counted
<1> QED BY <1>3, <1>4

\* What a step of one thread does to what is known of a payload.
LEMMA StepCounts ==
    ASSUME FitInv, [Next]_vars, NEW p \in Payloads, Counted(p)
    PROVE  Counted(p)'
<1> USE DEF FitInv
<1>1. ASSUME NEW t \in Threads, NEW q \in Payloads, JudgeCase(t, q)
      PROVE  Quiet(p)
  BY <1>1 DEF JudgeCase, Goes, TypeOK, Quiet, ClaimsEntry, Verdicts, Carried, Missed
<1>2. ASSUME NEW t \in Threads, LookupClaims(t)
      PROVE  Quiet(p)
  BY <1>2, JudgeAssumption
     DEF LookupClaims, Goes, TypeOK, Counted, Quiet, ClaimsEntry, Verdicts, Carried, Missed
<1>3. ASSUME NEW t \in Threads, AskClaims(t)
      PROVE  Quiet(p)
  BY <1>3 DEF AskClaims, Goes, TypeOK, Quiet, ClaimsEntry, Verdicts, Carried, Missed
<1>4. ASSUME NEW t \in Threads, ClaimsInvalid(t)
      PROVE  Quiet(p)
  BY <1>4 DEF ClaimsInvalid, JudgeFailed, Goes, TypeOK, Quiet, ClaimsEntry, Verdicts, Carried, Missed
<1>5. ASSUME NEW t \in Threads, PutClaims(t)
      PROVE  Counted(p)'
  <2>1. /\ payload[t] \in Payloads /\ claims[t] \in Claims
        /\ pc[t] = "put_claims" /\ pc' = [pc EXCEPT ![t] = "rubric"]
        /\ payload' = payload /\ claims' = claims /\ results' = results
    BY <1>5 DEF PutClaims, Goes, Fits
  <2>2. Verdicts(p)' = Verdicts(p)
    BY <2>1 DEF Verdicts
  <2>3. CASE payload[t] = p
    <3>1. ClaimsEntry(p)' = IF ClaimsEntry(p) = None THEN claims[t] ELSE ClaimsEntry(p)
      BY <1>5, <2>3, KeyTypes DEF PutClaims, put, TypeOK, ClaimsEntry
    <3>2. t \in Missed(p) /\ Missed(p)' \subseteq Missed(p) \ {t}
      BY <2>1, <2>3 DEF Missed, TypeOK
    <3>3. Carried(p)' \subseteq Carried(p) \cup {claims[t]}
      BY <2>1 DEF Carried, TypeOK
    <3> QED BY <2>1, <2>2, <3>1, <3>2, <3>3, PutCounts
  <2>4. CASE payload[t] # p
    <3>1. ClaimsKey(p) # ClaimsKey(payload[t])
      BY <2>4 DEF ClaimsKey
    <3>2. ClaimsEntry(p)' = ClaimsEntry(p)
      BY <1>5, <2>1, <3>1, KeyTypes DEF PutClaims, put, TypeOK, ClaimsEntry
    <3>3. Carried(p)' = Carried(p) /\ Missed(p)' = Missed(p)
      BY <2>1, <2>4 DEF Carried, Missed, TypeOK
    <3> QED BY <2>2, <3>2, <3>3, QuietCounts DEF Quiet
  <2> QED BY <2>3, <2>4
<1>6. ASSUME NEW t \in Threads, LookupRubric(t)
      PROVE  Quiet(p)
  BY <1>6 DEF LookupRubric, Goes, TypeOK, Quiet, ClaimsEntry, Verdicts, Carried, Missed
<1>7. ASSUME NEW t \in Threads, AskRubric(t)
      PROVE  Quiet(p)
  BY <1>7 DEF AskRubric, Goes, TypeOK, Quiet, ClaimsEntry, Verdicts, Carried, Missed
<1>8. ASSUME NEW t \in Threads, RubricInvalid(t)
      PROVE  Quiet(p)
  BY <1>8 DEF RubricInvalid, Goes, TypeOK, Quiet, ClaimsEntry, Verdicts, Carried, Missed
<1>9. ASSUME NEW t \in Threads, PutRubric(t)
      PROVE  Quiet(p)
  <2>1. payload[t] \in Payloads /\ claims[t] \in Claims
    BY <1>9 DEF PutRubric, Fits
  <2>2. ClaimsKey(p) # RubricKey(payload[t], claims[t])
    BY <2>1, KeysDiffer
  <2>3. ClaimsEntry(p)' = ClaimsEntry(p)
    BY <1>9, <2>1, <2>2, KeyTypes DEF PutRubric, put, TypeOK, ClaimsEntry
  <2> QED BY <1>9, <2>3 DEF PutRubric, Goes, TypeOK, Quiet, Verdicts, Carried, Missed
<1>10. ASSUME NEW t \in Threads, Judged(t)
       PROVE  Quiet(p)
  <2>1. /\ ClaimsEntry(p)' = ClaimsEntry(p) /\ Missed(p)' \subseteq Missed(p)
        /\ Carried(p)' \subseteq Carried(p)
    BY <1>10 DEF Judged, Goes, TypeOK, ClaimsEntry, Carried, Missed
  <2>2. results' = results \cup {<<payload[t], claims[t], rubric[t]>>} /\ pc[t] = "done"
    BY <1>10 DEF Judged
  <2>3. Verdicts(p)' \subseteq Verdicts(p) \cup Carried(p)
    BY <2>2 DEF Verdicts, Carried
  <2> QED BY <2>1, <2>3 DEF Quiet
<1>11. ASSUME NEW t \in Threads, Crash(t)
       PROVE  Quiet(p)
  BY <1>11 DEF Crash, Goes, TypeOK, Quiet, ClaimsEntry, Verdicts, Carried, Missed
<1>12. ASSUME UNCHANGED vars
       PROVE  Quiet(p)
  BY <1>12 DEF vars, Quiet, ClaimsEntry, Verdicts, Carried, Missed
<1> QED
  BY <1>1, <1>2, <1>3, <1>4, <1>5, <1>6, <1>7, <1>8, <1>9, <1>10, <1>11, <1>12, QuietCounts
     DEF Next

\* However many threads miss together, crash or fail, a payload with a valid
\* entry has at most one verdict for each of them. (judge/cache.py:9-11.)
THEOREM FewVerdicts == Spec => []VerdictsBounded
<1> DEFINE AllCounted == \A p \in Payloads \ Damaged : Counted(p)
<1>1. Init => AllCounted
  <2> SUFFICES ASSUME Init, NEW p \in Payloads \ Damaged PROVE Counted(p)
    OBVIOUS
  <2>1. \A q \in Damaged : ClaimsKey(p) # ClaimsKey(q)
    BY DEF ClaimsKey
  <2>2. \A q \in DamagedRubrics, c \in Claims : ClaimsKey(p) # RubricKey(q, c)
    BY KeysDiffer, JudgeAssumption
  <2>3. ClaimsKey(p) \notin DamagedKeys
    BY <2>1, <2>2 DEF DamagedKeys
  <2>4. ClaimsEntry(p) = None
    BY <2>3, KeyTypes DEF Init, ClaimsEntry
  <2> QED BY <2>4 DEF Init, Counted, Verdicts, Carried
<1>2. FitInv /\ AllCounted /\ [Next]_vars => FitInv' /\ AllCounted'
  BY TypeStep, FitsStep, StepCounts DEF FitInv
<1>3. AllCounted => VerdictsBounded
  <2> SUFFICES ASSUME NEW p \in Payloads, Counted(p)
               PROVE  Cardinality(Verdicts(p)) <= Cardinality(Threads)
    BY DEF VerdictsBounded
  <2>1. Cardinality(Threads) \in Nat
    BY JudgeAssumption, FS_CardinalityType
  <2>2. CASE ClaimsEntry(p) = None
    BY <2>1, <2>2, FS_EmptySet DEF Counted
  <2>3. CASE ClaimsEntry(p) # None
    <3>1. IsFiniteSet(Known(p)) /\ Verdicts(p) \subseteq Known(p)
      BY <2>3 DEF Counted, Known
    <3>2. /\ IsFiniteSet(Verdicts(p)) /\ Cardinality(Verdicts(p)) <= Cardinality(Known(p))
          /\ IsFiniteSet(Missed(p))
      BY <3>1, FS_Subset, MissedFinite
    <3>3. /\ Cardinality(Verdicts(p)) \in Nat /\ Cardinality(Known(p)) \in Nat
          /\ Cardinality(Missed(p)) \in Nat
      BY <3>1, <3>2, FS_CardinalityType
    <3> QED BY <2>1, <2>3, <3>2, <3>3 DEF Counted
  <2> QED BY <2>2, <2>3
<1> QED BY <1>1, <1>2, <1>3, InitFits, PTL DEF Spec

-----------------------------------------------------------------------------
(* The index *)

FirstText == CHOOSE t \in Texts : TRUE

Chunk == [text : Texts, cfg : Cuttings, index : Int]
IndexEntry == [doc : IndexedDocs, chunk : Chunk]

\* The id under which an entry is stored.
IdOf(e) == point_id(Corpus, e.doc, e.chunk.index, e.chunk.cfg)

\* An entry of a text its document has had; the first one unless it is in again.
HeldText(e, again) == e \in IndexEntry /\ (e.doc \notin again => e.chunk.text = FirstText)

\* What a build does before it reads the documents.
BuildSteps == {"ensure", "drop", "create", "size"}

WorkerType ==
    [pc : BuildSteps \cup {"idle", "read", "upsert", "search"}, cfg : Cuttings \cup {0},
     recreate : BOOLEAN, job : BOOLEAN, read : Seq(IndexEntry), written : Nat,
     disturbed : BOOLEAN]

\* What a worker has read is cut as its job says, and what it has written is
\* there, in the stores cols.
Listing(r, again) ==
    \A i \in 1 .. Len(r.read) : HeldText(r.read[i], again) /\ r.read[i].chunk.cfg = r.cfg

AllWritten(r, cols) ==
    /\ collection_name(Corpus, r.cfg) \in DOMAIN cols
    /\ \A i \in 1 .. Len(r.read) :
          i <= r.written => IdOf(r.read[i]) \in DOMAIN cols[collection_name(Corpus, r.cfg)]

WorkerFits(r, cols, again) ==
    /\ r \in WorkerType
    /\ r.pc # "idle" => r.cfg \in Cuttings
    /\ r.pc \in BuildSteps \cup {"idle", "read"} => r.written = 0
    /\ r.written <= Len(r.read)
    /\ Listing(r, again)
    /\ r.pc \in {"read", "upsert", "search"} /\ ~r.disturbed => AllWritten(r, cols)

TextsInv ==
    /\ DOMAIN texts \subseteq IndexedDocs
    /\ \A d \in DOMAIN texts :
          texts[d] \in Texts /\ (d \notin reuploaded => texts[d] = FirstText)

Placed(cols, again) ==
    \A n \in DOMAIN cols : \A p \in DOMAIN cols[n] :
        /\ HeldText(cols[n][p], again) /\ p = IdOf(cols[n][p])
        /\ n = collection_name(Corpus, cols[n][p].chunk.cfg)

WorkersInv ==
    /\ worker \in [Workers -> WorkerType]
    /\ \A w \in Workers : WorkerFits(worker[w], collections, reuploaded)

ResultInv(r, again) ==
    r # Missing => \A i \in DOMAIN r.retrieved :
                    HeldText(r.found[i], again) /\ r.retrieved[i] = IdOf(r.found[i])

IndexInv ==
    /\ TextsInv
    /\ Placed(collections, reuploaded)
    /\ WorkersInv
    /\ ResultInv(caseResult, reuploaded)

-----------------------------------------------------------------------------
(* Lists *)

\* A document has finitely many chunks.
LEMMA ChunksFinite ==
    ASSUME IndexAssumption, NEW d \in IndexedDocs, NEW text, NEW cfg \in Cuttings
    PROVE  IsFiniteSet({[doc |-> d, chunk |-> k] : k \in chunk_document(d, text, cfg)})
<1> DEFINE n == ChunkCount[d][cfg]
           E(i) == [doc |-> d, chunk |-> [text |-> text, cfg |-> cfg, index |-> i]]
           S == {[doc |-> d, chunk |-> k] : k \in chunk_document(d, text, cfg)}
           f == [i \in 1 .. n |-> E(i)]
<1>1. n \in Nat
  BY DEF IndexAssumption
<1>2. IsFiniteSet(1 .. n)
  BY <1>1, FS_Interval
<1>3. \A s : s \in S <=> \E i \in 1 .. n : s = E(i)
  BY DEF chunk_document
<1>4. f \in Surjection(1 .. n, S)
  <2> HIDE DEF S, E
  <2>1. f \in [1 .. n -> S]
    BY <1>3
  <2>2. \A s \in S : \E i \in 1 .. n : f[i] = s
    BY <1>3
  <2> QED BY <2>1, <2>2 DEF Surjection
<1> QED BY <1>2, <1>4, FS_Surjection

\* What a worker reads is a list of entries of the documents, cut as asked.
LEMMA Listed ==
    ASSUME IndexAssumption, TextsInv, NEW cfg \in Cuttings,
           NEW list \in Entries(texts, cfg)
    PROVE  /\ list \in Seq(IndexEntry)
           /\ \A i \in 1 .. Len(list) : HeldText(list[i], reuploaded) /\ list[i].chunk.cfg = cfg
<1> DEFINE Of(d) == {[doc |-> d, chunk |-> k] : k \in chunk_document(d, texts[d], cfg)}
           Sets == {Of(d) : d \in DOMAIN texts}
           chunks == UNION Sets
<1>1. \A e \in chunks : HeldText(e, reuploaded) /\ e.chunk.cfg = cfg
  <2> SUFFICES ASSUME NEW d \in DOMAIN texts, NEW e \in Of(d)
               PROVE  HeldText(e, reuploaded) /\ e.chunk.cfg = cfg
    OBVIOUS
  <2>1. PICK i \in 1 .. ChunkCount[d][cfg] :
            e = [doc |-> d, chunk |-> [text |-> texts[d], cfg |-> cfg, index |-> i]]
    BY DEF chunk_document
  <2>2. i \in Int
    OBVIOUS
  <2>3. d \in IndexedDocs /\ texts[d] \in Texts /\ (d \notin reuploaded => texts[d] = FirstText)
    BY DEF TextsInv
  <2> QED BY <2>1, <2>2, <2>3 DEF HeldText, IndexEntry, Chunk
<1>2. IsFiniteSet(chunks)
  <2>1. IsFiniteSet(DOMAIN texts)
    BY FS_Subset DEF TextsInv, IndexAssumption
  <2> DEFINE g == [d \in DOMAIN texts |-> Of(d)]
  <2>2. g \in Surjection(DOMAIN texts, Sets)
    <3> HIDE DEF Of
    <3>1. g \in [DOMAIN texts -> Sets] /\ \A s \in Sets : \E d \in DOMAIN texts : g[d] = s
      OBVIOUS
    <3> QED BY <3>1 DEF Surjection
  <2>3. IsFiniteSet(Sets)
    BY <2>1, <2>2, FS_Surjection
  <2>4. \A s \in Sets : IsFiniteSet(s)
    BY ChunksFinite DEF TextsInv
  <2> HIDE DEF Sets
  <2> QED BY <2>3, <2>4, FS_UNION
<1>3. Cardinality(chunks) \in Nat
  BY <1>2, FS_CardinalityType
<1>4. list \in [1 .. Cardinality(chunks) -> chunks]
  BY DEF Entries, SetToSeqs
<1> HIDE DEF chunks
<1>5. Len(list) = Cardinality(chunks) /\ \A i \in 1 .. Len(list) : list[i] \in chunks
  BY <1>3, <1>4
<1>6. list \in Seq(IndexEntry)
  <2>1. \A i \in 1 .. Cardinality(chunks) : list[i] \in IndexEntry
    BY <1>1, <1>4 DEF HeldText
  <2>2. list \in [1 .. Cardinality(chunks) -> IndexEntry]
    BY <1>4, <2>1
  <2> QED BY <1>3, <2>2
<1> QED BY <1>1, <1>5, <1>6

-----------------------------------------------------------------------------
(* The invariant *)

LEMMA IdleType ==
    /\ IdleWorker \in WorkerType /\ IdleWorker.pc = "idle" /\ IdleWorker.written = 0
    /\ IdleWorker.read = <<>> /\ Len(IdleWorker.read) = 0
BY DEF IdleWorker, WorkerType, BuildSteps

LEMMA IdleFits == ASSUME NEW cols, NEW again PROVE WorkerFits(IdleWorker, cols, again)
BY IdleType DEF WorkerFits, Listing, BuildSteps

LEMMA IndexInitInv == IndexAssumption /\ IndexInit => IndexInv
<1> SUFFICES ASSUME IndexAssumption, IndexInit PROVE IndexInv
  OBVIOUS
<1>1. TextsInv
  <2>1. FirstText \in Texts
    BY DEF FirstText, IndexAssumption
  <2>2. texts = [d \in IndexedDocs |-> FirstText] /\ reuploaded = {}
    BY DEF IndexInit, FirstText
  <2> QED BY <2>1, <2>2 DEF TextsInv
<1>2. Placed(collections, reuploaded)
  BY DEF IndexInit, Placed
<1>3. IdleWorker \in WorkerType
  BY IdleType
<1>4. WorkerFits(IdleWorker, collections, reuploaded)
  BY IdleFits
<1>5. WorkersInv
  BY <1>3, <1>4 DEF IndexInit, WorkersInv
<1>6. ResultInv(caseResult, reuploaded)
  BY DEF IndexInit, ResultInv
<1> QED BY <1>1, <1>2, <1>5, <1>6 DEF IndexInv

\* Stores that lose no point leave what fits as it is, and so does an upload.
Grows(cols, new) ==
    \A n \in DOMAIN cols : n \in DOMAIN new /\ DOMAIN cols[n] \subseteq DOMAIN new[n]

LEMMA FitsGrows ==
    ASSUME NEW cols, NEW new, Grows(cols, new), NEW again, NEW more, again \subseteq more,
           NEW r, WorkerFits(r, cols, again)
    PROVE  WorkerFits(r, new, more)
<1>1. Listing(r, more)
  BY DEF WorkerFits, Listing, HeldText
<1>2. AllWritten(r, cols) => AllWritten(r, new)
  BY DEF AllWritten, Grows
<1> QED BY <1>1, <1>2 DEF WorkerFits

\* A step of one worker.
LEMMA WorkerGoInv ==
    ASSUME WorkersInv, Grows(collections, collections'), reuploaded \subseteq reuploaded',
           NEW w \in Workers, NEW r, Becomes(w, r), WorkerFits(r, collections', reuploaded')
    PROVE  WorkersInv'
<1>1. r \in WorkerType
  BY DEF WorkerFits
<1>2. worker' \in [Workers -> WorkerType] /\ worker'[w] = r
  BY <1>1 DEF Becomes, WorkersInv
<1>3. ASSUME NEW v \in Workers PROVE WorkerFits(worker'[v], collections', reuploaded')
  <2>1. CASE v = w
    BY <1>2, <2>1
  <2>2. CASE v # w
    <3>1. worker'[v] = worker[v] /\ WorkerFits(worker[v], collections, reuploaded)
      BY <2>2 DEF Becomes, WorkersInv
    <3> QED BY <3>1, FitsGrows
  <2> QED BY <2>1, <2>2
<1> QED BY <1>2, <1>3 DEF WorkersInv

\* The next step of a job over the same list.
LEMMA NextPc ==
    ASSUME NEW r \in WorkerType, NEW goal \in BuildSteps \cup {"read", "search"}
    PROVE  /\ [r EXCEPT !.pc = goal] \in WorkerType
           /\ [r EXCEPT !.pc = goal].pc = goal
           /\ [r EXCEPT !.pc = goal].cfg = r.cfg
           /\ [r EXCEPT !.pc = goal].read = r.read
           /\ [r EXCEPT !.pc = goal].written = r.written
           /\ [r EXCEPT !.pc = goal].disturbed = r.disturbed
BY DEF WorkerType

LEMMA Same == \A cols : Grows(cols, cols)
BY DEF Grows

\* A worker that turns to something else, and leaves the stores alone.
LEMMA TurnInv ==
    ASSUME IndexInv, NEW w \in Workers, NEW r, Becomes(w, r), WorkerFits(r, collections, reuploaded),
           UNCHANGED <<texts, collections, caseResult, reuploaded>>
    PROVE  IndexInv'
<1>1. WorkersInv'
  BY WorkerGoInv, Same DEF IndexInv
<1> QED BY <1>1 DEF IndexInv, TextsInv, Placed, ResultInv

LEMMA StartJobInv ==
    ASSUME IndexInv, NEW w \in Workers, NEW cfg \in Cuttings, StartJob(w, cfg)
    PROVE  IndexInv'
<1> DEFINE goal == IF Exists(collection_name(Corpus, cfg)) THEN "search" ELSE "ensure"
           r == [IdleWorker EXCEPT !.pc = goal, !.cfg = cfg, !.job = TRUE]
<1>1. goal \in {"search", "ensure"}
  OBVIOUS
<1> HIDE DEF goal
<1>2. /\ r \in WorkerType /\ r.pc = goal /\ r.cfg = cfg /\ r.written = 0 /\ r.read = <<>>
  BY <1>1, IdleType DEF WorkerType, BuildSteps
<1>3. Becomes(w, r)
  BY DEF StartJob, goal
<1>4. goal = "search" => collection_name(Corpus, cfg) \in DOMAIN collections
  BY DEF goal, Exists
<1> HIDE DEF r
<1>5. goal = "search" => AllWritten(r, collections)
  BY <1>2, <1>4 DEF AllWritten
<1>6. WorkerFits(r, collections, reuploaded)
  BY <1>1, <1>2, <1>5 DEF WorkerFits, Listing, BuildSteps
<1> QED BY <1>3, <1>6, TurnInv DEF StartJob

LEMMA StartBuildInv ==
    ASSUME IndexAssumption, IndexInv, NEW w \in Workers, NEW build \in Builds,
           StartBuild(w, build)
    PROVE  IndexInv'
<1> DEFINE r == [IdleWorker EXCEPT !.pc = "ensure", !.cfg = build.cfg, !.recreate = build.recreate]
<1>1. build.cfg \in Cuttings /\ build.recreate \in BOOLEAN
  BY DEF IndexAssumption
<1>2. r \in WorkerType /\ r.pc = "ensure" /\ r.cfg = build.cfg /\ r.written = 0 /\ r.read = <<>>
  BY <1>1, IdleType DEF WorkerType, BuildSteps
<1>3. Becomes(w, r)
  BY DEF StartBuild
<1> HIDE DEF r
<1>4. WorkerFits(r, collections, reuploaded)
  BY <1>1, <1>2 DEF WorkerFits, Listing, BuildSteps
<1> QED BY <1>3, <1>4, TurnInv DEF StartBuild

\* Asking whether the collection is there promises nothing yet.
LEMMA EnsureInv ==
    ASSUME IndexInv, NEW w \in Workers, ensure_collection(w)
    PROVE  IndexInv'
<1>1. PICK goal \in {"drop", "size", "create"} : Pc(w, goal)
  BY DEF ensure_collection
<1> DEFINE r == [worker[w] EXCEPT !.pc = goal]
<1>2. worker[w] \in WorkerType /\ WorkerFits(worker[w], collections, reuploaded) /\ worker[w].pc = "ensure"
  BY DEF IndexInv, WorkersInv, ensure_collection
<1>3. /\ r \in WorkerType /\ r.pc = goal /\ r.cfg = worker[w].cfg /\ r.read = worker[w].read
      /\ r.written = worker[w].written
  BY <1>2, NextPc DEF BuildSteps
<1>4. Becomes(w, r)
  BY <1>1 DEF Pc
<1> HIDE DEF r
<1>5. WorkerFits(r, collections, reuploaded)
  BY <1>2, <1>3 DEF WorkerFits, Listing, BuildSteps
<1> QED BY <1>4, <1>5, TurnInv DEF ensure_collection

LEMMA VectorSizeInv ==
    ASSUME IndexInv, NEW w \in Workers, vector_size(w)
    PROVE  IndexInv'
<1> DEFINE r == [worker[w] EXCEPT !.pc = "read"]
<1>1. /\ worker[w] \in WorkerType /\ WorkerFits(worker[w], collections, reuploaded)
      /\ worker[w].pc = "size" /\ Name(w) \in DOMAIN collections
  BY DEF IndexInv, WorkersInv, vector_size, Exists
<1>2. /\ r \in WorkerType /\ r.pc = "read" /\ r.cfg = worker[w].cfg /\ r.read = worker[w].read
      /\ r.written = worker[w].written
  BY <1>1, NextPc
<1>3. Becomes(w, r)
  BY DEF vector_size, Pc
<1> HIDE DEF r
<1>4. r.written = 0 /\ r.cfg \in Cuttings /\ Listing(r, reuploaded)
  BY <1>1, <1>2 DEF WorkerFits, Listing, BuildSteps
<1>5. AllWritten(r, collections)
  BY <1>1, <1>2, <1>4 DEF AllWritten, Name
<1>6. WorkerFits(r, collections, reuploaded)
  BY <1>2, <1>4, <1>5 DEF WorkerFits
<1> QED BY <1>3, <1>6, TurnInv DEF vector_size

\* Whoever builds or searches this collection has been disturbed, and no other is touched.
LEMMA DeleteCollectionInv ==
    ASSUME IndexInv, NEW w \in Workers, delete_collection(w)
    PROVE  IndexInv'
<1> DEFINE New(v) == IF v = w THEN [worker[v] EXCEPT !.pc = "create"]
                     ELSE [worker[v] EXCEPT !.disturbed = @ \/ (Uses(v) /\ Name(v) = Name(w))]
<1>1. worker' = [v \in Workers |-> New(v)] /\ worker[w].pc = "drop"
  BY DEF delete_collection
<1>2. collections' = [n \in DOMAIN collections \ {Name(w)} |-> collections[n]]
  BY DEF delete_collection
<1>3. UNCHANGED <<texts, caseResult, reuploaded>>
  BY DEF delete_collection
<1>4. ASSUME NEW v \in Workers
      PROVE  New(v) \in WorkerType /\ WorkerFits(New(v), collections', reuploaded')
  <2>1. worker[v] \in WorkerType /\ WorkerFits(worker[v], collections, reuploaded)
    BY DEF IndexInv, WorkersInv
  <2>2. /\ New(v) \in WorkerType
        /\ v # w => New(v).pc = worker[v].pc
        /\ New(v).cfg = worker[v].cfg
        /\ New(v).read = worker[v].read /\ New(v).written = worker[v].written
        /\ v = w => New(v).pc = "create"
        /\ v # w => New(v).disturbed = (worker[v].disturbed \/ (Uses(v) /\ Name(v) = Name(w)))
    BY <1>1, <2>1 DEF WorkerType, BuildSteps
  <2> HIDE DEF New
  <2>3. Listing(New(v), reuploaded')
    BY <1>3, <2>1, <2>2 DEF WorkerFits, Listing
  <2>4. ASSUME New(v).pc \in {"read", "upsert", "search"}, ~New(v).disturbed
        PROVE  AllWritten(New(v), collections')
    <3>1. ~worker[v].disturbed /\ Name(v) # Name(w)
      BY <2>2, <2>4 DEF Uses
    <3>2. AllWritten(worker[v], collections)
      BY <2>1, <2>2, <2>4, <3>1 DEF WorkerFits
    <3> QED BY <1>2, <2>2, <3>1, <3>2 DEF AllWritten, Name
  <2>5. New(v).written = 0 \/ New(v).pc = worker[v].pc
    BY <1>1, <2>1, <2>2 DEF WorkerFits, BuildSteps
  <2> QED BY <1>1, <2>1, <2>2, <2>3, <2>4, <2>5 DEF WorkerFits
<1> HIDE DEF New
<1>5. WorkersInv'
  BY <1>1, <1>4 DEF WorkersInv
<1>6. Placed(collections', reuploaded')
  BY <1>2, <1>3 DEF IndexInv, Placed
<1> QED BY <1>3, <1>5, <1>6 DEF IndexInv, TextsInv, ResultInv

LEMMA CreateCollectionInv ==
    ASSUME IndexInv, NEW w \in Workers, create_collection(w)
    PROVE  IndexInv'
<1> DEFINE r == [worker[w] EXCEPT !.pc = "read"]
<1>1. worker[w] \in WorkerType /\ WorkerFits(worker[w], collections, reuploaded)
  BY DEF IndexInv, WorkersInv
<1>2. /\ r \in WorkerType /\ r.pc = "read" /\ r.cfg = worker[w].cfg /\ r.read = worker[w].read
      /\ r.written = worker[w].written
  BY <1>1, NextPc
<1>3. Becomes(w, r)
  BY DEF create_collection, Pc
<1> HIDE DEF r
<1>4. /\ worker[w].pc = "create"
      /\ collections' = [n \in DOMAIN collections \cup {Name(w)} |->
                            IF Exists(n) THEN collections[n] ELSE <<>>]
      /\ UNCHANGED <<texts, caseResult, reuploaded>>
  BY DEF create_collection
<1>5. Grows(collections, collections')
  BY <1>4 DEF Grows, Exists
<1>6. WorkerFits(r, collections', reuploaded')
  <2>1. r.written = 0 /\ r.cfg \in Cuttings /\ Listing(r, reuploaded')
    BY <1>1, <1>2, <1>4 DEF WorkerFits, Listing, BuildSteps
  <2>2. AllWritten(r, collections')
    BY <1>2, <1>4, <2>1 DEF AllWritten, Name
  <2> QED BY <1>2, <2>1, <2>2 DEF WorkerFits
<1>7. WorkersInv'
  BY <1>3, <1>4, <1>5, <1>6, WorkerGoInv DEF IndexInv
<1>8. Placed(collections', reuploaded')
  <2> SUFFICES ASSUME NEW n \in DOMAIN collections', NEW p \in DOMAIN collections'[n]
               PROVE  /\ HeldText(collections'[n][p], reuploaded') /\ p = IdOf(collections'[n][p])
                      /\ n = collection_name(Corpus, collections'[n][p].chunk.cfg)
    BY DEF Placed
  <2>1. n \in DOMAIN collections /\ collections'[n] = collections[n]
    BY <1>4 DEF Exists
  <2> QED BY <1>4, <2>1 DEF IndexInv, Placed
<1> QED BY <1>4, <1>7, <1>8 DEF IndexInv, TextsInv, ResultInv

LEMMA ListDocumentsInv ==
    ASSUME IndexAssumption, IndexInv, NEW w \in Workers, list_documents(w)
    PROVE  IndexInv'
<1>1. worker[w] \in WorkerType /\ WorkerFits(worker[w], collections, reuploaded) /\ worker[w].pc = "read"
  BY DEF IndexInv, WorkersInv, list_documents
<1>2. PICK list \in Entries(texts, worker[w].cfg) :
          Becomes(w, [worker[w] EXCEPT !.pc = "upsert", !.read = list])
  BY DEF list_documents
<1>3. worker[w].cfg \in Cuttings /\ worker[w].written = 0
  BY <1>1 DEF WorkerFits
<1>4. /\ list \in Seq(IndexEntry)
      /\ \A i \in 1 .. Len(list) : HeldText(list[i], reuploaded) /\ list[i].chunk.cfg = worker[w].cfg
  BY <1>2, <1>3, Listed DEF IndexInv
<1> DEFINE r == [worker[w] EXCEPT !.pc = "upsert", !.read = list]
<1>5. /\ r \in WorkerType /\ r.pc = "upsert" /\ r.cfg = worker[w].cfg /\ r.read = list
      /\ r.written = 0 /\ r.disturbed = worker[w].disturbed
  BY <1>1, <1>3, <1>4 DEF WorkerType
<1>6. Becomes(w, r)
  BY <1>2
<1> HIDE DEF r
<1>7. Listing(r, reuploaded)
  BY <1>4, <1>5 DEF Listing
<1>8. ~r.disturbed => AllWritten(r, collections)
  BY <1>1, <1>5 DEF WorkerFits, AllWritten
<1>9. WorkerFits(r, collections, reuploaded)
  BY <1>3, <1>5, <1>7, <1>8 DEF WorkerFits
<1> QED BY <1>6, <1>9, TurnInv DEF list_documents

LEMMA BuildFailsInv ==
    ASSUME IndexInv, NEW w \in Workers, BuildFails(w) \/ SearchFails(w) \/ WorkerCrash(w)
    PROVE  IndexInv'
BY IdleFits, TurnInv DEF BuildFails, SearchFails, WorkerCrash

LEMMA BuildDoneInv ==
    ASSUME IndexInv, NEW w \in Workers, BuildDone(w)
    PROVE  IndexInv'
<1>1. worker[w] \in WorkerType /\ WorkerFits(worker[w], collections, reuploaded) /\ worker[w].pc = "upsert"
  BY DEF IndexInv, WorkersInv, BuildDone
<1> DEFINE r == [worker[w] EXCEPT !.pc = "search"]
<1>2. /\ r \in WorkerType /\ r.pc = "search" /\ r.cfg = worker[w].cfg /\ r.read = worker[w].read
      /\ r.written = worker[w].written /\ r.disturbed = worker[w].disturbed
  BY <1>1, NextPc
<1>3. Becomes(w, r) \/ Becomes(w, IdleWorker)
  BY DEF BuildDone, Pc
<1> HIDE DEF r
<1>4. ~r.disturbed => AllWritten(r, collections)
  BY <1>1, <1>2 DEF WorkerFits, AllWritten
<1>5. WorkerFits(r, collections, reuploaded)
  BY <1>1, <1>2, <1>4 DEF WorkerFits, Listing, BuildSteps
<1> QED BY <1>3, <1>5, IdleFits, TurnInv DEF BuildDone

LEMMA BatchEndNat ==
    ASSUME IndexAssumption, NEW r \in WorkerType
    PROVE  BatchEnd(r) \in Nat /\ BatchEnd(r) <= Len(r.read)
<1> DEFINE S == {r.written + UpsertBatch, Len(r.read)}
<1>1. r.written + UpsertBatch \in Nat /\ Len(r.read) \in Nat
  BY DEF IndexAssumption, WorkerType
<1>2. \E x \in S : \A y \in S : x =< y
  BY <1>1
<1>3. Min(S) \in S /\ \A y \in S : Min(S) =< y
  BY <1>2 DEF Min
<1> QED BY <1>1, <1>3 DEF BatchEnd

LEMMA UpsertInv ==
    ASSUME IndexAssumption, IndexInv, NEW w \in Workers, upsert_chunks(w)
    PROVE  IndexInv'
<1> DEFINE r == worker[w]
           end == BatchEnd(r)
           batch == {r.read[i] : i \in (r.written + 1 .. end) \cap DOMAIN r.read}
           Id(e) == point_id(Corpus, e.doc, e.chunk.index, r.cfg)
           ids == {Id(e) : e \in batch}
           New(n) == [p \in DOMAIN collections[n] \cup ids |->
                         IF p \in ids THEN CHOOSE e \in batch : Id(e) = p ELSE collections[n][p]]
           q == [r EXCEPT !.written = end]
<1>1. r \in WorkerType /\ WorkerFits(r, collections, reuploaded) /\ r.pc = "upsert"
  BY DEF IndexInv, WorkersInv, upsert_chunks
<1>2. /\ Name(w) \in DOMAIN collections
      /\ collections' = [collections EXCEPT ![Name(w)] = New(Name(w))]
      /\ Becomes(w, q)
      /\ UNCHANGED <<texts, caseResult, reuploaded>>
  BY DEF upsert_chunks, Exists
<1>3. end \in Nat /\ end <= Len(r.read)
  BY <1>1, BatchEndNat
<1>4. DOMAIN r.read = 1 .. Len(r.read) /\ Len(r.read) \in Nat /\ r.written \in Nat
  BY <1>1 DEF WorkerType
<1>5. \A e \in batch : HeldText(e, reuploaded) /\ Id(e) = IdOf(e) /\ e.chunk.cfg = r.cfg
  BY <1>1, <1>4 DEF WorkerFits, Listing, IdOf
<1>6. \A i \in 1 .. Len(r.read) : i \in r.written + 1 .. end => IdOf(r.read[i]) \in ids
  BY <1>4, <1>5
<1>7. q \in WorkerType /\ q.pc = "upsert" /\ q.cfg = r.cfg /\ q.read = r.read
      /\ q.written = end /\ q.disturbed = r.disturbed
  BY <1>1, <1>3 DEF WorkerType
<1>8. \A p \in ids : (CHOOSE e \in batch : Id(e) = p) \in batch
                     /\ Id(CHOOSE e \in batch : Id(e) = p) = p
  OBVIOUS
<1>9. Name(w) = collection_name(Corpus, r.cfg)
  BY DEF Name
<1> HIDE DEF end, batch, Id, q
<1>10. DOMAIN collections' = DOMAIN collections
  BY <1>2
<1>11. \A n \in DOMAIN collections : n # Name(w) => collections'[n] = collections[n]
  BY <1>2
<1>12. collections'[Name(w)] = New(Name(w))
  BY <1>2
<1> DEFINE cols == collections'[Name(w)]
<1>13. /\ DOMAIN cols = DOMAIN collections[Name(w)] \cup ids
       /\ \A p \in DOMAIN cols : IF p \in ids THEN cols[p] = CHOOSE e \in batch : Id(e) = p
                                 ELSE cols[p] = collections[Name(w)][p]
  BY <1>12
<1> HIDE DEF ids, New, cols
<1>14. Grows(collections, collections')
  BY <1>10, <1>11, <1>13 DEF Grows, cols
<1>15. WorkerFits(q, collections', reuploaded')
  <2>1. Listing(q, reuploaded') /\ q.cfg \in Cuttings
    BY <1>1, <1>2, <1>7 DEF WorkerFits, Listing
  <2>2. ASSUME ~q.disturbed PROVE AllWritten(q, collections')
    <3>1. AllWritten(r, collections)
      BY <1>1, <1>7, <2>2 DEF WorkerFits
    <3>2. ASSUME NEW i \in 1 .. Len(q.read), i <= q.written
          PROVE  IdOf(q.read[i]) \in DOMAIN collections'[Name(w)]
      <4>1. CASE i <= r.written
        <5>1. IdOf(r.read[i]) \in DOMAIN collections[Name(w)]
          BY <1>7, <1>9, <3>1, <4>1 DEF AllWritten
        <5> QED BY <1>7, <1>13, <5>1 DEF cols
      <4>2. CASE ~(i <= r.written)
        <5>1. i \in r.written + 1 .. end
          BY <1>3, <1>4, <1>7, <3>2, <4>2
        <5> QED BY <1>6, <1>7, <1>13, <5>1 DEF cols
      <4> QED BY <4>1, <4>2
    <3> QED BY <1>2, <1>7, <1>9, <1>10, <3>2 DEF AllWritten
  <2> QED BY <1>3, <1>7, <2>1, <2>2 DEF WorkerFits, BuildSteps
<1>16. WorkersInv'
  <2>1. WorkersInv /\ reuploaded \subseteq reuploaded'
    BY <1>2 DEF IndexInv
  <2> QED BY <1>2, <1>14, <1>15, <2>1, WorkerGoInv
<1>17. Placed(collections', reuploaded')
  <2> SUFFICES ASSUME NEW n \in DOMAIN collections', NEW p \in DOMAIN collections'[n]
               PROVE  /\ HeldText(collections'[n][p], reuploaded) /\ p = IdOf(collections'[n][p])
                      /\ n = collection_name(Corpus, collections'[n][p].chunk.cfg)
    BY <1>2 DEF Placed
  <2>1. CASE n = Name(w) /\ p \in ids
    BY <1>5, <1>8, <1>9, <1>13, <2>1 DEF cols
  <2>2. CASE ~(n = Name(w) /\ p \in ids)
    <3>1. p \in DOMAIN collections[n] /\ collections'[n][p] = collections[n][p]
      BY <1>10, <1>11, <1>13, <2>2 DEF cols
    <3> QED BY <1>10, <3>1 DEF IndexInv, Placed
  <2> QED BY <2>1, <2>2
<1> QED BY <1>2, <1>16, <1>17 DEF IndexInv, TextsInv, ResultInv

LEMMA SearchInv ==
    ASSUME IndexInv, NEW w \in Workers, Search(w)
    PROVE  IndexInv'
<1> DEFINE points == collections[Name(w)]
           n == Min({Cardinality(DOMAIN points), TopK})
<1>1. UNCHANGED <<texts, collections, reuploaded>> /\ Becomes(w, IdleWorker)
  BY DEF Search
<1>2. PICK ids \in [1 .. n -> DOMAIN points] :
          caseResult' = [name |-> Name(w), retrieved |-> ids,
                     found |-> [i \in 1 .. n |-> points[ids[i]]]]
  BY DEF Search
<1>3. \A p \in DOMAIN points : HeldText(points[p], reuploaded) /\ p = IdOf(points[p])
  BY DEF Search, IndexInv, Placed, Exists
<1> HIDE DEF points, n
<1>4. \A i \in DOMAIN caseResult'.retrieved :
          HeldText(caseResult'.found[i], reuploaded) /\ caseResult'.retrieved[i] = IdOf(caseResult'.found[i])
  BY <1>2, <1>3
<1>5. ResultInv(caseResult', reuploaded')
  BY <1>1, <1>4 DEF ResultInv
<1>6. WorkerFits(IdleWorker, collections', reuploaded')
  BY IdleFits
<1>7. WorkersInv /\ Grows(collections, collections') /\ reuploaded \subseteq reuploaded'
  BY <1>1, Same DEF IndexInv
<1>8. WorkersInv'
  BY <1>1, <1>6, <1>7, WorkerGoInv
<1> QED BY <1>1, <1>5, <1>8 DEF IndexInv, TextsInv, Placed

LEMMA DeleteDocumentInv ==
    ASSUME IndexInv, NEW d, WithdrawDocument(d)
    PROVE  IndexInv'
<1>1. texts' = [e \in DOMAIN texts \ {d} |-> texts[e]]
      /\ UNCHANGED <<collections, worker, caseResult, reuploaded>>
  BY DEF WithdrawDocument
<1> QED BY <1>1 DEF IndexInv, TextsInv, Placed, WorkersInv, ResultInv

\* A document that is uploaded with another text than the first one is marked.
LEMMA UploadDocumentInv ==
    ASSUME IndexInv, NEW d \in IndexedDocs, NEW text \in Texts, UploadDocument(d, text)
    PROVE  IndexInv'
<1>1. /\ texts' = [e \in DOMAIN texts \cup {d} |-> IF e = d THEN text ELSE texts[e]]
      /\ reuploaded' = IF text = FirstText THEN reuploaded ELSE reuploaded \cup {d}
      /\ UNCHANGED <<collections, worker, caseResult>>
  BY DEF UploadDocument, FirstText
<1>2. reuploaded \subseteq reuploaded'
  BY <1>1
<1>3. TextsInv'
  BY <1>1 DEF IndexInv, TextsInv
<1>4. WorkersInv'
  BY <1>1, <1>2, Same, FitsGrows DEF IndexInv, WorkersInv
<1>5. Placed(collections', reuploaded') /\ ResultInv(caseResult', reuploaded')
  BY <1>1, <1>2 DEF IndexInv, Placed, ResultInv, HeldText
<1> QED BY <1>3, <1>4, <1>5 DEF IndexInv

LEMMA IndexNextInv == IndexAssumption /\ IndexInv /\ [IndexNext]_indexVars => IndexInv'
<1> SUFFICES ASSUME IndexAssumption, IndexInv, [IndexNext]_indexVars PROVE IndexInv'
  OBVIOUS
<1>1. CASE UNCHANGED indexVars
  BY <1>1 DEF indexVars, IndexInv, TextsInv, Placed, WorkersInv, ResultInv
<1>2. ASSUME NEW w \in Workers,
             \/ \E cfg \in Cuttings : StartJob(w, cfg)
             \/ \E build \in Builds : StartBuild(w, build)
             \/ ensure_collection(w) \/ delete_collection(w) \/ create_collection(w) \/ vector_size(w)
             \/ list_documents(w) \/ upsert_chunks(w) \/ BuildFails(w) \/ BuildDone(w)
             \/ Search(w) \/ SearchFails(w) \/ WorkerCrash(w)
      PROVE  IndexInv'
  BY <1>2, StartJobInv, StartBuildInv, EnsureInv, DeleteCollectionInv, CreateCollectionInv,
     VectorSizeInv, ListDocumentsInv, UpsertInv, BuildFailsInv, BuildDoneInv, SearchInv
<1>3. CASE \E d \in DOMAIN texts : WithdrawDocument(d)
  BY <1>3, DeleteDocumentInv
<1>4. CASE \E d \in IndexedDocs, text \in Texts : UploadDocument(d, text)
  BY <1>4, UploadDocumentInv
<1> QED BY <1>1, <1>2, <1>3, <1>4 DEF IndexNext

LEMMA IndexInvariant == IndexAssumption => (IndexSpec => []IndexInv)
<1> SUFFICES ASSUME IndexAssumption PROVE IndexSpec => []IndexInv
  OBVIOUS
<1>1. IndexInit => IndexInv
  BY IndexInitInv
<1>2. IndexInv /\ [IndexNext]_indexVars => IndexInv'
  BY IndexNextInv
<1> QED BY <1>1, <1>2, PTL DEF IndexSpec

-----------------------------------------------------------------------------
(* Theorems *)

\* A build that is through, and the job that goes on to search it, finds a point
\* of every document and index it has read, whatever other builds, lost races to
\* create and crashes have left there, unless somebody dropped the collection.
\* (retrieval/indexer.py:109-111.)
THEOREM BuildsComplete == IndexAssumption => (IndexSpec => []BuildComplete)
<1> SUFFICES ASSUME IndexAssumption PROVE IndexSpec => []BuildComplete
  OBVIOUS
<1>1. IndexInv => BuildComplete
  <2> SUFFICES ASSUME IndexInv, NEW w \in Workers, Uses(w),
                      worker[w].written = Len(worker[w].read), ~worker[w].disturbed
               PROVE  /\ Exists(Name(w))
                      /\ \A i \in DOMAIN worker[w].read :
                            \E p \in DOMAIN collections[Name(w)] :
                              LET e == collections[Name(w)][p]
                              IN  /\ e.doc = worker[w].read[i].doc
                                  /\ e.chunk.index = worker[w].read[i].chunk.index
    BY DEF BuildComplete
  <2>1. WorkerFits(worker[w], collections, reuploaded) /\ worker[w].read \in Seq(IndexEntry)
    BY DEF IndexInv, WorkersInv, WorkerType
  <2>2. AllWritten(worker[w], collections)
    BY <2>1 DEF WorkerFits, Uses
  <2>3. Exists(Name(w))
    BY <2>2 DEF AllWritten, Exists, Name
  <2>4. ASSUME NEW i \in DOMAIN worker[w].read
        PROVE  \E p \in DOMAIN collections[Name(w)] :
                 LET e == collections[Name(w)][p]
                 IN  /\ e.doc = worker[w].read[i].doc
                     /\ e.chunk.index = worker[w].read[i].chunk.index
    <3>1. i \in 1 .. Len(worker[w].read) /\ i <= worker[w].written
      BY <2>1, <2>4
    <3> DEFINE p == IdOf(worker[w].read[i])
    <3>2. Name(w) \in DOMAIN collections /\ p \in DOMAIN collections[Name(w)]
      BY <2>2, <3>1 DEF AllWritten, Name
    <3>3. p = IdOf(collections[Name(w)][p])
      BY <3>2 DEF IndexInv, Placed
    <3>4. /\ collections[Name(w)][p].doc = worker[w].read[i].doc
          /\ collections[Name(w)][p].chunk.index = worker[w].read[i].chunk.index
      BY <3>3 DEF IdOf, point_id
    <3> QED BY <3>2, <3>4
  <2> QED BY <2>3, <2>4
<1> QED BY <1>1, IndexInvariant, PTL

\* A collection holds the chunks of one cutting, whoever builds it and whatever
\* was dropped meanwhile, and no build has written more than it has read.
\* (retrieval/collections.py:27-29.)
THEOREM CuttingsApart == IndexAssumption => (IndexSpec => []IndexTypeOK)
<1> SUFFICES ASSUME IndexAssumption PROVE IndexSpec => []IndexTypeOK
  OBVIOUS
<1>1. IndexInv => IndexTypeOK
  <2> SUFFICES ASSUME IndexInv PROVE IndexTypeOK
    OBVIOUS
  <2>1. \A d \in DOMAIN texts : d \in IndexedDocs /\ texts[d] \in Texts
    BY DEF IndexInv, TextsInv
  <2>2. \A w \in Workers : worker[w].written \in 0 .. Len(worker[w].read)
    BY DEF IndexInv, WorkersInv, WorkerFits, WorkerType
  <2>3. ASSUME NEW n \in DOMAIN collections,
               NEW p \in DOMAIN collections[n], NEW q \in DOMAIN collections[n]
        PROVE  /\ collections[n][p].doc \in IndexedDocs
               /\ collections[n][p].chunk.cfg = collections[n][q].chunk.cfg
    <3>1. /\ HeldText(collections[n][p], reuploaded)
          /\ n = collection_name(Corpus, collections[n][p].chunk.cfg)
          /\ n = collection_name(Corpus, collections[n][q].chunk.cfg)
      BY DEF IndexInv, Placed
    <3>2. collections[n][p].doc \in IndexedDocs
      BY <3>1 DEF HeldText, IndexEntry
    <3>3. collections[n][p].chunk.cfg = collections[n][q].chunk.cfg
      BY <3>1 DEF collection_name
    <3> QED BY <3>2, <3>3
  <2> QED BY <2>1, <2>2, <2>3 DEF IndexTypeOK
<1> QED BY <1>1, IndexInvariant, PTL

\* A text shown beside an old answer is the one that was retrieved, or is marked
\* missing, unless its document came back with another text.
\* (http/run_context.go:121-169.)
THEOREM ContextsHonest == IndexAssumption => (IndexSpec => []ContextHonest)
<1> SUFFICES ASSUME IndexAssumption PROVE IndexSpec => []ContextHonest
  OBVIOUS
<1>1. IndexInv => ContextHonest
  <2> SUFFICES ASSUME IndexInv, caseResult # Missing, NEW i \in DOMAIN CaseContext, CaseContext[i] # Missing,
                      caseResult.found[i].doc \notin reuploaded
               PROVE  CaseContext[i] = caseResult.found[i]
    BY DEF ContextHonest
  <2> DEFINE points == RetrievePoints(caseResult.name, caseResult.retrieved)
             p == caseResult.retrieved[i]
  <2>1. i \in DOMAIN caseResult.retrieved
    BY DEF CaseContext, chunksOf
  <2>2. p \in DOMAIN points /\ CaseContext[i] = points[p]
    BY <2>1 DEF CaseContext, chunksOf
  <2>3. /\ caseResult.name \in DOMAIN collections /\ p \in DOMAIN collections[caseResult.name]
        /\ points[p] = collections[caseResult.name][p]
    BY <2>2 DEF RetrievePoints, Exists
  <2> DEFINE e == collections[caseResult.name][p]
             f == caseResult.found[i]
  <2>4. HeldText(e, reuploaded) /\ p = IdOf(e)
    BY <2>3 DEF IndexInv, Placed
  <2>5. HeldText(f, reuploaded) /\ p = IdOf(f)
    BY <2>1 DEF IndexInv, ResultInv
  <2> HIDE DEF e, f, p, points
  <2>6. e.doc = f.doc /\ e.chunk.index = f.chunk.index /\ e.chunk.cfg = f.chunk.cfg
    BY <2>4, <2>5 DEF IdOf, point_id
  <2>7. e.chunk.text = f.chunk.text
    BY <2>4, <2>5, <2>6 DEF HeldText, f
  <2>8. e.chunk = f.chunk
    BY <2>4, <2>5, <2>6, <2>7 DEF HeldText, IndexEntry, Chunk
  <2>9. e = f
    BY <2>4, <2>5, <2>6, <2>8 DEF HeldText, IndexEntry
  <2> QED BY <2>2, <2>3, <2>9 DEF e, f
<1> QED BY <1>1, IndexInvariant, PTL

-----------------------------------------------------------------------------
(* The four stores together *)

\* Every behaviour of the four parts is, for each part, one of its behaviours,
\* so that whatever is proved of a part holds of the run that checks them all.
LEMMA PartsOfStores ==
    StoresSpec => Spec /\ CatalogueSpec /\ IndexSpec /\ JobSpec
<1>1. StoresInit => Init /\ CatalogueInit /\ IndexInit /\ JobInit
    BY DEF StoresInit
<1>2. [StoresNext]_storeVars => [Next]_vars
    BY DEF StoresNext, storeVars, vars
<1>3. [StoresNext]_storeVars => [CatalogueNext]_catalogueVars
    BY DEF StoresNext, storeVars, catalogueVars
<1>4. [StoresNext]_storeVars => [IndexNext]_indexVars
    BY DEF StoresNext, storeVars, indexVars
<1>5. [StoresNext]_storeVars => [JobNext]_jobVars
    BY DEF StoresNext, storeVars, jobVars
<1> QED
    BY <1>1, <1>2, <1>3, <1>4, <1>5, PTL
       DEF StoresSpec, Spec, CatalogueSpec, IndexSpec, JobSpec

\* Whichever store is written, by any number of processes, every store keeps its
\* types: foreign keys of the catalogue lead to rows (the transactions of
\* documents.go, cases.go and runs.go), a collection of the index holds chunks of
\* one cutting (collection_name), a cached rubric is a rubric, and a job's items
\* have a status.
THEOREM StoresTyped == StoresSpec => []StoresTypeOK
<1>1. IndexAssumption /\ JobAssumption /\ CatalogueAssumption
    BY StoresAssumption
<1>2. StoresSpec => []TypeOK
    BY PartsOfStores, CacheTyped, PTL
<1>3. StoresSpec => []CatalogueTypeOK
    BY <1>1, PartsOfStores, ReferencesKept, PTL
<1>4. StoresSpec => []IndexTypeOK
    BY <1>1, PartsOfStores, CuttingsApart, PTL
<1>5. StoresSpec => []JobTypeOK
    BY <1>1, PartsOfStores, JobTyped, PTL
<1>6. TypeOK /\ CatalogueTypeOK /\ IndexTypeOK /\ JobTypeOK => StoresTypeOK
    BY DEF StoresTypeOK
<1> QED
    BY <1>2, <1>3, <1>4, <1>5, <1>6, PTL

=============================================================================
