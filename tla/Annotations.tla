---------------------------- MODULE Annotations ----------------------------
(***************************************************************************)
(* The annotations of bad cases: the table annotations and the handlers    *)
(* POST, PATCH and DELETE of server/internal/http/annotations.go, with the *)
(* statements of server/internal/store/annotation.go they issue.           *)
(*                                                                         *)
(* POST and PATCH read the annotation, check the transition and write in a *)
(* second statement without a transaction around the two: each is an       *)
(* action, and other requests come in between.                             *)
(***************************************************************************)
EXTENDS Naturals, FiniteSets, AnnotationStatus, Requests

CONSTANTS
    Editors,        \* requests served at the same time
    RunCases,       \* (run_id, case_id) pairs requests may name
    Reasons,        \* values of reason; comment and assignee are treated alike
    ListLimit,      \* how many annotations the PATCH handler lists (500 in the code)
    MaxAnnotations, \* bound: annotations ever created
    NoAnnotation    \* "no annotation"

AnnotationAssumption ==
    /\ IsFiniteSet(Editors)
    /\ "" \in Reasons \* not classified yet
    /\ ListLimit \in Nat \ {0}
    /\ MaxAnnotations \in Nat
    /\ Absent \notin Statuses \cup Reasons
    /\ NoAnnotation \notin [id : Nat, status : Statuses, reason : Reasons]

VARIABLES
    livePairs,      \* those of which the run and the case exist
    rows,           \* the annotation of each pair (annotations_run_case_key: at most one)
    nextAnnotation, \* the identity sequence
    handler,        \* what each request does next
    carried,        \* what it carries, and the annotation it has read
    answer          \* how it was answered ("none": not yet)

annotationVars == <<livePairs, rows, nextAnnotation, handler, carried, answer>>

Row == [id : 1..MaxAnnotations, status : Statuses, reason : Reasons]

AnnotationRequest ==
    [op : {"post", "patch", "delete"}, key : RunCases \cup {NoAnnotation},
     id : 0..MaxAnnotations, sent : Statuses \cup {Absent},
     status : Statuses \cup {Absent}, reason : Reasons \cup {Absent},
     existing : Row \cup {NoAnnotation}]

AnnotationsTypeOK ==
    /\ livePairs \subseteq RunCases
    /\ rows \in [RunCases -> Row \cup {NoAnnotation}]
    /\ nextAnnotation \in 1..MaxAnnotations + 1
    /\ handler \in [Editors -> {"ready", "update", "create"}]
    /\ carried \in [Editors -> AnnotationRequest \cup {NoAnnotation}]
    /\ answer \in [Editors -> {"none", "ok", "conflict", "not_found", "error"}]

AnnotationsInit ==
    /\ livePairs \in SUBSET RunCases
    /\ rows = [k \in RunCases |-> NoAnnotation]
    /\ nextAnnotation = 1
    /\ handler = [c \in Editors |-> "ready"]
    /\ carried = [c \in Editors |-> NoAnnotation]
    /\ answer = [c \in Editors |-> "none"]

-----------------------------------------------------------------------------

\* What a request carries once it has been bound and validated.
Carried(op, k, i, sent, status, reason, existing) ==
    [op |-> op, key |-> k, id |-> i, sent |-> sent, status |-> status,
     reason |-> reason, existing |-> existing]

Stored == {k \in RunCases : rows[k] # NoAnnotation}

\* ListAnnotations: the first ListLimit annotations of all runs, by id.
Listed ==
    {k \in Stored : Cardinality({j \in Stored : rows[j].id < rows[k].id}) < ListLimit}

\* Request r of c is answered and the server takes the client's next one. What
\* a refused request asked for is kept until then.
Answered(c, a, r) ==
    /\ handler' = [handler EXCEPT ![c] = "ready"]
    /\ answer' = [answer EXCEPT ![c] = a]
    /\ carried' = [carried EXCEPT
         ![c] = IF a \in {"conflict", "not_found"} THEN [r EXCEPT !.existing = NoAnnotation]
                                                  ELSE NoAnnotation]

\* Request r of c has passed its checks and writes in a statement of its own.
Proceeds(c, next, r) ==
    /\ handler' = [handler EXCEPT ![c] = next]
    /\ answer' = [answer EXCEPT ![c] = "none"]
    /\ carried' = [carried EXCEPT ![c] = r]

-----------------------------------------------------------------------------

\* The status a POST writes: a status it does not carry is taken to be open.
PostStatus(sent) == coalesce(sent, "open")

\* POST /annotations up to the write: GetAnnotationByRunCase and the check.
PostAnnotation(c, k, sent, reason) ==
    /\ handler[c] = "ready"
    /\ LET status == PostStatus(sent)
           r == Carried("post", k, 0, sent, status, reason, rows[k])
       IN \/ /\ rows[k] # NoAnnotation
             /\ ~canTransition(rows[k].status, status)
             /\ Answered(c, "conflict", r)
          \/ /\ rows[k] # NoAnnotation
             /\ canTransition(rows[k].status, status)
             /\ Proceeds(c, "update", r)
          \/ /\ rows[k] = NoAnnotation
             /\ nextAnnotation + Cardinality({d \in Editors : handler[d] = "create"}) <= MaxAnnotations
             /\ Proceeds(c, "create", r)
    /\ UNCHANGED <<livePairs, rows, nextAnnotation>>

\* PATCH /annotations/:id up to the write: it looks for the annotation in a
\* list of the first ListLimit ones, and checks the transition if it carries one.
PatchAnnotation(c, i, sent, reason) ==
    /\ handler[c] = "ready"
    /\ \/ /\ \A k \in Listed : rows[k].id # i
          /\ Answered(c, "not_found", Carried("patch", NoAnnotation, i, sent, sent, reason, NoAnnotation))
       \/ \E k \in Listed :
            /\ rows[k].id = i
            /\ LET r == Carried("patch", k, i, sent, sent, reason, rows[k]) IN
               IF sent = Absent \/ canTransition(rows[k].status, sent)
               THEN Proceeds(c, "update", r)
               ELSE Answered(c, "conflict", r)
    /\ UNCHANGED <<livePairs, rows, nextAnnotation>>

\* Mutant: the whole row is written as it was read.
MergedInto_AsRead(row, r) ==
    [r.existing EXCEPT !.status = coalesce(r.status, @), !.reason = coalesce(r.reason, @)]

\* What UpdateAnnotation leaves in a row: the fields that are carried replace
\* the row's, whatever the row holds by now.
MergedInto(row, r) ==
    [row EXCEPT !.status = coalesce(r.status, @), !.reason = coalesce(r.reason, @)]

\* UPDATE annotations ... WHERE id = $1, and the answer to either handler.
UpdateAnnotation(c) ==
    /\ handler[c] = "update"
    /\ \/ \E k \in Stored :
            /\ rows[k].id = carried[c].existing.id
            /\ rows' = [rows EXCEPT ![k] = MergedInto(rows[k], carried[c])]
            /\ Answered(c, "ok", carried[c])
       \/ /\ \A k \in Stored : rows[k].id # carried[c].existing.id
          /\ Answered(c, IF carried[c].op = "post" THEN "error" ELSE "not_found", carried[c])
          /\ UNCHANGED rows
    /\ UNCHANGED <<livePairs, nextAnnotation>>

\* INSERT INTO annotations: the unique key lets one of several inserts win, and
\* the foreign keys refuse a run or a case that does not exist, or no longer.
CreateAnnotation(c) ==
    /\ handler[c] = "create"
    /\ LET k == carried[c].key IN
       \/ /\ rows[k] = NoAnnotation /\ k \in livePairs
          /\ rows' = [rows EXCEPT ![k] =
               [id |-> nextAnnotation, status |-> carried[c].status,
                reason |-> coalesce(carried[c].reason, "")]]
          /\ nextAnnotation' = nextAnnotation + 1
          /\ Answered(c, "ok", carried[c])
       \/ /\ rows[k] # NoAnnotation
          /\ Answered(c, "conflict", carried[c])
          /\ UNCHANGED <<rows, nextAnnotation>>
       \/ /\ rows[k] = NoAnnotation /\ k \notin livePairs
          /\ Answered(c, "not_found", carried[c])
          /\ UNCHANGED <<rows, nextAnnotation>>
    /\ UNCHANGED livePairs

\* DELETE /annotations/:id, one statement.
DeleteAnnotation(c, i) ==
    /\ handler[c] = "ready"
    /\ rows' = [k \in RunCases |->
         IF rows[k] # NoAnnotation /\ rows[k].id = i THEN NoAnnotation ELSE rows[k]]
    /\ Answered(c, IF \E k \in Stored : rows[k].id = i THEN "ok" ELSE "not_found",
                Carried("delete", NoAnnotation, i, Absent, Absent, Absent, NoAnnotation))
    /\ UNCHANGED <<livePairs, nextAnnotation>>

\* The case or its dataset is deleted, and with it the annotation (ON DELETE
\* CASCADE); requests under way do not notice.
DeleteRunCase(k) ==
    /\ livePairs' = livePairs \ {k}
    /\ rows' = [rows EXCEPT ![k] = NoAnnotation]
    /\ UNCHANGED <<nextAnnotation, handler, carried, answer>>

-----------------------------------------------------------------------------

\* Ids a client can know: those handed out so far.
AnnotationsNext ==
    \/ \E c \in Editors :
          \/ \E sent \in Statuses \cup {Absent}, reason \in Reasons \cup {Absent} :
                \/ \E k \in RunCases : PostAnnotation(c, k, sent, reason)
                \/ \E i \in 1..nextAnnotation - 1 : PatchAnnotation(c, i, sent, reason)
          \/ UpdateAnnotation(c)
          \/ CreateAnnotation(c)
          \/ \E i \in 1..nextAnnotation - 1 : DeleteAnnotation(c, i)
    \/ \E k \in livePairs : DeleteRunCase(k)

AnnotationsSpec == AnnotationsInit /\ [][AnnotationsNext]_annotationVars

-----------------------------------------------------------------------------
(* Properties *)

\* The step leaves the annotation of k in place, however it changes it.
SameRow(k) ==
    rows[k] # NoAnnotation /\ rows'[k] # NoAnnotation /\ rows'[k].id = rows[k].id

\* The step is the UPDATE of request c.
Writes(c) == handler[c] = "update" /\ handler'[c] = "ready" /\ answer'[c] = "ok"

LegalMoves == {<<"open", "fixed">>, <<"open", "wontfix">>, <<"fixed", "verified">>,
               <<"fixed", "open">>, <<"verified", "open">>, <<"wontfix", "open">>}

\* The status of a stored annotation moves along the state machine (fixed before
\* verified, no quiet step back to fixed), unless another request changed the
\* annotation between this one's check and its write. (http/annotations.go:46-50.)
LegalUnlessOvertaken ==
    [][\A k \in RunCases, c \in Editors :
         /\ SameRow(k) /\ Writes(c) /\ rows'[k].status # rows[k].status
         /\ carried[c].existing = rows[k]
         => <<rows[k].status, rows'[k].status>> \in LegalMoves]_annotationVars

\* A stored annotation changes only by the UPDATE of a request that has read this
\* very annotation, and a field only to what the request carries: requests that
\* interleave do not undo each other's other fields, a PATCH without a status
\* leaves the status alone, and of several first submissions the later ones, which
\* found nothing, write nothing over the first; nor does a request write into the
\* annotation that came after the one it read. (store/annotation.go:97-130.)
NothingUnasked ==
    [][\A k \in RunCases :
         rows[k] # NoAnnotation /\ rows'[k] # NoAnnotation /\ rows'[k] # rows[k] =>
            /\ rows'[k].id = rows[k].id
            /\ \E c \in Editors :
                 /\ Writes(c)
                 /\ carried[c].existing # NoAnnotation /\ carried[c].existing.id = rows[k].id
                 /\ rows'[k].reason \in {rows[k].reason, carried[c].reason}
                 /\ rows'[k].status \in {rows[k].status, carried[c].status}]_annotationVars

\* A request that carries no status changes none. (http/annotations.go:142-145.)
AbsentStatusKept ==
    [][\A k \in RunCases, c \in Editors :
         SameRow(k) /\ Writes(c) /\ carried[c].sent = Absent =>
            rows'[k].status = rows[k].status]_annotationVars

=============================================================================
