-------------------------- MODULE AnnotationStatus --------------------------
(***************************************************************************)
(* The state machine of an annotation's status, shared by the handlers     *)
(* that change it (Annotations) and by the report that proposes changes    *)
(* (Closure). server/internal/http/annotations.go.                         *)
(***************************************************************************)

Statuses == {"open", "fixed", "verified", "wontfix"}

\* Mutant: any status may be set at any time but on a verified annotation.
canTransition_Lenient(from, to) == from # "verified" \/ to = "open"

\* The state machine of an annotation.
canTransition(from, to) ==
    \/ from = to
    \/ from = "open" /\ to \in {"fixed", "wontfix"}
    \/ from = "fixed" /\ to \in {"verified", "open"}
    \/ from \in {"verified", "wontfix"} /\ to = "open"

=============================================================================
