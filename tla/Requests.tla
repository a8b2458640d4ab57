------------------------------ MODULE Requests ------------------------------
(* What the requests of every handler share: a field they need not carry. *)

CONSTANT Absent \* JSON null, or a field a request does not have

\* COALESCE($n, field)
coalesce(new, old) == IF new = Absent THEN old ELSE new
=============================================================================
