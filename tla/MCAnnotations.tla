--------------------------- MODULE MCAnnotations ---------------------------
(* Annotations on small instances; reasons are the empty one and another. *)
EXTENDS Annotations

MCReasons == {"", "retrieval"}
=============================================================================
