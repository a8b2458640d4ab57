---------------------------- MODULE MCUserAdmin ----------------------------
(* UserAdmin on small instances; requests are interchangeable. *)
EXTENDS UserAdmin, TLC

RequestSymmetry == Permutations(Clients)
=============================================================================
