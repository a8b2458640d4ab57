---------------------------- MODULE MCEvalQueue ----------------------------
(***************************************************************************)
(* Instances of EvalQueue for TLC.                                         *)
(***************************************************************************)
EXTENDS EvalQueueInv, TLC

Symmetry == Permutations(Workers) \cup Permutations(Cases)
=============================================================================
