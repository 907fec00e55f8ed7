----------------------------- MODULE MCFineTune -----------------------------
(* Instances of FineTune for TLC. *)
EXTENDS FineTune, TLC

Symmetry == Permutations(Job) \cup Permutations(Handler)
=============================================================================
