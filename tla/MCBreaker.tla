------------------------------ MODULE MCBreaker ------------------------------
(* Small instances of Breaker for TLC. *)
EXTENDS Breaker, TLC

Symmetry == Permutations(Calls) \cup Permutations(Instances)
==============================================================================
