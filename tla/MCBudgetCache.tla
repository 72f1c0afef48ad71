--------------------------- MODULE MCBudgetCache -----------------------------
(* Small instances of BudgetCache for TLC. *)
EXTENDS BudgetCache, TLC

Symmetry == Permutations(Getters) \cup Permutations(Writers)
==============================================================================
