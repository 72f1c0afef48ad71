----------------------------- MODULE MCBatchJob ------------------------------
(* Small instances of BatchJob for TLC. *)
EXTENDS BatchJob, TLC

Symmetry == Permutations(Pollers) \cup Permutations(Items)
==============================================================================
