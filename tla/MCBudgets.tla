----------------------------- MODULE MCBudgets -------------------------------
(* Small instances of Budgets for TLC: a budget on the whole owner, and one   *)
(* on an agent, which governs that agent's jobs and requests as well.         *)
EXTENDS Budgets, TLC

CONSTANTS global, agent, OfAgent, j2

MCAmount == [k \in Keys |-> IF k = global THEN 3 ELSE 2]
MCCeiling == [j \in Jobs |-> IF j = j2 THEN 2 ELSE 1]
MCKeysOf == [x \in Jobs \cup Requests |->
               IF x \in OfAgent THEN <<global, agent>> ELSE <<global>>]
MCOrder == IF agent \in Keys THEN <<agent, global>> ELSE <<global>>

Symmetry == Permutations(Occurrences)
==============================================================================
