-------------------------- MODULE MC_TaskExecution --------------------------
(* Symmetry for the small instances of module TaskExecution.               *)
EXTENDS TaskExecution, TLC

Symmetry == Permutations(Runtimes) \cup Permutations(Tasks) \cup Permutations(Assignees)
=============================================================================
