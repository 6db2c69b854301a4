---------------------------- MODULE MC_Lifecycle ----------------------------
(* Model values for module Lifecycle: the processes are interchangeable.   *)
EXTENDS Lifecycle, TLC

Symmetry == Permutations(Processes)
=============================================================================
