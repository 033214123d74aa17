------------------------------ MODULE MCTasks ------------------------------
(* Instances of Tasks for TLC.                                              *)
EXTENDS Tasks, TLC

Symmetry == Permutations(Tasks) \cup Permutations(Requests)
============================================================================
