------------------------------ MODULE MCTasks -------------------------------
(* Instances of Tasks for TLC. *)
EXTENDS Tasks, TLC

SomeActors == {"cara", "carl"}
TheirRoles == [a \in SomeActors |-> "caseworker"]
\* With no request there is no review to move.
Spec == TaskInit /\ [][CallsNext \/ TaskTerminated]_allTaskVars /\ TaskFairness

Symmetry == Permutations(TaskCalls) \cup Permutations(Tasks)
=============================================================================
