-------------------------- MODULE CoordinatorMC --------------------------
(* Coordinator on small sets of tasks and connections. *)
EXTENDS Coordinator, TLC

Symmetry == Permutations(Tasks)
=============================================================================
