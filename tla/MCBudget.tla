------------------------------ MODULE MCBudget ------------------------------
(* Budget on small sets, for TLC. *)
EXTENDS Budget, TLC

Symmetry == Permutations(Agent) \cup Permutations(Run) \cup Permutations(Budget)
=============================================================================
