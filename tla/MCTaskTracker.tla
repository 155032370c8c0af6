--------------------------- MODULE MCTaskTracker ---------------------------
(* TaskTracker on small sets, for TLC. *)
EXTENDS TaskTracker, TLC

Symmetry == Permutations(Task) \cup Permutations(Client) \cup Permutations(Runner)
=============================================================================
