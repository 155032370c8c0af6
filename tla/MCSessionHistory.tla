-------------------------- MODULE MCSessionHistory --------------------------
(* Small graphs; nodes are numbers in the order of creation, so nothing is   *)
(* symmetric.                                                                *)
EXTENDS SessionHistory
=============================================================================
