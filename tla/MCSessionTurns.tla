--------------------------- MODULE MCSessionTurns ---------------------------
(* SessionTurns on small sets, for TLC.  The run checks liveness, so the   *)
(* callers are not permuted.                                               *)
EXTENDS SessionTurns
=============================================================================
