-------------------------- MODULE MCCircuitBreaker --------------------------
(* The breaker on a few callers, for TLC.  The run checks liveness, so the *)
(* callers are not permuted.                                               *)
EXTENDS CircuitBreaker
=============================================================================
