--------------------------- MODULE MCAgentStream ---------------------------
(* AgentStream on small sets, for TLC. *)
EXTENDS AgentStream
=============================================================================
