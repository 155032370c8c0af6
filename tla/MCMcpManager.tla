--------------------------- MODULE MCMcpManager ---------------------------
(* McpManager on small sets, for TLC. *)
EXTENDS McpManager
=============================================================================
