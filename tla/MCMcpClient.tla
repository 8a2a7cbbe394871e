----------------------------- MODULE MCMcpClient -----------------------------
(***************************************************************************)
(* McpClient on small instances for TLC: the handshake with its retries,   *)
(* tools/list and one call.                                                *)
(***************************************************************************)
EXTENDS McpClient
=============================================================================
