----------------------------- MODULE MCMcpTools -----------------------------
(* The instance of McpTools that TLC checks: three calls of a session, so  *)
(* that two can overlap a third and each can name a job of another.        *)
EXTENDS McpTools
=============================================================================
