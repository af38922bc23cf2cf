---------------------------- MODULE MCMcpServer ----------------------------
(* A small instance of McpServer: two sessions, so that one starts while a  *)
(* timer of the other is pending.                                           *)
EXTENDS McpServer

CONSTANTS s1, s2

MCSession == {s1, s2}
=============================================================================
