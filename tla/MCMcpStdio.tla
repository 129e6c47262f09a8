------------------------------ MODULE MCMcpStdio ------------------------------
(* Two tasks, four requests: a timeout, an answer above the limit of the   *)
(* reader, and the calls after them.                                       *)
EXTENDS McpStdio, TLC

CONSTANTS c1, c2

MCCaller == {c1, c2}
=============================================================================
