---------------------------- MODULE MCMcpRegistry ----------------------------
(***************************************************************************)
(* Two servers that may have a tool of the same name, two callers, three   *)
(* clients, processes that may exit: a server is registered again while    *)
(* its first client is being closed.                                       *)
(***************************************************************************)
EXTENDS McpRegistry, TLC

CONSTANTS s1, s2, t1, t2, c1, c2

MCServer == {s1, s2}
MCTool == {t1, t2}
MCCaller == {c1, c2}
Symmetric == Permutations(MCServer) \cup Permutations(MCTool) \cup Permutations(MCCaller)
=============================================================================
