------------------------------ MODULE MCRequests ------------------------------
(***************************************************************************)
(* Two requests, streamed or not, that share a session and two LLM calls,  *)
(* with every configuration of providers, agents created in a race, a      *)
(* crash, and an operation on a session store, that come in anywhere.      *)
(***************************************************************************)
EXTENDS Requests, TLC

CONSTANTS r1, r2, s1

MCRequest == {r1, r2}
MCSession == {s1}
MCAgent == {1, 2}
Symmetric == Permutations(MCRequest)
=============================================================================
