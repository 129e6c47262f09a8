---------------------------- MODULE MCStsIdentity ----------------------------
(***************************************************************************)
(* A caller and the background task renew at once, so that either may have *)
(* its answer first; a credential lives three ticks, is renewed one before *)
(* its end, an answer takes up to one tick, and tokens last three.         *)
(***************************************************************************)
EXTENDS StsIdentity

CONSTANTS c1, r1, r2

MCCaller == {c1}
MCTask == {r1, r2}
=============================================================================
