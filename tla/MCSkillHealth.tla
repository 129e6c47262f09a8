----------------------------- MODULE MCSkillHealth -----------------------------
(***************************************************************************)
(* Two versions of a skill, two callers of its registry, three             *)
(* registrations: a version is removed, registered again and removed by    *)
(* the other caller while the first waits for its hook.  Two failures in a *)
(* window of two time units make a burst.                                  *)
(***************************************************************************)
EXTENDS SkillHealth, TLC

CONSTANTS v1, v2, c1, c2

MCVersion == {v1, v2}
MCCaller == {c1, c2}
Symmetric == Permutations(MCVersion) \cup Permutations(MCCaller)
=============================================================================
