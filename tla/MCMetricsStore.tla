---------------------------- MODULE MCMetricsStore ----------------------------
(***************************************************************************)
(* Three records in a store of two, over a day of two hours of two minutes *)
(* of two steps, and the first step of the next: ranges that begin and end *)
(* inside a minute, an hour, a day, or before the first record; records of *)
(* the same moment, and records older than a query without parameters goes *)
(* back.                                                                   *)
(***************************************************************************)
EXTENDS MetricsStore

CONSTANTS p1, p2, s1, s2

MCProvider == {p1, p2}
MCSkill == {s1, s2}

\* A provider that failed and its fallback, with a skill that failed and one that
\* did not, or a skill and nothing else.
MCRecordable ==
    {[completed |-> TRUE, duration |-> 1,
      llm_calls |-> <<[callee |-> p1, success |-> FALSE], [callee |-> p2, success |-> TRUE]>>,
      skill_calls |-> <<[callee |-> s1, success |-> FALSE], [callee |-> s2, success |-> TRUE]>>],
     [completed |-> FALSE, duration |-> 3,
      llm_calls |-> <<>>, skill_calls |-> <<[callee |-> s1, success |-> TRUE]>>]}
=============================================================================
