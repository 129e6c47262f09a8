-------------------------- MODULE MCStreamExecution --------------------------
(***************************************************************************)
(* Small plans for StreamExecution: four tasks, of which c and d are not   *)
(* concurrency-safe, and a fifth id that no task has.                      *)
(***************************************************************************)
EXTENDS StreamExecution

CONSTANTS a, b, c, d, ghost

MCId == {a, b, c, d, ghost}

MCPlans ==
    {<<[id |-> a, dependencies |-> {}], [id |-> b, dependencies |-> x],
       [id |-> c, dependencies |-> y], [id |-> d, dependencies |-> z]>> :
           x \in SUBSET {a, d}, y \in SUBSET {a, b}, z \in SUBSET {c, ghost}}
=============================================================================
