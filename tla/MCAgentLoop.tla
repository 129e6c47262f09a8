----------------------------- MODULE MCAgentLoop -----------------------------
(***************************************************************************)
(* Small requests for AgentLoop: the plans of the demo provider, whose ids  *)
(* are the same in every answer, or two tasks with a cycle or without; and *)
(* appended tasks that reuse an id of the plan or bring a new one.         *)
(***************************************************************************)
EXTENDS AgentLoop, DemoProvider

CONSTANTS a, b, c

MCId == {a, b, c}

MCPlans ==
    DemoPlans(<<a, b, c>>)
    \cup {<<[id |-> a, dependencies |-> x], [id |-> b, dependencies |-> y]>> :
              x \in SUBSET {b}, y \in SUBSET {a}}

MCSupplements ==
    {<<[id |-> c, dependencies |-> x]>> : x \in SUBSET {a, b}}
    \cup {<<[id |-> b, dependencies |-> x]>> : x \in SUBSET {a, c}}
=============================================================================
