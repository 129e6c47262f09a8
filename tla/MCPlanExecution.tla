--------------------------- MODULE MCPlanExecution ---------------------------
(***************************************************************************)
(* Small plans for PlanExecution: three tasks, every graph between them,   *)
(* cycles included, and a fourth id that no task has.  Two permits, so     *)
(* that three tasks of one level queue for them.                           *)
(***************************************************************************)
EXTENDS PlanExecution

CONSTANTS a, b, c, ghost

MCId == {a, b, c, ghost}

MCPlans ==
    {<<[id |-> a, dependencies |-> x], [id |-> b, dependencies |-> y],
       [id |-> c, dependencies |-> z]>> :
           x \in SUBSET {b, c}, y \in SUBSET {a, c, ghost}, z \in SUBSET {a, b}}

\* The task whose skill declares concurrency_safe = False.
Unsafe == {c}

\* "`concurrency_safe = False`: Skill executes sequentially": such a task does
\* not run together with another one, as the streaming path has it.  The level
\* gathered by _execute_plan does not look at the attribute.
UnsafeRunsAlone ==
    \A i \in Running : plan[i].id \in Unsafe => Running = {i}
=============================================================================
