----------------------------- MODULE DagExecution -----------------------------
(***************************************************************************)
(* What one execution of a task plan promises, whatever the code path:     *)
(*   - a sub-task runs only when every task it depends on has completed;   *)
(*   - it is cancelled, without running, only when one of them failed or   *)
(*     was itself cancelled;                                               *)
(*   - it runs at most once, and what it ended with is never revised.      *)
(* The synchronous path (PlanExecution) and the streaming path             *)
(* (StreamExecution) of the orchestrator both implement it.                *)
(***************************************************************************)
EXTENDS Naturals, Sequences

CONSTANT Plans     \* sequences of [id, dependencies] records

VARIABLES
    plan,    \* plan.sub_tasks
    status   \* the status of each sub-task

vars == <<plan, status>>

DependsOn(i, j) == plan[j].id \in plan[i].dependencies

DependenciesCompleted(i) ==
    \A d \in plan[i].dependencies :
        \E j \in DOMAIN plan : plan[j].id = d /\ status[j] = "completed"

DependencyLost(i) ==
    \E j \in DOMAIN plan : DependsOn(i, j) /\ status[j] \in {"failed", "cancelled"}

Start(i) ==
    /\ status[i] = "pending"
    /\ DependenciesCompleted(i)
    /\ status' = [status EXCEPT ![i] = "running"]

Finish(i) ==
    /\ status[i] = "running"
    /\ \E outcome \in {"completed", "failed"} :
           status' = [status EXCEPT ![i] = outcome]

Cancel(i) ==
    /\ status[i] = "pending"
    /\ DependencyLost(i)
    /\ status' = [status EXCEPT ![i] = "cancelled"]

\* A task whose skill is not registered is marked failed before anything runs.
Init ==
    /\ plan \in Plans
    /\ status \in [DOMAIN plan -> {"pending", "failed"}]

Next ==
    /\ \E i \in DOMAIN plan : Start(i) \/ Finish(i) \/ Cancel(i)
    /\ UNCHANGED plan

Spec == Init /\ [][Next]_vars
=============================================================================
