----------------------------- MODULE PlanExecution -----------------------------
(***************************************************************************)
(* AgentOrchestrator._execute_plan and _route_to_skill                     *)
(* (core/orchestrator.py): the synchronous execution of a plan.  The plan  *)
(* is sorted into levels; each level is filtered (tasks already failed are *)
(* skipped, tasks with a failed dependency cancelled) and what is left     *)
(* runs concurrently under a semaphore; asyncio.gather waits for the whole *)
(* level before the next one is looked at.                                 *)
(*                                                                         *)
(* Tasks are positions of plan.sub_tasks.  The coroutines of a level       *)
(* interleave between the step that takes a permit and sets RUNNING        *)
(* (Start) and the one that stores the outcome and returns the permit      *)
(* (Finish): validate() and execute() of the skill are awaited in between. *)
(***************************************************************************)
EXTENDS TopologicalSort

CONSTANTS
    MaxParallel       \* permits of the semaphore of a level (10 in the code)

ASSUME MaxParallelAssumption == MaxParallel \in Nat \ {0}

VARIABLES
    status,         \* task.status of every sub-task
    phase,          \* where _execute_plan stands
    levelIdx,       \* number of the level being executed, 0 before the first
    unfiltered,     \* tasks of the level the filter has not looked at
    waiting,        \* executable tasks whose coroutine has no permit yet
    gathered,       \* executable: the tasks handed to asyncio.gather
    failedTaskIds,  \* failed_task_ids
    completedCount, \* completed_count, reported as the progress of the session
    planStatus      \* plan.status

execVars == <<status, phase, levelIdx, unfiltered, waiting, gathered,
              failedTaskIds, completedCount, planStatus>>
planVars == <<vars, execVars>>

Status == {"pending", "running", "completed", "failed", "cancelled"}
Phase == {"sort", "filter", "run", "between", "done"}

Running == {i \in DOMAIN plan : status[i] = "running"}

-----------------------------------------------------------------------------
(* Actions.                                                                *)

Sort ==
    /\ phase = "sort"
    /\ EmitLevel
    /\ UNCHANGED execVars

AtLevelBoundary == phase = "between" \/ (phase = "sort" /\ Sorted)

EnterLevel ==
    /\ AtLevelBoundary
    /\ levelIdx < Len(levels)
    /\ levelIdx' = levelIdx + 1
    /\ unfiltered' = {TaskMap(plan, t) : t \in levels[levelIdx + 1]}
    /\ gathered' = {}
    /\ phase' = "filter"
    /\ UNCHANGED <<vars, status, waiting, failedTaskIds, completedCount, planStatus>>

\* Variant: only failures of this very execution count.
FailedInThisCall(i) == plan[i].id \in failedTaskIds

HasFailed(i) == status[i] = "failed"

\* Variant: a cancelled dependency does not count.
DependencyFailedItself(i) ==
    \E j \in DOMAIN plan : plan[j].id \in plan[i].dependencies /\ status[j] = "failed"

DependencyFailed(i) == plan[i].dependencies \cap failedTaskIds # {}

\* A task that is FAILED already (its skill is unknown, or it failed in an
\* earlier turn) is not run again.
SkipFailed(i) ==
    /\ i \in unfiltered
    /\ HasFailed(i)
    /\ unfiltered' = unfiltered \ {i}
    /\ failedTaskIds' = failedTaskIds \cup {plan[i].id}
    /\ UNCHANGED <<vars, status, phase, levelIdx, waiting, gathered,
                   completedCount, planStatus>>

CancelDependent(i) ==
    /\ i \in unfiltered
    /\ ~HasFailed(i)
    /\ DependencyFailed(i)
    /\ unfiltered' = unfiltered \ {i}
    /\ status' = [status EXCEPT ![i] = "cancelled"]
    /\ failedTaskIds' = failedTaskIds \cup {plan[i].id}
    /\ UNCHANGED <<vars, phase, levelIdx, waiting, gathered, completedCount, planStatus>>

Admit(i) ==
    /\ i \in unfiltered
    /\ ~HasFailed(i)
    /\ ~DependencyFailed(i)
    /\ unfiltered' = unfiltered \ {i}
    /\ gathered' = gathered \cup {i}
    /\ UNCHANGED <<vars, status, phase, levelIdx, waiting, failedTaskIds,
                   completedCount, planStatus>>

Filter == \E i \in DOMAIN plan : SkipFailed(i) \/ CancelDependent(i) \/ Admit(i)

\* asyncio.gather over the executable tasks; a level without any is left.
Dispatch ==
    /\ phase = "filter"
    /\ unfiltered = {}
    /\ phase' = IF gathered = {} THEN "between" ELSE "run"
    /\ waiting' = gathered
    /\ UNCHANGED <<vars, status, levelIdx, unfiltered, gathered, failedTaskIds,
                   completedCount, planStatus>>

\* Variant: a permit that was taken is never returned.
PermitNeverReturned == Cardinality(gathered \ waiting) < MaxParallel

PermitFree == Cardinality(Running) < MaxParallel

Start(i) ==
    /\ phase = "run"
    /\ i \in waiting
    /\ PermitFree
    /\ waiting' = waiting \ {i}
    /\ status' = [status EXCEPT ![i] = "running"]
    /\ UNCHANGED <<vars, phase, levelIdx, unfiltered, gathered, failedTaskIds,
                   completedCount, planStatus>>

\* The skill returned, or get_skill, validate or execute raised.
Finish(i) ==
    /\ phase = "run"
    /\ status[i] = "running"
    /\ \E outcome \in {"completed", "failed"} :
           status' = [status EXCEPT ![i] = outcome]
    /\ UNCHANGED <<vars, phase, levelIdx, unfiltered, waiting, gathered,
                   failedTaskIds, completedCount, planStatus>>

\* Variant: every task that ran counts as completed.
TasksRun == gathered

CompletedInLevel == {i \in gathered : status[i] = "completed"}

\* gather returned: the outcomes of the level are collected and reported.
CompleteLevel ==
    /\ phase = "run"
    /\ waiting = {}
    /\ Running = {}
    /\ phase' = "between"
    /\ failedTaskIds' = failedTaskIds \cup
           {plan[i].id : i \in {j \in gathered : status[j] = "failed"}}
    /\ completedCount' = completedCount + Cardinality(CompletedInLevel)
    /\ UNCHANGED <<vars, status, levelIdx, unfiltered, waiting, gathered, planStatus>>

AllCompleted == \A i \in DOMAIN plan : status[i] = "completed"

\* Variant: the loop over the levels is left on the first failure.
LevelsDoneOrFailure == levelIdx = Len(levels) \/ failedTaskIds # {}

LevelsDone == levelIdx = Len(levels)

\* Variant: the status the stream reports, which no plan has.
StreamOutcome == IF AllCompleted THEN "completed" ELSE "partial_failure"

PlanOutcome == IF AllCompleted THEN "completed" ELSE "failed"

FinishPlan ==
    /\ AtLevelBoundary
    /\ LevelsDone
    /\ phase' = "done"
    /\ planStatus' = PlanOutcome
    /\ UNCHANGED <<vars, status, levelIdx, unfiltered, waiting, gathered,
                   failedTaskIds, completedCount>>

Run == \E i \in DOMAIN plan : Start(i) \/ Finish(i)

-----------------------------------------------------------------------------
(* The specification.                                                      *)

\* _execute_plan starts on a plan whose statuses are already set; the locals
\* of the call are fresh.
ExecuteInit ==
    /\ phase = "sort"
    /\ levelIdx = 0
    /\ unfiltered = {}
    /\ waiting = {}
    /\ gathered = {}
    /\ failedTaskIds = {}
    /\ completedCount = 0
    /\ planStatus = "pending"

\* decompose() marked the tasks without a registered skill; a request with no
\* other task is answered before it gets here.
PlanInit ==
    /\ Init
    /\ status \in [DOMAIN plan -> {"pending", "failed"}]
    /\ \E i \in DOMAIN plan : status[i] = "pending"
    /\ ExecuteInit

ExecuteNext ==
    Sort \/ EnterLevel \/ Filter \/ Dispatch \/ Run \/ CompleteLevel \/ FinishPlan

\* The event loop resumes every coroutine that is ready, and a skill returns or
\* raises: calls to tools and models carry timeouts.
PlanSpec == PlanInit /\ [][ExecuteNext]_planVars /\ WF_planVars(ExecuteNext)

-----------------------------------------------------------------------------
(* Properties.                                                             *)

PlanTypeOK ==
    /\ TypeOK
    /\ status \in [DOMAIN plan -> Status]
    /\ phase \in Phase
    /\ levelIdx \in 0..Len(levels)
    /\ unfiltered \in SUBSET DOMAIN plan
    /\ waiting \in SUBSET DOMAIN plan
    /\ gathered \in SUBSET DOMAIN plan
    /\ failedTaskIds \in SUBSET Id
    /\ completedCount \in Nat
    /\ planStatus \in {"pending", "completed", "failed"}

\* With distinct ids, _execute_plan keeps the promises of DagExecution: a task
\* runs only after all its dependencies completed, is cancelled only because
\* one was lost, and no outcome is revised.
Dag == INSTANCE DagExecution WITH plan <- plan, status <- status
ImplementsDagExecution == Dag!Spec

\* The progress sent to the session after a level is the number of tasks that
\* really completed: no task is counted twice or lost between two levels.
ProgressIsExact ==
    phase \in {"between", "done"} =>
        completedCount = Cardinality({i \in DOMAIN plan : status[i] = "completed"})

\* One failure stops only what depends on it: when the plan is done, a task was
\* left pending only if some task it depends on did not complete, or does not
\* exist.
OnlyBlockedLeftPending ==
    phase = "done" =>
        \A i \in DOMAIN plan :
            status[i] = "pending" => ~Dag!DependenciesCompleted(i)
=============================================================================
