---------------------------- MODULE StreamExecution ----------------------------
(***************************************************************************)
(* The execution part of AgentOrchestrator.process_request_stream          *)
(* (core/orchestrator.py): an async generator that executes a plan level   *)
(* by level and yields an event at every start and end of a task.  The     *)
(* generator is suspended at each yield until the web handler has written  *)
(* the event and asks for the next one (Deliver), or is closed there when  *)
(* the client is gone (Abandon).                                           *)
(*                                                                         *)
(* In a level the concurrency-safe tasks run together, all announced       *)
(* before and reported after their gather; the others run one by one.      *)
(***************************************************************************)
EXTENDS TopologicalSort

CONSTANT ConcurrencySafe   \* ids whose skill declares concurrency_safe = True

ASSUME ConcurrencySafeAssumption == ConcurrencySafe \subseteq Id

VARIABLES
    status,         \* task.status of every sub-task
    phase,          \* where the generator stands
    levelIdx,       \* number of the level being executed, 0 before the first
    unfiltered,     \* tasks of the level the filter has not looked at
    parallel,       \* parallel_tasks of the level
    sequential,     \* sequential_tasks not started yet
    unreported,     \* parallel tasks whose task_done has not been yielded
    failedTaskIds,  \* failed_task_ids
    completedCount, \* completed_count
    outbox,         \* the event the generator is suspended on, or NoEvent
    client,         \* the last thing the client was told about each sub-task
    verdict         \* how the stream ended

streamVars == <<status, phase, levelIdx, unfiltered, parallel, sequential,
                unreported, failedTaskIds, completedCount, outbox, client, verdict>>
allVars == <<vars, streamVars>>

Status == {"pending", "running", "completed", "failed", "cancelled"}
Phase == {"sort", "filter", "announce", "gather", "report", "sequential",
          "between", "closed"}

NoEvent == [type |-> "none"]
TaskStart(i) == [type |-> "task_start", task |-> i]

\* Variant: a task whose coroutine returned is reported as completed.
TaskDoneIfReturned(i, s) ==
    [type |-> "task_done", task |-> i,
     status |-> IF s = "failed" THEN "completed" ELSE s]

TaskDone(i, s) == [type |-> "task_done", task |-> i, status |-> s]
DoneEvent(v) == [type |-> "done", status |-> v]

Running == {i \in DOMAIN plan : status[i] = "running"}
Resumed == outbox = NoEvent

-----------------------------------------------------------------------------
(* Levels and their filter.                                                *)

Sort ==
    /\ phase = "sort"
    /\ EmitLevel
    /\ UNCHANGED streamVars

AtLevelBoundary == phase = "between" \/ (phase = "sort" /\ Sorted)

EnterLevel ==
    /\ AtLevelBoundary
    /\ levelIdx < Len(levels)
    /\ levelIdx' = levelIdx + 1
    /\ unfiltered' = {TaskMap(plan, t) : t \in levels[levelIdx + 1]}
    /\ parallel' = {}
    /\ phase' = "filter"
    /\ UNCHANGED <<vars, status, sequential, unreported, failedTaskIds,
                   completedCount, outbox, client, verdict>>

\* Variant: a cancelled dependency does not count.
DependencyFailedItself(i) ==
    \E j \in DOMAIN plan : plan[j].id \in plan[i].dependencies /\ status[j] = "failed"

DependencyFailed(i) == plan[i].dependencies \cap failedTaskIds # {}

\* Variant: the attribute of the skill is not looked at.
AnySkill(i) == plan[i].id \in Id

RunsInParallel(i) == plan[i].id \in ConcurrencySafe

SkipFailed(i) ==
    /\ Resumed
    /\ i \in unfiltered
    /\ status[i] = "failed"
    /\ unfiltered' = unfiltered \ {i}
    /\ failedTaskIds' = failedTaskIds \cup {plan[i].id}
    /\ UNCHANGED <<vars, status, phase, levelIdx, parallel, sequential, unreported,
                   completedCount, outbox, client, verdict>>

CancelDependent(i) ==
    /\ Resumed
    /\ i \in unfiltered
    /\ status[i] # "failed"
    /\ DependencyFailed(i)
    /\ unfiltered' = unfiltered \ {i}
    /\ status' = [status EXCEPT ![i] = "cancelled"]
    /\ failedTaskIds' = failedTaskIds \cup {plan[i].id}
    /\ outbox' = TaskDone(i, "cancelled")
    /\ UNCHANGED <<vars, phase, levelIdx, parallel, sequential, unreported,
                   completedCount, client, verdict>>

\* The task is executable; its skill decides how it will run.  A skill that is
\* no longer registered counts as unsafe.
Admit(i) ==
    /\ Resumed
    /\ i \in unfiltered
    /\ status[i] # "failed"
    /\ ~DependencyFailed(i)
    /\ unfiltered' = unfiltered \ {i}
    /\ IF RunsInParallel(i)
       THEN parallel' = parallel \cup {i} /\ UNCHANGED sequential
       ELSE sequential' = sequential \cup {i} /\ UNCHANGED parallel
    /\ UNCHANGED <<vars, status, phase, levelIdx, unreported, failedTaskIds,
                   completedCount, outbox, client, verdict>>

Filter == \E i \in DOMAIN plan : SkipFailed(i) \/ CancelDependent(i) \/ Admit(i)

Dispatch ==
    /\ phase = "filter"
    /\ Resumed
    /\ unfiltered = {}
    /\ phase' = IF parallel # {} THEN "announce" ELSE "sequential"
    /\ UNCHANGED <<vars, status, levelIdx, unfiltered, parallel, sequential,
                   unreported, failedTaskIds, completedCount, outbox, client, verdict>>

-----------------------------------------------------------------------------
(* The concurrency-safe tasks of the level.                                *)

Announce(i) ==
    /\ phase = "announce"
    /\ Resumed
    /\ i \in parallel
    /\ status[i] = "pending"
    /\ outbox' = TaskStart(i)
    /\ UNCHANGED <<vars, status, phase, levelIdx, unfiltered, parallel, sequential,
                   unreported, failedTaskIds, completedCount, client, verdict>>

Gather ==
    /\ phase = "announce"
    /\ Resumed
    /\ parallel \subseteq Running
    /\ phase' = "gather"
    /\ UNCHANGED <<vars, status, levelIdx, unfiltered, parallel, sequential,
                   unreported, failedTaskIds, completedCount, outbox, client, verdict>>

\* One coroutine of the gather ends; a failure is recorded where it happens.
FinishParallel(i) ==
    /\ phase = "gather"
    /\ status[i] = "running"
    /\ \/ /\ status' = [status EXCEPT ![i] = "completed"]
          /\ UNCHANGED failedTaskIds
       \/ /\ status' = [status EXCEPT ![i] = "failed"]
          /\ failedTaskIds' = failedTaskIds \cup {plan[i].id}
    /\ UNCHANGED <<vars, phase, levelIdx, unfiltered, parallel, sequential,
                   unreported, completedCount, outbox, client, verdict>>

\* Variant: the gather waits for successes.
GatherSucceeded == \A i \in parallel : status[i] = "completed"

GatherDone == Running = {}

\* Variant: only successes are reported.
SuccessesToReport == {i \in parallel : status[i] = "completed"}

ToReport == parallel

GatherReturns ==
    /\ phase = "gather"
    /\ GatherDone
    /\ phase' = "report"
    /\ unreported' = ToReport
    /\ UNCHANGED <<vars, status, levelIdx, unfiltered, parallel, sequential,
                   failedTaskIds, completedCount, outbox, client, verdict>>

Counted(i) == IF status[i] = "completed" THEN 1 ELSE 0

Report(i) ==
    /\ phase = "report"
    /\ Resumed
    /\ i \in unreported
    /\ unreported' = unreported \ {i}
    /\ completedCount' = completedCount + Counted(i)
    /\ outbox' = TaskDone(i, status[i])
    /\ UNCHANGED <<vars, status, phase, levelIdx, unfiltered, parallel, sequential,
                   failedTaskIds, client, verdict>>

AllReported ==
    /\ phase = "report"
    /\ Resumed
    /\ unreported = {}
    /\ phase' = "sequential"
    /\ UNCHANGED <<vars, status, levelIdx, unfiltered, parallel, sequential,
                   unreported, failedTaskIds, completedCount, outbox, client, verdict>>

-----------------------------------------------------------------------------
(* The other tasks of the level, one after the other.                      *)

AnnounceNext(i) ==
    /\ phase = "sequential"
    /\ Resumed
    /\ Running = {}
    /\ i \in sequential
    /\ sequential' = sequential \ {i}
    /\ outbox' = TaskStart(i)
    /\ UNCHANGED <<vars, status, phase, levelIdx, unfiltered, parallel, unreported,
                   failedTaskIds, completedCount, client, verdict>>

FinishSequential(i) ==
    /\ phase = "sequential"
    /\ status[i] = "running"
    /\ \/ /\ status' = [status EXCEPT ![i] = "completed"]
          /\ completedCount' = completedCount + 1
          /\ UNCHANGED failedTaskIds
       \/ /\ status' = [status EXCEPT ![i] = "failed"]
          /\ failedTaskIds' = failedTaskIds \cup {plan[i].id}
          /\ UNCHANGED completedCount
    /\ outbox' = TaskDone(i, status'[i])
    /\ UNCHANGED <<vars, phase, levelIdx, unfiltered, parallel, sequential,
                   unreported, client, verdict>>

LeaveLevel ==
    /\ phase = "sequential"
    /\ Resumed
    /\ sequential = {}
    /\ Running = {}
    /\ phase' = "between"
    /\ UNCHANGED <<vars, status, levelIdx, unfiltered, parallel, sequential,
                   unreported, failedTaskIds, completedCount, outbox, client, verdict>>

-----------------------------------------------------------------------------
(* The end of the stream, and the consumer.                                *)

AllCompleted == \A i \in DOMAIN plan : status[i] = "completed"

StreamOutcome == IF AllCompleted THEN "completed" ELSE "partial_failure"

FinishStream ==
    /\ AtLevelBoundary
    /\ Resumed
    /\ levelIdx = Len(levels)
    /\ outbox' = DoneEvent(StreamOutcome)
    /\ UNCHANGED <<vars, status, phase, levelIdx, unfiltered, parallel, sequential,
                   unreported, failedTaskIds, completedCount, client, verdict>>

\* The event was written and the generator resumes: after a task_start it marks
\* the task RUNNING, after the last event it returns.
Deliver ==
    /\ outbox' = NoEvent
    /\ \/ /\ outbox.type = "task_start"
          /\ status' = [status EXCEPT ![outbox.task] = "running"]
          /\ client' = [client EXCEPT ![outbox.task] = "running"]
          /\ UNCHANGED <<phase, verdict>>
       \/ /\ outbox.type = "task_done"
          /\ client' = [client EXCEPT ![outbox.task] = outbox.status]
          /\ UNCHANGED <<status, phase, verdict>>
       \/ /\ outbox.type = "done"
          /\ phase' = "closed"
          /\ verdict' = outbox.status
          /\ UNCHANGED <<status, client>>
    /\ UNCHANGED <<vars, levelIdx, unfiltered, parallel, sequential, unreported,
                   failedTaskIds, completedCount>>

\* Writing failed: the generator is closed at its yield and never resumes.
Abandon ==
    /\ ~Resumed
    /\ outbox' = NoEvent
    /\ phase' = "closed"
    /\ verdict' = "abandoned"
    /\ unfiltered' = {}
    /\ UNCHANGED <<vars, status, levelIdx, parallel, sequential, unreported,
                   failedTaskIds, completedCount, client>>

RunParallel == \E i \in DOMAIN plan : Announce(i) \/ FinishParallel(i) \/ Report(i)
RunSequential == \E i \in DOMAIN plan : AnnounceNext(i) \/ FinishSequential(i)

-----------------------------------------------------------------------------
(* The specification.                                                      *)

\* Unlike process_request, a plan whose tasks all lack a skill is executed too.
StreamInit ==
    /\ Init
    /\ status \in [DOMAIN plan -> {"pending", "failed"}]
    /\ phase = "sort"
    /\ levelIdx = 0
    /\ unfiltered = {}
    /\ parallel = {}
    /\ sequential = {}
    /\ unreported = {}
    /\ failedTaskIds = {}
    /\ completedCount = 0
    /\ outbox = NoEvent
    /\ client = [i \in DOMAIN plan |-> "none"]
    /\ verdict = "open"

StreamNext ==
    \/ Sort \/ EnterLevel \/ Filter \/ Dispatch
    \/ RunParallel \/ Gather \/ GatherReturns \/ AllReported
    \/ RunSequential \/ LeaveLevel
    \/ FinishStream \/ Deliver \/ Abandon

\* Skills return or raise (their calls carry timeouts), and a write to the
\* client either succeeds or fails.
StreamSpec == StreamInit /\ [][StreamNext]_allVars /\ WF_allVars(StreamNext)

-----------------------------------------------------------------------------
(* Properties.                                                             *)

StreamTypeOK ==
    /\ TypeOK
    /\ status \in [DOMAIN plan -> Status]
    /\ phase \in Phase
    /\ levelIdx \in 0..Len(levels)
    /\ {unfiltered, parallel, sequential, unreported} \subseteq SUBSET DOMAIN plan
    /\ failedTaskIds \in SUBSET Id
    /\ completedCount \in Nat
    /\ outbox \in {NoEvent} \cup {TaskStart(i) : i \in DOMAIN plan}
                  \cup {TaskDone(i, s) : i \in DOMAIN plan, s \in Status}
                  \cup {DoneEvent(v) : v \in {"completed", "partial_failure"}}
    /\ client \in [DOMAIN plan -> Status \cup {"none"}]
    /\ verdict \in {"open", "completed", "partial_failure", "abandoned"}

\* The streaming path keeps the same promises as the synchronous one.
Dag == INSTANCE DagExecution WITH plan <- plan, status <- status
ImplementsDagExecution == Dag!Spec

\* A task whose skill is not concurrency_safe never runs together with another
\* task of the request.
UnsafeRunsAlone ==
    \A i \in Running : plan[i].id \notin ConcurrencySafe => Running = {i}

\* What the client has been told is true and in order: a task it was told has
\* ended has ended that way, and it never sees a task start before it saw every
\* task that one depends on complete.
ClientViewIsSound ==
    \A i \in DOMAIN plan :
        /\ client[i] \in {"completed", "failed", "cancelled"} => status[i] = client[i]
        /\ client[i] \notin {"none", "cancelled"} =>
              \A d \in plan[i].dependencies :
                  \E j \in DOMAIN plan : plan[j].id = d /\ client[j] = "completed"

\* A stream that reaches its done event has told the client how every task that
\* started or was cancelled ended; only tasks that never had a skill, and tasks
\* left pending, go unmentioned.
EveryOutcomeDelivered ==
    verdict \in {"completed", "partial_failure"} =>
        \A i \in DOMAIN plan :
            \/ client[i] = status[i]
            \/ client[i] = "none" /\ status[i] \in {"pending", "failed"}

\* Every stream ends.
StreamEnds == <>(verdict # "open")
=============================================================================
