------------------------ MODULE StreamExecution_proofs ------------------------
(***************************************************************************)
(* Proofs about StreamExecution, for any number of tasks: its types; a     *)
(* task that is not concurrency-safe runs alone; a stream that ends has    *)
(* told how every task ended; and, for plans with distinct ids, what the   *)
(* client has seen is true and in order, and the stream implements         *)
(* DagExecution.                                                           *)
(*                                                                         *)
(* The argument has three layers.  Control: tasks of the levels already    *)
(* left have ended, later ones have not been touched, and those of the     *)
(* level stand as the phase and the sets of the generator say.  Stories:   *)
(* what the client was told of a task, and what is on its way to it, tell  *)
(* how the task stands.  Freedom: no task that may still start depends on  *)
(* one that is lost.                                                       *)
(***************************************************************************)
EXTENDS StreamExecution, TopologicalSort_proofs

Lost == {"failed", "cancelled"}
InLevel == phase \in {"filter", "announce", "gather", "report", "sequential"}
Open == phase # "closed"

\* The levels the generator has left, and the positions of their tasks.
LeftLevels == IF InLevel THEN levelIdx - 1 ELSE levelIdx
Positions(k) == {TaskMap(plan, t) : t \in levels[k]}
CurrentTasks == IF InLevel THEN Positions(levelIdx) ELSE {}
LeftTasks == UNION {Positions(k) : k \in 1..LeftLevels}

Ended(i) ==
    \/ status[i] = "completed"
    \/ status[i] \in Lost /\ plan[i].id \in failedTaskIds

-----------------------------------------------------------------------------
(* Control.                                                                *)

Placed ==
    /\ phase = "sort" => levelIdx = 0
    /\ InLevel => levelIdx \in DOMAIN levels
    /\ InLevel => parallel \cup sequential \cup unfiltered \subseteq CurrentTasks
    /\ ~InLevel /\ Open => sequential = {}
    /\ phase # "filter" => unfiltered = {}
    /\ InLevel => unfiltered \cap (parallel \cup sequential) = {} /\ parallel \cap sequential = {}
    /\ \A i \in parallel : plan[i].id \in ConcurrencySafe
    /\ phase = "report" => unreported \subseteq parallel

\* What the event the generator is suspended on says of where it stands.
Speaking ==
    /\ \A i \in DOMAIN plan : outbox = TaskStart(i) =>
          /\ status[i] = "pending"
          /\ \/ phase = "announce" /\ i \in parallel
             \/ phase = "sequential" /\ Running = {} /\ i \in CurrentTasks \ (sequential \cup parallel)
    /\ \A i \in DOMAIN plan, s \in Status : outbox = TaskDone(i, s) =>
          /\ phase \in {"filter", "report", "sequential"}
          /\ i \in CurrentTasks \ (unfiltered \cup sequential)
          /\ s = status[i]
    /\ \A v \in {"completed", "partial_failure"} : outbox = DoneEvent(v) =>
          AtLevelBoundary /\ levelIdx = Len(levels)
    /\ ~Open => outbox = NoEvent

OneByOne ==
    phase = "sequential" /\ Running # {} => Resumed /\ \A i, j \in Running : i = j

StandsInLevel(i) ==
    \/ i \in unfiltered /\ status[i] \in {"pending", "failed"}
    \/ i \in parallel /\ phase \in {"filter", "announce"} /\ status[i] = "pending"
    \/ i \in parallel /\ phase \in {"announce", "gather"} /\ status[i] = "running"
    \/ i \in sequential /\ status[i] = "pending"
    \/ /\ i \notin parallel \cup sequential /\ phase = "sequential"
       /\ status[i] = "running" \/ (status[i] = "pending" /\ outbox = TaskStart(i))
    \/ /\ i \notin unfiltered \cup sequential /\ Ended(i)
       /\ i \in parallel => phase \notin {"filter", "announce"}

Stands ==
    Open => /\ \A i \in LeftTasks : Ended(i)
            /\ \A i \in CurrentTasks : StandsInLevel(i)
            /\ \A i \in DOMAIN plan \ (LeftTasks \cup CurrentTasks) :
                  status[i] \in {"pending", "failed"}

\* failed_task_ids names lost tasks only.
FailedIdsAreLost ==
    \A t \in failedTaskIds :
        \E j \in DOMAIN plan : plan[j].id = t /\ status[j] \in Lost

ControlInv ==
    /\ StreamTypeOK
    /\ EmittedInv
    /\ Placed
    /\ Speaking
    /\ OneByOne
    /\ Stands
    /\ FailedIdsAreLost

-----------------------------------------------------------------------------
(* Facts used by every step.                                               *)

LEMMA Events ==
    /\ \A i : TaskStart(i).type = "task_start" /\ TaskStart(i).task = i /\ TaskStart(i) # NoEvent
    /\ \A i, s : /\ TaskDone(i, s).type = "task_done" /\ TaskDone(i, s).task = i
                 /\ TaskDone(i, s).status = s /\ TaskDone(i, s) # NoEvent
    /\ \A v : DoneEvent(v).type = "done" /\ DoneEvent(v).status = v /\ DoneEvent(v) # NoEvent
    /\ \A i, j, s : TaskStart(i) # TaskDone(j, s)
    /\ \A i, v : TaskStart(i) # DoneEvent(v)
    /\ \A i, s, v : TaskDone(i, s) # DoneEvent(v)
    /\ \A i, j : TaskStart(i) = TaskStart(j) => i = j
    /\ \A i, j, s, r : TaskDone(i, s) = TaskDone(j, r) => i = j /\ s = r
    /\ NoEvent.type = "none"
<1>1. \A i : TaskStart(i).type = "task_start" /\ TaskStart(i).task = i
  BY DEF TaskStart
<1>2. \A i, s : /\ TaskDone(i, s).type = "task_done" /\ TaskDone(i, s).task = i
                /\ TaskDone(i, s).status = s
  BY DEF TaskDone
<1>3. \A v : DoneEvent(v).type = "done" /\ DoneEvent(v).status = v
  BY DEF DoneEvent
<1>4. NoEvent.type = "none"
  BY DEF NoEvent
<1>5. /\ \A i : TaskStart(i) # NoEvent
      /\ \A i, s : TaskDone(i, s) # NoEvent
      /\ \A v : DoneEvent(v) # NoEvent
      /\ \A i, j, s : TaskStart(i) # TaskDone(j, s)
      /\ \A i, v : TaskStart(i) # DoneEvent(v)
      /\ \A i, s, v : TaskDone(i, s) # DoneEvent(v)
  BY <1>1, <1>2, <1>3, <1>4
<1>6. /\ \A i, j : TaskStart(i) = TaskStart(j) => i = j
      /\ \A i, j, s, r : TaskDone(i, s) = TaskDone(j, r) => i = j /\ s = r
  BY <1>1, <1>2
<1> QED BY <1>1, <1>2, <1>3, <1>4, <1>5, <1>6

LEMMA PlanFacts ==
    ASSUME ControlInv
    PROVE  /\ plan \in Seq(SubTask)
           /\ Len(levels) \in Nat /\ DOMAIN levels = 1..Len(levels)
           /\ levels \in Seq(SUBSET TaskIds(plan))
           /\ levelIdx \in Nat /\ levelIdx <= Len(levels)
           /\ \A i \in DOMAIN plan : plan[i].id \in Id /\ plan[i].id \in TaskIds(plan)
<1>1. plan \in Seq(SubTask) /\ levels \in Seq(SUBSET TaskIds(plan))
  BY PlansAssumption DEF ControlInv, StreamTypeOK, TypeOK
<1>2. levelIdx \in 0..Len(levels)
  BY DEF ControlInv, StreamTypeOK
<1>3. \A i \in DOMAIN plan : plan[i] \in SubTask
  BY <1>1
<1> QED BY <1>1, <1>2, <1>3 DEF SubTask, TaskIds

(* The tasks of a level are tasks of the plan.                             *)
LEMMA PositionsType ==
    ASSUME ControlInv, NEW k \in DOMAIN levels
    PROVE  /\ Positions(k) \subseteq DOMAIN plan
           /\ \A i \in Positions(k) : plan[i].id \in levels[k]
<1>1. levels[k] \subseteq TaskIds(plan)
  BY PlanFacts
<1>2. \A t \in levels[k] : TaskMap(plan, t) \in DOMAIN plan /\ plan[TaskMap(plan, t)].id = t
  BY <1>1, PlanFacts, TaskMapFinds
<1> QED BY <1>2 DEF Positions

(* No task is in two levels.                                               *)
LEMMA PositionsApart ==
    ASSUME ControlInv, NEW k \in DOMAIN levels, NEW m \in DOMAIN levels, k # m
    PROVE  Positions(k) \cap Positions(m) = {}
<1>1. levels[k] \cap levels[m] = {}
  BY DEF ControlInv, EmittedInv, EmittedOnce
<1> QED BY <1>1, PositionsType

LEMMA CurrentAndLeft ==
    ASSUME ControlInv
    PROVE  /\ CurrentTasks \subseteq DOMAIN plan
           /\ LeftTasks \subseteq DOMAIN plan
           /\ CurrentTasks \cap LeftTasks = {}
<1>1. 1..LeftLevels \subseteq DOMAIN levels
  BY PlanFacts DEF LeftLevels
<1>2. LeftTasks \subseteq DOMAIN plan
  BY <1>1, PositionsType DEF LeftTasks
<1>3. InLevel => levelIdx \in DOMAIN levels
  BY DEF ControlInv, Placed
<1>4. CurrentTasks \subseteq DOMAIN plan
  BY <1>3, PositionsType DEF CurrentTasks
<1>5. ASSUME NEW i \in CurrentTasks, i \in LeftTasks
      PROVE  FALSE
  <2>1. InLevel /\ i \in Positions(levelIdx)
    BY <1>5 DEF CurrentTasks
  <2>2. PICK k \in 1..(levelIdx - 1) : i \in Positions(k)
    BY <1>5, <2>1 DEF LeftTasks, LeftLevels
  <2>3. k \in DOMAIN levels /\ k # levelIdx
    BY <1>3, <2>1, PlanFacts
  <2> QED BY <1>3, <2>1, <2>2, <2>3, PositionsApart
<1> QED BY <1>2, <1>4, <1>5

(* A step that neither enters nor leaves a level.                          *)
LEMMA SameLevel ==
    ASSUME ControlInv, UNCHANGED <<vars, levelIdx>>, InLevel' <=> InLevel
    PROVE  /\ plan' = plan /\ levels' = levels
           /\ CurrentTasks' = CurrentTasks /\ LeftTasks' = LeftTasks
           /\ EmittedInv' /\ TypeOK'
<1>1. UNCHANGED <<plan, inDegree, currentLevel, levels>>
  BY DEF vars, sortVars
<1>2. LeftLevels' = LeftLevels
  BY <1>1 DEF LeftLevels
<1>3. CurrentTasks' = CurrentTasks /\ LeftTasks' = LeftTasks
  BY <1>1, <1>2 DEF CurrentTasks, LeftTasks, Positions
<1>4. EmittedInv'
  BY <1>1 DEF ControlInv, EmittedInv, EmittedOnce, NoneLeft, Emitted, TypeOK
<1> QED BY <1>1, <1>3, <1>4 DEF EmittedInv

LEMMA RunningStand ==
    ASSUME ControlInv, Open, NEW i \in Running
    PROVE  /\ i \in CurrentTasks \ (sequential \cup unfiltered)
           /\ \/ i \in parallel /\ phase \in {"announce", "gather"}
              \/ i \notin parallel /\ phase = "sequential"
<1>1. i \in DOMAIN plan /\ status[i] = "running"
  BY DEF Running
<1>2. ~Ended(i)
  BY <1>1 DEF Ended, Lost
<1>3. i \in CurrentTasks /\ StandsInLevel(i)
  BY <1>1, <1>2 DEF ControlInv, Stands
<1>4. InLevel
  BY <1>3 DEF CurrentTasks
<1> QED BY <1>1, <1>2, <1>3, <1>4 DEF StandsInLevel, ControlInv, Placed

(* What a step within a level has to show.                                 *)
LEMMA StandsKept ==
    ASSUME ControlInv, InLevel, InLevel', UNCHANGED <<vars, levelIdx>>,
           \A j \in DOMAIN plan \ CurrentTasks : status'[j] = status[j],
           failedTaskIds \subseteq failedTaskIds',
           \A j \in CurrentTasks : StandsInLevel(j)'
    PROVE  Stands'
<1>1. plan' = plan /\ CurrentTasks' = CurrentTasks /\ LeftTasks' = LeftTasks
  BY SameLevel
<1>2. Open
  BY DEF Open, InLevel
<1>3. ASSUME NEW j \in LeftTasks
      PROVE  Ended(j)'
  <2>1. Ended(j) /\ j \in DOMAIN plan \ CurrentTasks
    BY <1>2, CurrentAndLeft DEF ControlInv, Stands
  <2> QED BY <1>1, <2>1 DEF Ended
<1>4. ASSUME NEW j \in DOMAIN plan \ (LeftTasks \cup CurrentTasks)
      PROVE  status'[j] \in {"pending", "failed"}
  BY <1>2 DEF ControlInv, Stands
<1> QED BY <1>1, <1>3, <1>4 DEF Stands

LEMMA LostKept ==
    ASSUME ControlInv, plan' = plan,
           \A j \in DOMAIN plan : status[j] \in Lost => status'[j] \in Lost,
           \A t \in failedTaskIds' : t \notin failedTaskIds =>
               \E j \in DOMAIN plan : plan[j].id = t /\ status'[j] \in Lost
    PROVE  FailedIdsAreLost'
BY DEF ControlInv, FailedIdsAreLost

-----------------------------------------------------------------------------
(* The initial state, and the steps up to the filter.                      *)

LEMMA ControlInit == StreamInit => ControlInv
<1> SUFFICES ASSUME StreamInit PROVE ControlInv
  OBVIOUS
<1>1. EmittedInv /\ TypeOK /\ levels = <<>>
  BY EmittedInvInit DEF StreamInit, Init, EmittedInv, SortInit
<1>2. StreamTypeOK
  BY <1>1 DEF StreamInit, StreamTypeOK, Status, Phase
<1>3. ~InLevel /\ Running = {}
  BY DEF StreamInit, InLevel, Running
<1>4. Placed /\ OneByOne /\ FailedIdsAreLost
  BY <1>3 DEF StreamInit, Placed, OneByOne, FailedIdsAreLost
<1>5. Speaking
  BY Events DEF StreamInit, Speaking, Open
<1>6. CurrentTasks = {} /\ LeftTasks = {}
  BY <1>3 DEF StreamInit, CurrentTasks, LeftTasks, LeftLevels
<1>7. Stands
  BY <1>6 DEF StreamInit, Stands
<1> QED BY <1>1, <1>2, <1>4, <1>5, <1>7 DEF ControlInv

LEMMA SortStep ==
    ASSUME ControlInv, Sort
    PROVE  ControlInv'
<1>1. /\ phase = "sort" /\ EmitLevel /\ plan' = plan /\ levelIdx = 0 /\ ~InLevel
      /\ UNCHANGED <<status, phase, levelIdx, unfiltered, parallel, sequential,
                unreported, failedTaskIds, completedCount, outbox, client, verdict>>
  BY DEF Sort, EmitLevel, streamVars, ControlInv, Placed, InLevel
<1>2. EmittedInv'
  BY <1>1, EmittedInvStep DEF ControlInv
<1>3. Len(levels') = Len(levels) + 1
  BY <1>1, EmitLevelEmits, SortTypes DEF ControlInv, StreamTypeOK, EmittedInv
<1>4. levelIdx' \in 0..Len(levels')
  BY <1>1, <1>3, PlanFacts
<1>5. StreamTypeOK'
  BY <1>1, <1>2, <1>4 DEF ControlInv, StreamTypeOK, EmittedInv
<1>6. ~InLevel' /\ Open /\ Open' /\ Running' = Running
  BY <1>1 DEF InLevel, Open, Running
<1>7. (Placed /\ OneByOne /\ FailedIdsAreLost)'
  BY <1>1, <1>6 DEF ControlInv, Placed, OneByOne, FailedIdsAreLost
<1>8. Speaking'
  <2>1. \A v \in {"completed", "partial_failure"} : outbox # DoneEvent(v)
    BY <1>1 DEF ControlInv, Speaking, AtLevelBoundary, EmitLevel
  <2> QED BY <1>1, <1>6, <2>1 DEF ControlInv, Speaking
<1>9. CurrentTasks = {} /\ CurrentTasks' = {} /\ LeftTasks = {} /\ LeftTasks' = {}
  BY <1>1, <1>6 DEF CurrentTasks, LeftTasks, LeftLevels
<1>10. Stands'
  BY <1>1, <1>6, <1>9 DEF ControlInv, Stands
<1> QED BY <1>2, <1>5, <1>7, <1>8, <1>10 DEF ControlInv

LEMMA EnterLevelStep ==
    ASSUME ControlInv, EnterLevel
    PROVE  ControlInv'
<1>1. /\ phase \in {"sort", "between"} /\ levelIdx < Len(levels) /\ levelIdx' = levelIdx + 1
      /\ unfiltered' = Positions(levelIdx + 1) /\ parallel' = {} /\ phase' = "filter"
      /\ UNCHANGED <<vars, status, sequential, unreported, failedTaskIds,
                     completedCount, outbox, client, verdict>>
  BY DEF EnterLevel, AtLevelBoundary, Positions
<1>2. UNCHANGED <<plan, inDegree, currentLevel, levels>>
  BY <1>1 DEF vars, sortVars
<1>3. ~InLevel /\ InLevel' /\ Open /\ Open' /\ Running' = Running
  BY <1>1, <1>2 DEF InLevel, Open, Running
<1>4. levelIdx + 1 \in DOMAIN levels /\ (levelIdx + 1) - 1 = levelIdx
  BY <1>1, PlanFacts
<1>5. CurrentTasks' = unfiltered' /\ LeftTasks' = LeftTasks /\ CurrentTasks = {}
  BY <1>1, <1>2, <1>3, <1>4 DEF CurrentTasks, LeftTasks, LeftLevels, Positions
<1>6. unfiltered' \subseteq DOMAIN plan
  BY <1>1, <1>4, PositionsType
<1>7. sequential = {}
  BY <1>3 DEF ControlInv, Placed
<1>8. \A i \in unfiltered' : i \notin LeftTasks
  <2>1. ASSUME NEW i \in unfiltered', i \in LeftTasks
        PROVE  FALSE
    <3>1. PICK k \in 1..levelIdx : i \in Positions(k)
      BY <1>3, <2>1 DEF LeftTasks, LeftLevels
    <3>2. k \in DOMAIN levels /\ k # levelIdx + 1
      BY <1>4, PlanFacts
    <3> QED BY <1>1, <1>4, <3>1, <3>2, PositionsApart
  <2> QED BY <2>1
<1>9. \A i \in unfiltered' : status[i] \in {"pending", "failed"}
  BY <1>3, <1>5, <1>6, <1>8 DEF ControlInv, Stands
<1>10. EmittedInv'
  BY <1>2 DEF ControlInv, EmittedInv, EmittedOnce, NoneLeft, Emitted, TypeOK
<1>11. levelIdx' \in 0..Len(levels')
  BY <1>1, <1>2, PlanFacts
<1>12. StreamTypeOK'
  BY <1>1, <1>2, <1>6, <1>10, <1>11 DEF ControlInv, StreamTypeOK, EmittedInv, Phase
<1>13. Placed'
  BY <1>1, <1>2, <1>3, <1>4, <1>5, <1>7 DEF Placed
<1>14. Speaking'
  <2>1. \A v \in {"completed", "partial_failure"} : outbox # DoneEvent(v)
    BY <1>1, PlanFacts DEF ControlInv, Speaking
  <2>2. \A i \in DOMAIN plan : outbox # TaskStart(i) /\ \A s \in Status : outbox # TaskDone(i, s)
    BY <1>1 DEF ControlInv, Speaking
  <2> QED BY <1>1, <1>2, <1>3, <2>1, <2>2 DEF Speaking
<1>15. OneByOne' /\ FailedIdsAreLost'
  BY <1>1, <1>2 DEF ControlInv, OneByOne, FailedIdsAreLost
<1>16. Stands'
  <2>1. \A i \in LeftTasks : Ended(i)'
    BY <1>1, <1>2, <1>3 DEF ControlInv, Stands, Ended
  <2>2. \A i \in CurrentTasks' : StandsInLevel(i)'
    BY <1>1, <1>5, <1>9 DEF StandsInLevel
  <2>3. \A i \in DOMAIN plan \ (LeftTasks \cup CurrentTasks') : status[i] \in {"pending", "failed"}
    BY <1>3, <1>5 DEF ControlInv, Stands
  <2> QED BY <1>1, <1>2, <1>5, <2>1, <2>2, <2>3 DEF Stands
<1> QED BY <1>10, <1>12, <1>13, <1>14, <1>15, <1>16 DEF ControlInv

-----------------------------------------------------------------------------
(* The filter.                                                             *)

LEMMA FilterFrame ==
    ASSUME ControlInv, NEW i \in unfiltered
    PROVE  /\ phase = "filter" /\ InLevel /\ Open
           /\ i \in DOMAIN plan /\ i \in CurrentTasks
           /\ i \notin parallel \cup sequential
           /\ status[i] \in {"pending", "failed"}
<1>1. phase = "filter" /\ InLevel /\ Open
  BY DEF ControlInv, Placed, InLevel, Open
<1>2. i \in CurrentTasks /\ i \notin parallel \cup sequential /\ i \in DOMAIN plan
  BY <1>1, CurrentAndLeft DEF ControlInv, Placed
<1>3. StandsInLevel(i)
  BY <1>1, <1>2 DEF ControlInv, Stands
<1> QED BY <1>1, <1>2, <1>3 DEF StandsInLevel

\* What the steps of the filter that settle the task i have in common.
Settles(i) ==
    /\ i \in unfiltered
    /\ unfiltered' = unfiltered \ {i}
    /\ status'[i] \in Lost
    /\ \A j \in DOMAIN plan : j # i => status'[j] = status[j]
    /\ failedTaskIds' = failedTaskIds \cup {plan[i].id}
    /\ outbox = NoEvent
    /\ UNCHANGED <<vars, phase, levelIdx, parallel, sequential, unreported,
                   completedCount, client, verdict>>

LEMMA SettlesStep ==
    ASSUME ControlInv, NEW i \in DOMAIN plan, Settles(i), status' \in [DOMAIN plan -> Status],
           outbox' \in {NoEvent, TaskDone(i, status'[i])}
    PROVE  ControlInv'
<1> USE DEF Settles
<1>1. /\ phase = "filter" /\ InLevel /\ Open /\ i \in CurrentTasks
      /\ i \notin parallel \cup sequential /\ status[i] \in {"pending", "failed"}
  BY FilterFrame
<1>2. InLevel' /\ Open'
  BY <1>1 DEF InLevel, Open
<1>3. /\ plan' = plan /\ levels' = levels /\ EmittedInv' /\ TypeOK'
      /\ CurrentTasks' = CurrentTasks /\ LeftTasks' = LeftTasks
  BY <1>1, <1>2, SameLevel
<1>4. StreamTypeOK'
  <2>1. outbox' \in {NoEvent} \cup {TaskDone(j, s) : j \in DOMAIN plan, s \in Status}
    OBVIOUS
  <2> QED BY <1>3, <2>1, PlanFacts DEF ControlInv, StreamTypeOK
<1>5. Placed'
  BY <1>1, <1>2, <1>3 DEF ControlInv, Placed
<1>6. Speaking'
  <2>1. \A j \in DOMAIN plan : outbox' # TaskStart(j)
    BY Events
  <2>2. \A v : outbox' # DoneEvent(v)
    BY Events
  <2>3. \A j \in DOMAIN plan, s \in Status : outbox' = TaskDone(j, s) => j = i /\ s = status'[i]
    BY Events
  <2> QED BY <1>1, <1>2, <1>3, <2>1, <2>2, <2>3 DEF Speaking, ControlInv, Placed
<1>7. OneByOne'
  BY <1>1 DEF OneByOne
<1>8. Stands'
  <2>1. ASSUME NEW j \in CurrentTasks
        PROVE  StandsInLevel(j)'
    <3>1. StandsInLevel(j) /\ j \in DOMAIN plan
      BY <1>1, CurrentAndLeft DEF ControlInv, Stands
    <3>2. CASE j = i
      BY <1>1, <1>3, <3>2 DEF StandsInLevel, Ended
    <3>3. CASE j # i
      BY <1>1, <1>3, <3>1, <3>3 DEF StandsInLevel, Ended
    <3> QED BY <3>2, <3>3
  <2> QED BY <1>1, <1>2, <2>1, StandsKept
<1>9. FailedIdsAreLost'
  BY <1>1, <1>3, LostKept
<1> QED BY <1>3, <1>4, <1>5, <1>6, <1>7, <1>8, <1>9 DEF ControlInv

LEMMA SkipFailedStep ==
    ASSUME ControlInv, NEW i \in DOMAIN plan, SkipFailed(i)
    PROVE  ControlInv'
<1>1. status' = status /\ status' \in [DOMAIN plan -> Status]
  BY DEF SkipFailed, ControlInv, StreamTypeOK
<1>2. Settles(i) /\ outbox' = NoEvent
  BY <1>1 DEF SkipFailed, Settles, Resumed, Lost
<1> QED BY <1>1, <1>2, SettlesStep

LEMMA CancelDependentStep ==
    ASSUME ControlInv, NEW i \in DOMAIN plan, CancelDependent(i)
    PROVE  ControlInv'
<1>1. /\ status' = [status EXCEPT ![i] = "cancelled"] /\ outbox' = TaskDone(i, "cancelled")
      /\ status \in [DOMAIN plan -> Status]
  BY DEF CancelDependent, ControlInv, StreamTypeOK
<1>2. /\ status' \in [DOMAIN plan -> Status] /\ status'[i] = "cancelled"
      /\ \A j \in DOMAIN plan : j # i => status'[j] = status[j]
  BY <1>1 DEF Status
<1>3. Settles(i)
  BY <1>2 DEF CancelDependent, Settles, Resumed, Lost
<1> QED BY <1>1, <1>2, <1>3, SettlesStep

LEMMA AdmitStep ==
    ASSUME ControlInv, NEW i \in DOMAIN plan, Admit(i)
    PROVE  ControlInv'
<1>1. /\ i \in unfiltered /\ status[i] # "failed" /\ unfiltered' = unfiltered \ {i}
      /\ outbox = NoEvent
      /\ \/ RunsInParallel(i) /\ parallel' = parallel \cup {i} /\ sequential' = sequential
         \/ sequential' = sequential \cup {i} /\ parallel' = parallel
      /\ UNCHANGED <<vars, status, phase, levelIdx, unreported, failedTaskIds,
                     completedCount, outbox, client, verdict>>
  BY DEF Admit, Resumed
<1>2. /\ phase = "filter" /\ InLevel /\ Open /\ i \in CurrentTasks
      /\ i \notin parallel \cup sequential /\ status[i] = "pending"
  BY <1>1, FilterFrame
<1>3. InLevel' /\ Open'
  BY <1>1, <1>2 DEF InLevel, Open
<1>4. /\ plan' = plan /\ levels' = levels /\ EmittedInv' /\ TypeOK'
      /\ CurrentTasks' = CurrentTasks /\ LeftTasks' = LeftTasks
  BY <1>1, <1>2, <1>3, SameLevel
<1>5. StreamTypeOK'
  BY <1>1, <1>4 DEF ControlInv, StreamTypeOK
<1>6. Placed'
  BY <1>1, <1>2, <1>3, <1>4 DEF ControlInv, Placed, RunsInParallel
<1>7. Speaking'
  BY <1>1, <1>3, <1>4, Events DEF Speaking
<1>8. OneByOne'
  BY <1>1, <1>2 DEF OneByOne
<1>9. Stands'
  <2>1. ASSUME NEW j \in CurrentTasks
        PROVE  StandsInLevel(j)'
    <3>1. StandsInLevel(j) /\ j \in DOMAIN plan
      BY <1>2, CurrentAndLeft DEF ControlInv, Stands
    <3>2. CASE j = i
      BY <1>1, <1>2, <3>2 DEF StandsInLevel
    <3>3. CASE j # i
      BY <1>1, <1>4, <3>1, <3>3 DEF StandsInLevel, Ended
    <3> QED BY <3>2, <3>3
  <2> QED BY <1>1, <1>2, <1>3, <2>1, StandsKept
<1>10. FailedIdsAreLost'
  BY <1>1, <1>4, LostKept
<1> QED BY <1>4, <1>5, <1>6, <1>7, <1>8, <1>9, <1>10 DEF ControlInv

(* A step that only moves the generator from one phase of the level to the *)
(* next, when nothing is on its way to the client.                         *)
LEMMA PhaseStep ==
    ASSUME ControlInv, InLevel, InLevel', outbox = NoEvent, phase # "filter" \/ unfiltered = {},
           phase' # "report" \/ unreported' \subseteq parallel,
           phase' # "filter", phase' \in Phase, unreported' \in SUBSET DOMAIN plan,
           phase' = "sequential" => Running = {},
           \A j \in CurrentTasks : StandsInLevel(j)',
           UNCHANGED <<vars, status, levelIdx, unfiltered, parallel, sequential,
                       failedTaskIds, completedCount, outbox, client, verdict>>
    PROVE  ControlInv'
<1>1. /\ plan' = plan /\ levels' = levels /\ EmittedInv' /\ TypeOK'
      /\ CurrentTasks' = CurrentTasks /\ LeftTasks' = LeftTasks
  BY SameLevel
<1>2. StreamTypeOK'
  BY <1>1 DEF ControlInv, StreamTypeOK
<1>3. unfiltered = {} /\ Running' = Running
  BY <1>1 DEF ControlInv, Placed, Running
<1>4. Placed'
  BY <1>1, <1>3 DEF ControlInv, Placed, InLevel
<1>5. Speaking'
  BY <1>1, Events DEF Speaking
<1>6. OneByOne'
  BY <1>3 DEF OneByOne
<1>7. Stands'
  BY StandsKept
<1>8. FailedIdsAreLost'
  BY <1>1, LostKept
<1> QED BY <1>1, <1>2, <1>4, <1>5, <1>6, <1>7, <1>8 DEF ControlInv

LEMMA DispatchStep ==
    ASSUME ControlInv, Dispatch
    PROVE  ControlInv'
<1>1. /\ phase = "filter" /\ unfiltered = {} /\ outbox = NoEvent
      /\ phase' = IF parallel # {} THEN "announce" ELSE "sequential"
      /\ UNCHANGED <<vars, status, levelIdx, unfiltered, parallel, sequential,
                     unreported, failedTaskIds, completedCount, outbox, client, verdict>>
  BY DEF Dispatch, Resumed
<1>2. InLevel /\ InLevel' /\ Open /\ phase' \in Phase
  BY <1>1 DEF InLevel, Open, Phase
<1>3. Running = {}
  BY <1>1, <1>2, RunningStand
<1>4. plan' = plan
  BY <1>1 DEF vars
<1>5. \A j \in CurrentTasks : StandsInLevel(j)'
  BY <1>1, <1>2, <1>4 DEF ControlInv, Stands, StandsInLevel, Ended
<1>6. unreported' \in SUBSET DOMAIN plan
  BY <1>1 DEF ControlInv, StreamTypeOK
<1> QED BY <1>1, <1>2, <1>3, <1>5, <1>6, PhaseStep

-----------------------------------------------------------------------------
(* The concurrency-safe tasks of the level.                                *)

(* The generator is never suspended while the gather runs.                 *)
LEMMA GatherIsQuiet ==
    ASSUME ControlInv, phase = "gather"
    PROVE  outbox = NoEvent
<1>1. /\ \A i \in DOMAIN plan : outbox # TaskStart(i)
      /\ \A i \in DOMAIN plan, s \in Status : outbox # TaskDone(i, s)
      /\ \A v \in {"completed", "partial_failure"} : outbox # DoneEvent(v)
  BY DEF ControlInv, Speaking, AtLevelBoundary
<1> QED BY <1>1 DEF ControlInv, StreamTypeOK

LEMMA AnnounceStep ==
    ASSUME ControlInv, NEW i \in DOMAIN plan, Announce(i)
    PROVE  ControlInv'
<1>1. /\ phase = "announce" /\ outbox = NoEvent /\ i \in parallel /\ status[i] = "pending"
      /\ outbox' = TaskStart(i)
      /\ UNCHANGED <<vars, status, phase, levelIdx, unfiltered, parallel, sequential,
                     unreported, failedTaskIds, completedCount, client, verdict>>
  BY DEF Announce, Resumed
<1>2. InLevel /\ InLevel' /\ Open /\ Open'
  BY <1>1 DEF InLevel, Open
<1>3. /\ plan' = plan /\ levels' = levels /\ EmittedInv' /\ TypeOK'
      /\ CurrentTasks' = CurrentTasks /\ LeftTasks' = LeftTasks
  BY <1>1, <1>2, SameLevel
<1>4. StreamTypeOK'
  BY <1>1, <1>3 DEF ControlInv, StreamTypeOK
<1>5. Placed'
  BY <1>1, <1>2, <1>3 DEF ControlInv, Placed
<1>6. Speaking'
  BY <1>1, <1>2, <1>3, Events DEF Speaking
<1>7. OneByOne'
  BY <1>1 DEF OneByOne
<1>8. \A j \in CurrentTasks : StandsInLevel(j)'
  BY <1>1, <1>2, <1>3 DEF ControlInv, Stands, StandsInLevel, Ended
<1>9. Stands'
  BY <1>1, <1>2, <1>8, StandsKept
<1>10. FailedIdsAreLost'
  BY <1>1, <1>3, LostKept
<1> QED BY <1>3, <1>4, <1>5, <1>6, <1>7, <1>9, <1>10 DEF ControlInv

LEMMA GatherStep ==
    ASSUME ControlInv, Gather
    PROVE  ControlInv'
<1>1. /\ phase = "announce" /\ outbox = NoEvent /\ parallel \subseteq Running /\ phase' = "gather"
      /\ UNCHANGED <<vars, status, levelIdx, unfiltered, parallel, sequential,
                     unreported, failedTaskIds, completedCount, outbox, client, verdict>>
  BY DEF Gather, Resumed
<1>2. InLevel /\ InLevel' /\ Open /\ phase' \in Phase /\ plan' = plan
  BY <1>1 DEF InLevel, Open, Phase, vars
<1>3. \A j \in CurrentTasks : StandsInLevel(j)'
  BY <1>1, <1>2 DEF ControlInv, Stands, StandsInLevel, Ended, Running
<1>4. unreported' \in SUBSET DOMAIN plan
  BY <1>1 DEF ControlInv, StreamTypeOK
<1> QED BY <1>1, <1>2, <1>3, <1>4, PhaseStep

LEMMA FinishParallelStep ==
    ASSUME ControlInv, NEW i \in DOMAIN plan, FinishParallel(i)
    PROVE  ControlInv'
<1>1. /\ phase = "gather" /\ status[i] = "running" /\ outbox = NoEvent
      /\ UNCHANGED <<vars, phase, levelIdx, unfiltered, parallel, sequential,
                     unreported, completedCount, outbox, client, verdict>>
  BY GatherIsQuiet DEF FinishParallel
<1>2. /\ status' \in [DOMAIN plan -> Status]
      /\ status'[i] \in {"completed", "failed"}
      /\ \A j \in DOMAIN plan : j # i => status'[j] = status[j]
      /\ failedTaskIds \subseteq failedTaskIds'
      /\ failedTaskIds' \subseteq failedTaskIds \cup {plan[i].id}
      /\ status'[i] = "failed" => plan[i].id \in failedTaskIds'
      /\ status'[i] = "completed" => failedTaskIds' = failedTaskIds
  BY DEF FinishParallel, ControlInv, StreamTypeOK, Status
<1>3. InLevel /\ InLevel' /\ Open /\ Open' /\ i \in Running
  BY <1>1 DEF InLevel, Open, Running
<1>4. i \in CurrentTasks \ (sequential \cup unfiltered) /\ i \in parallel
  BY <1>1, <1>3, RunningStand
<1>5. /\ plan' = plan /\ levels' = levels /\ EmittedInv' /\ TypeOK'
      /\ CurrentTasks' = CurrentTasks /\ LeftTasks' = LeftTasks
  BY <1>1, <1>3, SameLevel
<1>6. StreamTypeOK'
  BY <1>1, <1>2, <1>5, PlanFacts DEF ControlInv, StreamTypeOK
<1>7. Placed'
  BY <1>1, <1>3, <1>5 DEF ControlInv, Placed
<1>8. Speaking'
  BY <1>1, <1>3, <1>5, Events DEF Speaking
<1>9. OneByOne'
  BY <1>1 DEF OneByOne
<1>10. Stands'
  <2>1. ASSUME NEW j \in CurrentTasks
        PROVE  StandsInLevel(j)'
    <3>1. StandsInLevel(j) /\ j \in DOMAIN plan
      BY <1>3, CurrentAndLeft DEF ControlInv, Stands
    <3>2. CASE j = i
      BY <1>1, <1>2, <1>4, <1>5, <3>2 DEF StandsInLevel, Ended, Lost
    <3>3. CASE j # i
      BY <1>1, <1>2, <1>5, <3>1, <3>3 DEF StandsInLevel, Ended
    <3> QED BY <3>2, <3>3
  <2> QED BY <1>1, <1>2, <1>3, <1>4, <2>1, StandsKept
<1>11. FailedIdsAreLost'
  BY <1>1, <1>2, <1>5, LostKept DEF Lost
<1> QED BY <1>5, <1>6, <1>7, <1>8, <1>9, <1>10, <1>11 DEF ControlInv

LEMMA GatherReturnsStep ==
    ASSUME ControlInv, GatherReturns
    PROVE  ControlInv'
<1>1. /\ phase = "gather" /\ Running = {} /\ phase' = "report" /\ unreported' = parallel
      /\ outbox = NoEvent
      /\ UNCHANGED <<vars, status, levelIdx, unfiltered, parallel, sequential,
                     failedTaskIds, completedCount, outbox, client, verdict>>
  BY GatherIsQuiet DEF GatherReturns, GatherDone, ToReport
<1>2. InLevel /\ InLevel' /\ Open /\ phase' \in Phase /\ plan' = plan
  BY <1>1 DEF InLevel, Open, Phase, vars
<1>3. \A j \in CurrentTasks : status[j] # "running"
  BY <1>1, CurrentAndLeft DEF Running
<1>4. \A j \in CurrentTasks : StandsInLevel(j)'
  BY <1>1, <1>2, <1>3 DEF ControlInv, Stands, StandsInLevel, Ended
<1>5. unreported' \in SUBSET DOMAIN plan
  BY <1>1 DEF ControlInv, StreamTypeOK
<1> QED BY <1>1, <1>2, <1>4, <1>5, PhaseStep

LEMMA ReportStep ==
    ASSUME ControlInv, NEW i \in DOMAIN plan, Report(i)
    PROVE  ControlInv'
<1>1. /\ phase = "report" /\ outbox = NoEvent /\ i \in unreported
      /\ unreported' = unreported \ {i} /\ completedCount' = completedCount + Counted(i)
      /\ outbox' = TaskDone(i, status[i])
      /\ UNCHANGED <<vars, status, phase, levelIdx, unfiltered, parallel, sequential,
                     failedTaskIds, client, verdict>>
  BY DEF Report, Resumed
<1>2. InLevel /\ InLevel' /\ Open /\ Open'
  BY <1>1 DEF InLevel, Open
<1>3. /\ plan' = plan /\ levels' = levels /\ EmittedInv' /\ TypeOK'
      /\ CurrentTasks' = CurrentTasks /\ LeftTasks' = LeftTasks
  BY <1>1, <1>2, SameLevel
<1>4. i \in parallel /\ i \in CurrentTasks \ (sequential \cup unfiltered)
  BY <1>1, <1>2 DEF ControlInv, Placed
<1>5. StreamTypeOK'
  <2>1. completedCount' \in Nat
    BY <1>1 DEF ControlInv, StreamTypeOK, Counted
  <2>2. outbox' \in {TaskDone(j, s) : j \in DOMAIN plan, s \in Status}
    BY <1>1 DEF ControlInv, StreamTypeOK
  <2> QED BY <1>1, <1>3, <2>1, <2>2 DEF ControlInv, StreamTypeOK
<1>6. Placed'
  BY <1>1, <1>2, <1>3 DEF ControlInv, Placed
<1>7. Speaking'
  BY <1>1, <1>2, <1>3, <1>4, Events DEF Speaking
<1>8. OneByOne'
  BY <1>1 DEF OneByOne
<1>9. \A j \in CurrentTasks : StandsInLevel(j)'
  BY <1>1, <1>2, <1>3 DEF ControlInv, Stands, StandsInLevel, Ended
<1>10. Stands'
  BY <1>1, <1>2, <1>9, StandsKept
<1>11. FailedIdsAreLost'
  BY <1>1, <1>3, LostKept
<1> QED BY <1>3, <1>5, <1>6, <1>7, <1>8, <1>10, <1>11 DEF ControlInv

LEMMA AllReportedStep ==
    ASSUME ControlInv, AllReported
    PROVE  ControlInv'
<1>1. /\ phase = "report" /\ outbox = NoEvent /\ phase' = "sequential"
      /\ UNCHANGED <<vars, status, levelIdx, unfiltered, parallel, sequential,
                     unreported, failedTaskIds, completedCount, outbox, client, verdict>>
  BY DEF AllReported, Resumed
<1>2. InLevel /\ InLevel' /\ Open /\ phase' \in Phase /\ plan' = plan
  BY <1>1 DEF InLevel, Open, Phase, vars
<1>3. Running = {}
  BY <1>1, <1>2, RunningStand
<1>4. \A j \in CurrentTasks : StandsInLevel(j)'
  BY <1>1, <1>2 DEF ControlInv, Stands, StandsInLevel, Ended
<1>5. unreported' \in SUBSET DOMAIN plan
  BY <1>1 DEF ControlInv, StreamTypeOK
<1> QED BY <1>1, <1>2, <1>3, <1>4, <1>5, PhaseStep

-----------------------------------------------------------------------------
(* The other tasks of the level.                                           *)

LEMMA AnnounceNextStep ==
    ASSUME ControlInv, NEW i \in DOMAIN plan, AnnounceNext(i)
    PROVE  ControlInv'
<1>1. /\ phase = "sequential" /\ outbox = NoEvent /\ Running = {} /\ i \in sequential
      /\ sequential' = sequential \ {i} /\ outbox' = TaskStart(i)
      /\ UNCHANGED <<vars, status, phase, levelIdx, unfiltered, parallel, unreported,
                     failedTaskIds, completedCount, client, verdict>>
  BY DEF AnnounceNext, Resumed
<1>2. InLevel /\ InLevel' /\ Open /\ Open'
  BY <1>1 DEF InLevel, Open
<1>3. /\ plan' = plan /\ levels' = levels /\ EmittedInv' /\ TypeOK'
      /\ CurrentTasks' = CurrentTasks /\ LeftTasks' = LeftTasks
  BY <1>1, <1>2, SameLevel
<1>4. i \in CurrentTasks /\ i \notin parallel \cup unfiltered
  BY <1>1, <1>2 DEF ControlInv, Placed
<1>5. status[i] = "pending"
  <2>1. StandsInLevel(i)
    BY <1>2, <1>4 DEF ControlInv, Stands
  <2> QED BY <1>1, <1>4, <2>1 DEF StandsInLevel
<1>6. StreamTypeOK'
  BY <1>1, <1>3 DEF ControlInv, StreamTypeOK
<1>7. Placed'
  BY <1>1, <1>2, <1>3 DEF ControlInv, Placed
<1>8. Running' = {}
  BY <1>1, <1>3 DEF Running
<1>9. Speaking'
  BY <1>1, <1>2, <1>3, <1>4, <1>5, <1>8, Events DEF Speaking
<1>10. OneByOne'
  BY <1>8 DEF OneByOne
<1>11. ASSUME NEW j \in CurrentTasks
       PROVE  StandsInLevel(j)'
  <2>1. StandsInLevel(j)
    BY <1>2 DEF ControlInv, Stands
  <2>2. CASE j = i
    BY <1>1, <1>4, <1>5, <2>2 DEF StandsInLevel
  <2>3. CASE j # i
    BY <1>1, <1>3, <2>1, <2>3, Events DEF StandsInLevel, Ended
  <2> QED BY <2>2, <2>3
<1>12. Stands'
  BY <1>1, <1>2, <1>11, StandsKept
<1>13. FailedIdsAreLost'
  BY <1>1, <1>3, LostKept
<1> QED BY <1>3, <1>6, <1>7, <1>9, <1>10, <1>12, <1>13 DEF ControlInv

LEMMA FinishSequentialStep ==
    ASSUME ControlInv, NEW i \in DOMAIN plan, FinishSequential(i)
    PROVE  ControlInv'
<1>1. /\ phase = "sequential" /\ status[i] = "running" /\ outbox' = TaskDone(i, status'[i])
      /\ UNCHANGED <<vars, phase, levelIdx, unfiltered, parallel, sequential,
                     unreported, client, verdict>>
  BY DEF FinishSequential
<1>2. /\ status' \in [DOMAIN plan -> Status]
      /\ status'[i] \in {"completed", "failed"}
      /\ \A j \in DOMAIN plan : j # i => status'[j] = status[j]
      /\ failedTaskIds \subseteq failedTaskIds'
      /\ failedTaskIds' \subseteq failedTaskIds \cup {plan[i].id}
      /\ status'[i] = "failed" => plan[i].id \in failedTaskIds'
      /\ status'[i] = "completed" => failedTaskIds' = failedTaskIds
      /\ completedCount' \in Nat
  BY DEF FinishSequential, ControlInv, StreamTypeOK, Status
<1>3. InLevel /\ InLevel' /\ Open /\ Open' /\ i \in Running
  BY <1>1 DEF InLevel, Open, Running
<1>4. /\ i \in CurrentTasks \ (sequential \cup unfiltered) /\ i \notin parallel
      /\ outbox = NoEvent /\ \A j \in Running : j = i
  BY <1>1, <1>3, RunningStand DEF ControlInv, OneByOne, Resumed
<1>5. /\ plan' = plan /\ levels' = levels /\ EmittedInv' /\ TypeOK'
      /\ CurrentTasks' = CurrentTasks /\ LeftTasks' = LeftTasks
  BY <1>1, <1>3, SameLevel
<1>6. StreamTypeOK'
  <2>1. outbox' \in {TaskDone(j, s) : j \in DOMAIN plan, s \in Status}
    BY <1>1, <1>2
  <2> QED BY <1>1, <1>2, <1>5, <2>1, PlanFacts DEF ControlInv, StreamTypeOK
<1>7. Placed'
  BY <1>1, <1>3, <1>5 DEF ControlInv, Placed
<1>8. Speaking'
  BY <1>1, <1>3, <1>4, <1>5, Events DEF Speaking
<1>9. Running' = {}
  BY <1>2, <1>4, <1>5 DEF Running
<1>10. OneByOne'
  BY <1>9 DEF OneByOne
<1>11. Stands'
  <2>1. ASSUME NEW j \in CurrentTasks
        PROVE  StandsInLevel(j)'
    <3>1. StandsInLevel(j) /\ j \in DOMAIN plan
      BY <1>3, CurrentAndLeft DEF ControlInv, Stands
    <3>2. CASE j = i
      BY <1>1, <1>2, <1>4, <1>5, <3>2 DEF StandsInLevel, Ended, Lost
    <3>3. CASE j # i
      <4>1. status[j] # "running" /\ outbox # TaskStart(j)
        BY <1>4, <3>1, <3>3, Events DEF Running
      <4> QED BY <1>1, <1>2, <1>5, <3>1, <3>3, <4>1 DEF StandsInLevel, Ended
    <3> QED BY <3>2, <3>3
  <2> QED BY <1>1, <1>2, <1>3, <1>4, <2>1, StandsKept
<1>12. FailedIdsAreLost'
  BY <1>1, <1>2, <1>5, LostKept DEF Lost
<1> QED BY <1>5, <1>6, <1>7, <1>8, <1>10, <1>11, <1>12 DEF ControlInv

LEMMA LeaveLevelStep ==
    ASSUME ControlInv, LeaveLevel
    PROVE  ControlInv'
<1>1. /\ phase = "sequential" /\ outbox = NoEvent /\ sequential = {} /\ Running = {}
      /\ phase' = "between"
      /\ UNCHANGED <<vars, status, levelIdx, unfiltered, parallel, sequential,
                     unreported, failedTaskIds, completedCount, outbox, client, verdict>>
  BY DEF LeaveLevel, Resumed
<1>2. InLevel /\ ~InLevel' /\ Open /\ Open' /\ unfiltered = {}
  BY <1>1 DEF InLevel, Open, ControlInv, Placed
<1>3. UNCHANGED <<plan, inDegree, currentLevel, levels>>
  BY <1>1 DEF vars, sortVars
<1>4. levelIdx \in 1..Len(levels)
  BY <1>2, PlanFacts DEF ControlInv, Placed
<1>5. CurrentTasks' = {} /\ LeftTasks' = LeftTasks \cup CurrentTasks
  <2>1. LeftTasks' = UNION {Positions(k) : k \in 1..levelIdx}
    BY <1>1, <1>2, <1>3 DEF LeftTasks, LeftLevels, Positions
  <2>2. LeftTasks = UNION {Positions(k) : k \in 1..(levelIdx - 1)}
    BY <1>2 DEF LeftTasks, LeftLevels
  <2>3. 1..levelIdx = (1..(levelIdx - 1)) \cup {levelIdx}
    BY <1>4, PlanFacts
  <2>4. CurrentTasks = Positions(levelIdx)
    BY <1>2 DEF CurrentTasks
  <2> QED BY <1>2, <2>1, <2>2, <2>3, <2>4 DEF CurrentTasks
<1>6. \A i \in CurrentTasks : Ended(i)
  <2>1. \A i \in CurrentTasks : i \in DOMAIN plan /\ status[i] # "running" /\ outbox # TaskStart(i)
    BY <1>1, CurrentAndLeft, Events DEF Running
  <2>2. \A i \in CurrentTasks : StandsInLevel(i)
    BY <1>2 DEF ControlInv, Stands
  <2> QED BY <1>1, <1>2, <2>1, <2>2 DEF StandsInLevel
<1>7. EmittedInv'
  BY <1>3 DEF ControlInv, EmittedInv, EmittedOnce, NoneLeft, Emitted, TypeOK
<1>8. StreamTypeOK'
  BY <1>1, <1>3, <1>7 DEF ControlInv, StreamTypeOK, EmittedInv, Phase
<1>9. Placed'
  BY <1>1, <1>2, <1>3 DEF ControlInv, Placed
<1>10. Speaking'
  BY <1>1, <1>2, <1>3, Events DEF Speaking
<1>11. OneByOne' /\ FailedIdsAreLost'
  BY <1>1, <1>3 DEF ControlInv, OneByOne, FailedIdsAreLost
<1>12. Stands'
  <2>1. \A i \in LeftTasks \cup CurrentTasks : Ended(i)'
    BY <1>1, <1>2, <1>3, <1>6 DEF ControlInv, Stands, Ended
  <2>2. \A i \in DOMAIN plan \ (LeftTasks \cup CurrentTasks) : status[i] \in {"pending", "failed"}
    BY <1>2 DEF ControlInv, Stands
  <2> QED BY <1>1, <1>3, <1>5, <2>1, <2>2 DEF Stands
<1> QED BY <1>7, <1>8, <1>9, <1>10, <1>11, <1>12 DEF ControlInv

-----------------------------------------------------------------------------
(* The end of the stream, and the consumer.                                *)

LEMMA FinishStreamStep ==
    ASSUME ControlInv, FinishStream
    PROVE  ControlInv'
<1>1. /\ AtLevelBoundary /\ outbox = NoEvent /\ levelIdx = Len(levels)
      /\ outbox' = DoneEvent(StreamOutcome)
      /\ UNCHANGED <<vars, status, phase, levelIdx, unfiltered, parallel, sequential,
                     unreported, failedTaskIds, completedCount, client, verdict>>
  BY DEF FinishStream, Resumed
<1>2. ~InLevel /\ ~InLevel' /\ Open /\ Open' /\ (AtLevelBoundary)'
  BY <1>1 DEF InLevel, Open, AtLevelBoundary, Sorted, vars, sortVars
<1>3. /\ plan' = plan /\ levels' = levels /\ EmittedInv' /\ TypeOK'
      /\ CurrentTasks' = CurrentTasks /\ LeftTasks' = LeftTasks
  BY <1>1, <1>2, SameLevel
<1>4. StreamOutcome \in {"completed", "partial_failure"}
  BY DEF StreamOutcome
<1>5. StreamTypeOK'
  BY <1>1, <1>3, <1>4 DEF ControlInv, StreamTypeOK
<1>6. Placed'
  BY <1>1, <1>2, <1>3 DEF ControlInv, Placed
<1>7. Speaking'
  BY <1>1, <1>2, <1>3, Events DEF Speaking
<1>8. OneByOne' /\ FailedIdsAreLost'
  <2>1. phase # "sequential"
    BY <1>2 DEF InLevel
  <2> QED BY <1>1, <1>3, <2>1 DEF ControlInv, OneByOne, FailedIdsAreLost
<1>9. Stands'
  <2>1. CurrentTasks = {}
    BY <1>2 DEF CurrentTasks
  <2>2. \A i \in LeftTasks : Ended(i)'
    BY <1>1, <1>2, <1>3 DEF ControlInv, Stands, Ended
  <2>3. \A i \in DOMAIN plan \ (LeftTasks \cup CurrentTasks) : status[i] \in {"pending", "failed"}
    BY <1>2 DEF ControlInv, Stands
  <2> QED BY <1>1, <1>3, <2>1, <2>2, <2>3 DEF Stands
<1> QED BY <1>3, <1>5, <1>6, <1>7, <1>8, <1>9 DEF ControlInv

\* The three events a consumer may take.
DeliverStart(i) ==
    /\ outbox = TaskStart(i)
    /\ outbox' = NoEvent
    /\ status' = [status EXCEPT ![i] = "running"]
    /\ client' = [client EXCEPT ![i] = "running"]
    /\ UNCHANGED <<vars, phase, levelIdx, unfiltered, parallel, sequential, unreported,
                   failedTaskIds, completedCount, verdict>>

DeliverOutcome(i, s) ==
    /\ outbox = TaskDone(i, s)
    /\ outbox' = NoEvent
    /\ client' = [client EXCEPT ![i] = s]
    /\ UNCHANGED <<vars, status, phase, levelIdx, unfiltered, parallel, sequential,
                   unreported, failedTaskIds, completedCount, verdict>>

DeliverEnd(v) ==
    /\ outbox = DoneEvent(v)
    /\ outbox' = NoEvent
    /\ phase' = "closed"
    /\ verdict' = v
    /\ UNCHANGED <<vars, status, levelIdx, unfiltered, parallel, sequential,
                   unreported, failedTaskIds, completedCount, client>>

LEMMA DeliverCases ==
    ASSUME ControlInv, Deliver
    PROVE  \/ \E i \in DOMAIN plan : DeliverStart(i)
           \/ \E i \in DOMAIN plan, s \in Status : DeliverOutcome(i, s)
           \/ \E v \in {"completed", "partial_failure"} : DeliverEnd(v)
<1>1. outbox.type \in {"task_start", "task_done", "done"}
  BY DEF Deliver
<1>2. outbox # NoEvent
  BY <1>1, Events
<1>3. outbox \in {TaskStart(i) : i \in DOMAIN plan}
                  \cup {TaskDone(i, s) : i \in DOMAIN plan, s \in Status}
                  \cup {DoneEvent(v) : v \in {"completed", "partial_failure"}}
  BY <1>2 DEF ControlInv, StreamTypeOK
<1>4. CASE outbox \in {TaskStart(i) : i \in DOMAIN plan}
  <2>1. PICK i \in DOMAIN plan : outbox = TaskStart(i)
    BY <1>4
  <2>2. outbox.type = "task_start" /\ outbox.task = i
    BY <2>1, Events
  <2>3. DeliverStart(i)
    BY <2>1, <2>2 DEF Deliver, DeliverStart
  <2> QED BY <2>3
<1>5. CASE outbox \in {TaskDone(i, s) : i \in DOMAIN plan, s \in Status}
  <2>1. PICK i \in DOMAIN plan, s \in Status : outbox = TaskDone(i, s)
    BY <1>5
  <2>2. outbox.type = "task_done" /\ outbox.task = i /\ outbox.status = s
    BY <2>1, Events
  <2>3. DeliverOutcome(i, s)
    BY <2>1, <2>2 DEF Deliver, DeliverOutcome
  <2> QED BY <2>3
<1>6. CASE outbox \in {DoneEvent(v) : v \in {"completed", "partial_failure"}}
  <2>1. PICK v \in {"completed", "partial_failure"} : outbox = DoneEvent(v)
    BY <1>6
  <2>2. outbox.type = "done" /\ outbox.status = v
    BY <2>1, Events
  <2>3. DeliverEnd(v)
    BY <2>1, <2>2 DEF Deliver, DeliverEnd
  <2> QED BY <2>3
<1> QED BY <1>3, <1>4, <1>5, <1>6

LEMMA DeliverStartStep ==
    ASSUME ControlInv, NEW i \in DOMAIN plan, DeliverStart(i)
    PROVE  ControlInv'
<1>1. /\ outbox = TaskStart(i) /\ outbox' = NoEvent
      /\ UNCHANGED <<vars, phase, levelIdx, unfiltered, parallel, sequential, unreported,
                     failedTaskIds, completedCount, verdict>>
  BY DEF DeliverStart
<1>2. /\ status' \in [DOMAIN plan -> Status]
      /\ status'[i] = "running"
      /\ \A j \in DOMAIN plan : j # i => status'[j] = status[j]
      /\ client' \in [DOMAIN plan -> Status \cup {"none"}]
  BY DEF DeliverStart, ControlInv, StreamTypeOK, Status
<1>3. /\ status[i] = "pending"
      /\ \/ phase = "announce" /\ i \in parallel
         \/ phase = "sequential" /\ Running = {} /\ i \in CurrentTasks \ (sequential \cup parallel)
  BY <1>1 DEF ControlInv, Speaking
<1>4. InLevel /\ InLevel' /\ Open /\ Open' /\ i \in CurrentTasks
  BY <1>1, <1>3 DEF InLevel, Open, ControlInv, Placed
<1>5. /\ plan' = plan /\ levels' = levels /\ EmittedInv' /\ TypeOK'
      /\ CurrentTasks' = CurrentTasks /\ LeftTasks' = LeftTasks
  BY <1>1, <1>4, SameLevel
<1>6. StreamTypeOK'
  BY <1>1, <1>2, <1>5 DEF ControlInv, StreamTypeOK
<1>7. Placed'
  BY <1>1, <1>4, <1>5 DEF ControlInv, Placed
<1>8. Speaking'
  BY <1>1, <1>4, <1>5, Events DEF Speaking
<1>9. OneByOne'
  <2>1. ASSUME phase = "sequential"
        PROVE  Running' = {i}
    BY <1>2, <1>3, <1>5, <2>1 DEF Running
  <2> QED BY <1>1, <2>1 DEF OneByOne, Resumed
<1>10. ASSUME NEW j \in CurrentTasks
       PROVE  StandsInLevel(j)'
  <2>1. StandsInLevel(j) /\ j \in DOMAIN plan
    BY <1>4, CurrentAndLeft DEF ControlInv, Stands
  <2>2. CASE j = i
    BY <1>1, <1>2, <1>3, <2>2 DEF StandsInLevel
  <2>3. CASE j # i
    BY <1>1, <1>2, <1>5, <2>1, <2>3, Events DEF StandsInLevel, Ended
  <2> QED BY <2>2, <2>3
<1>11. Stands'
  BY <1>1, <1>2, <1>4, <1>10, StandsKept
<1>12. FailedIdsAreLost'
  <2>1. \A j \in DOMAIN plan : status[j] \in Lost => status'[j] \in Lost
    BY <1>2, <1>3 DEF Lost
  <2> QED BY <1>1, <1>5, <2>1, LostKept
<1> QED BY <1>5, <1>6, <1>7, <1>8, <1>9, <1>11, <1>12 DEF ControlInv

LEMMA DeliverOutcomeStep ==
    ASSUME ControlInv, NEW i \in DOMAIN plan, NEW s \in Status, DeliverOutcome(i, s)
    PROVE  ControlInv'
<1>1. /\ outbox = TaskDone(i, s) /\ outbox' = NoEvent
      /\ UNCHANGED <<vars, status, phase, levelIdx, unfiltered, parallel, sequential,
                     unreported, failedTaskIds, completedCount, verdict>>
  BY DEF DeliverOutcome
<1>2. client' \in [DOMAIN plan -> Status \cup {"none"}]
  BY DEF DeliverOutcome, ControlInv, StreamTypeOK
<1>3. phase \in {"filter", "report", "sequential"}
  BY <1>1 DEF ControlInv, Speaking
<1>4. InLevel /\ InLevel' /\ Open /\ Open'
  BY <1>1, <1>3 DEF InLevel, Open
<1>5. /\ plan' = plan /\ levels' = levels /\ EmittedInv' /\ TypeOK'
      /\ CurrentTasks' = CurrentTasks /\ LeftTasks' = LeftTasks
  BY <1>1, <1>4, SameLevel
<1>6. StreamTypeOK'
  BY <1>1, <1>2, <1>5 DEF ControlInv, StreamTypeOK
<1>7. Placed'
  BY <1>1, <1>4, <1>5 DEF ControlInv, Placed
<1>8. Speaking'
  BY <1>1, <1>4, <1>5, Events DEF Speaking
<1>9. OneByOne'
  BY <1>1, <1>5 DEF ControlInv, OneByOne, Resumed, Running
<1>10. ASSUME NEW j \in CurrentTasks
       PROVE  StandsInLevel(j)'
  <2>1. StandsInLevel(j) /\ outbox # TaskStart(j)
    BY <1>1, <1>4, Events DEF ControlInv, Stands
  <2> QED BY <1>1, <1>5, <2>1 DEF StandsInLevel, Ended
<1>11. Stands'
  BY <1>1, <1>4, <1>10, StandsKept
<1>12. FailedIdsAreLost'
  BY <1>1, <1>5, LostKept
<1> QED BY <1>5, <1>6, <1>7, <1>8, <1>9, <1>11, <1>12 DEF ControlInv

(* Once the generator is closed, nothing is left to show but the types.    *)
LEMMA ClosingStep ==
    ASSUME ControlInv, phase' = "closed", outbox' = NoEvent, unfiltered' = {},
           verdict' \in {"completed", "partial_failure", "abandoned"},
           UNCHANGED <<vars, status, levelIdx, parallel, sequential, unreported,
                       failedTaskIds, completedCount, client>>
    PROVE  ControlInv'
<1>1. UNCHANGED <<plan, inDegree, currentLevel, levels>> /\ ~InLevel' /\ ~Open'
  BY DEF vars, sortVars, InLevel, Open
<1>2. EmittedInv'
  BY <1>1 DEF ControlInv, EmittedInv, EmittedOnce, NoneLeft, Emitted, TypeOK
<1>3. StreamTypeOK'
  BY <1>1, <1>2 DEF ControlInv, StreamTypeOK, EmittedInv, Phase
<1>4. Placed'
  BY <1>1 DEF ControlInv, Placed
<1>5. Speaking'
  BY <1>1, Events DEF Speaking
<1>6. OneByOne' /\ Stands' /\ FailedIdsAreLost'
  BY <1>1 DEF ControlInv, OneByOne, Stands, FailedIdsAreLost
<1> QED BY <1>2, <1>3, <1>4, <1>5, <1>6 DEF ControlInv

LEMMA DeliverStep ==
    ASSUME ControlInv, Deliver
    PROVE  ControlInv'
<1>1. CASE \E i \in DOMAIN plan : DeliverStart(i)
  BY <1>1, DeliverStartStep
<1>2. CASE \E i \in DOMAIN plan, s \in Status : DeliverOutcome(i, s)
  BY <1>2, DeliverOutcomeStep
<1>3. CASE \E v \in {"completed", "partial_failure"} : DeliverEnd(v)
  <2>1. PICK v \in {"completed", "partial_failure"} : DeliverEnd(v)
    BY <1>3
  <2>2. AtLevelBoundary
    BY <2>1 DEF DeliverEnd, ControlInv, Speaking
  <2>3. unfiltered = {}
    BY <2>2 DEF AtLevelBoundary, ControlInv, Placed
  <2> QED BY <2>1, <2>3, ClosingStep DEF DeliverEnd
<1> QED BY <1>1, <1>2, <1>3, DeliverCases

LEMMA AbandonStep ==
    ASSUME ControlInv, Abandon
    PROVE  ControlInv'
BY ClosingStep DEF Abandon

LEMMA ControlStutter ==
    ASSUME ControlInv, UNCHANGED allVars
    PROVE  ControlInv'
<1>1. UNCHANGED <<plan, inDegree, currentLevel, levels, status, phase, levelIdx, unfiltered,
                  parallel, sequential, unreported, failedTaskIds, completedCount, outbox,
                  client, verdict>>
  BY DEF allVars, vars, sortVars, streamVars
<1>2. EmittedInv' /\ StreamTypeOK' /\ Placed' /\ FailedIdsAreLost'
  BY <1>1 DEF ControlInv, EmittedInv, EmittedOnce, NoneLeft, Emitted, TypeOK, StreamTypeOK, Placed,
              FailedIdsAreLost, InLevel, Open, CurrentTasks, Positions
<1>3. Speaking' /\ OneByOne'
  BY <1>1 DEF ControlInv, Speaking, OneByOne, Running, Resumed, AtLevelBoundary, Sorted,
              InLevel, Open, CurrentTasks, Positions
<1>4. Stands'
  BY <1>1 DEF ControlInv, Stands, StandsInLevel, Ended, InLevel, Open, CurrentTasks,
              LeftTasks, LeftLevels, Positions
<1> QED BY <1>2, <1>3, <1>4 DEF ControlInv

LEMMA ControlStep ==
    ASSUME ControlInv, [StreamNext]_allVars
    PROVE  ControlInv'
<1>1. CASE Sort \/ EnterLevel \/ Dispatch
  BY <1>1, SortStep, EnterLevelStep, DispatchStep
<1>2. CASE Filter
  BY <1>2, SkipFailedStep, CancelDependentStep, AdmitStep DEF Filter
<1>3. CASE RunParallel
  BY <1>3, AnnounceStep, FinishParallelStep, ReportStep DEF RunParallel
<1>4. CASE Gather \/ GatherReturns \/ AllReported
  BY <1>4, GatherStep, GatherReturnsStep, AllReportedStep
<1>5. CASE RunSequential
  BY <1>5, AnnounceNextStep, FinishSequentialStep DEF RunSequential
<1>6. CASE LeaveLevel \/ FinishStream \/ Deliver \/ Abandon
  BY <1>6, LeaveLevelStep, FinishStreamStep, DeliverStep, AbandonStep
<1>7. CASE UNCHANGED allVars
  BY <1>7, ControlStutter
<1> QED BY <1>1, <1>2, <1>3, <1>4, <1>5, <1>6, <1>7 DEF StreamNext

LEMMA ControlInvariant == StreamSpec => []ControlInv
BY ControlInit, ControlStep, PTL DEF StreamSpec

(* A step that closes the generator, and every step after that, leaves the *)
(* statuses and what the client was told as they are.                      *)
LEMMA ClosedIsFrozen ==
    ASSUME ControlInv, [StreamNext]_allVars, ~Open'
    PROVE  /\ UNCHANGED <<plan, status, client>>
           /\ ~Open => UNCHANGED verdict
           /\ Open => verdict' = "abandoned" \/ \E v \in {"completed", "partial_failure"} : DeliverEnd(v)
<1>1. phase' = "closed"
  BY DEF Open
<1>2. CASE ~Open
  <2>1. outbox = NoEvent /\ unfiltered = {} /\ phase = "closed"
    BY <1>2 DEF ControlInv, Placed, Speaking, Open
  <2>2. ~Deliver
    BY <2>1, Events DEF Deliver
  <2> QED
    BY <1>2, <2>1, <2>2 DEF StreamNext, Sort, EnterLevel, AtLevelBoundary, Filter, SkipFailed,
       CancelDependent, Admit, Dispatch, RunParallel, Announce, FinishParallel, Report, Gather,
       GatherReturns, AllReported, RunSequential, AnnounceNext, FinishSequential, LeaveLevel,
       FinishStream, Abandon, Resumed, allVars, vars, sortVars, streamVars
<1>3. CASE Open
  <2>1. Deliver \/ Abandon
    <3>1. phase # "closed" /\ (\A i \in DOMAIN plan : i \in unfiltered => phase = "filter")
      BY <1>3 DEF Open, ControlInv, Placed
    <3>2. ~Sort /\ ~EnterLevel /\ ~Dispatch /\ ~Gather /\ ~GatherReturns /\ ~AllReported
          /\ ~LeaveLevel /\ ~FinishStream /\ ~(UNCHANGED allVars)
      BY <1>1, <3>1 DEF Sort, EnterLevel, Dispatch, Gather, GatherReturns, AllReported,
         LeaveLevel, FinishStream, allVars, streamVars
    <3>3. ~Filter
      BY <1>1, <3>1 DEF Filter, SkipFailed, CancelDependent, Admit
    <3>4. ~RunParallel /\ ~RunSequential
      BY <1>1, <3>1 DEF RunParallel, Announce, FinishParallel, Report, RunSequential,
         AnnounceNext, FinishSequential
    <3> QED BY <3>2, <3>3, <3>4 DEF StreamNext
  <2>2. CASE Deliver
    <3>1. \E v \in {"completed", "partial_failure"} : DeliverEnd(v)
      BY <1>1, <1>3, <2>2, DeliverCases DEF DeliverStart, DeliverOutcome, Open
    <3> QED BY <1>3, <3>1 DEF DeliverEnd, vars, sortVars
  <2>3. CASE Abandon
    BY <1>3, <2>3 DEF Abandon, vars, sortVars
  <2> QED BY <2>1, <2>2, <2>3
<1> QED BY <1>2, <1>3

(* A closed generator stays closed.                                        *)
LEMMA ClosedStays ==
    ASSUME ControlInv, [StreamNext]_allVars, ~Open
    PROVE  ~Open'
<1>1. outbox = NoEvent /\ unfiltered = {} /\ phase = "closed"
  BY DEF ControlInv, Placed, Speaking, Open
<1>2. ~Deliver
  BY <1>1, Events DEF Deliver
<1> QED
  BY <1>1, <1>2 DEF StreamNext, Sort, EnterLevel, AtLevelBoundary, Filter, SkipFailed,
     CancelDependent, Admit, Dispatch, RunParallel, Announce, FinishParallel, Report, Gather,
     GatherReturns, AllReported, RunSequential, AnnounceNext, FinishSequential, LeaveLevel,
     FinishStream, Abandon, Resumed, allVars, streamVars, Open

-----------------------------------------------------------------------------
(* The theorems about the control of the generator.                        *)

\* Every run of the generator keeps the types of its variables, whatever the
\* plan, also one that names an id twice, the skills and the failures.
THEOREM StreamTypesHold == StreamSpec => []StreamTypeOK
<1>1. ControlInv => StreamTypeOK
  BY DEF ControlInv
<1> QED BY <1>1, ControlInvariant, PTL

LEMMA OpenRunsSafely ==
    ASSUME ControlInv, Open
    PROVE  UnsafeRunsAlone
<1> SUFFICES ASSUME NEW i \in Running, plan[i].id \notin ConcurrencySafe
             PROVE  Running = {i}
  BY DEF UnsafeRunsAlone
<1>1. i \notin parallel
  BY DEF ControlInv, Placed
<1>2. phase = "sequential"
  BY <1>1, RunningStand
<1> QED BY <1>2 DEF ControlInv, OneByOne

\* process_request_stream never runs a task whose skill is not concurrency_safe
\* while another task of the request runs, even when the plan names an id twice
\* or the client goes away in the middle of a level.
THEOREM UnsafeAlone == StreamSpec => []UnsafeRunsAlone
<1>1. StreamInit => UnsafeRunsAlone
  BY DEF StreamInit, UnsafeRunsAlone, Running
<1>2. ControlInv /\ Open => UnsafeRunsAlone
  BY OpenRunsSafely
<1>3. ControlInv /\ UnsafeRunsAlone /\ [StreamNext]_allVars /\ ~Open' => UnsafeRunsAlone'
  BY ClosedIsFrozen DEF UnsafeRunsAlone, Running
<1> QED BY <1>1, <1>2, <1>3, ControlInvariant, PTL DEF StreamSpec

-----------------------------------------------------------------------------
(* Stories.                                                                *)

AboutIn(event, i) == event = TaskStart(i) \/ \E s \in Status : event = TaskDone(i, s)
About(i) == AboutIn(outbox, i)

\* The parallel tasks whose end the client still has to be told of.
Awaiting(i) ==
    /\ InLevel
    /\ i \in parallel
    /\ phase = "gather" \/ (phase = "report" /\ i \in unreported)

\* Not started; running; ended in a gather; its end on its way to the client;
\* cancelled, the same; ended and told.
Story(i) ==
    \/ status[i] \in {"pending", "failed"} /\ client[i] = "none" /\ (About(i) => outbox = TaskStart(i))
    \/ status[i] = "running" /\ client[i] = "running" /\ ~About(i)
    \/ status[i] \in {"completed", "failed"} /\ client[i] = "running" /\ ~About(i) /\ Awaiting(i)
    \/ status[i] \in {"completed", "failed"} /\ client[i] = "running" /\ outbox = TaskDone(i, status[i])
    \/ status[i] = "cancelled" /\ client[i] = "none" /\ outbox = TaskDone(i, status[i])
    \/ status[i] \in {"completed", "failed", "cancelled"} /\ client[i] = status[i] /\ ~About(i)

\* The parallel tasks were announced and have not been reported yet.
Awaited ==
    /\ phase = "gather" => \A i \in parallel : client[i] = "running"
    /\ phase = "report" => \A i \in unreported : client[i] = "running" /\ ~About(i) /\ status[i] # "running"

Stories == \A i \in DOMAIN plan : Story(i)

StoryInv ==
    /\ ControlInv
    /\ Open => verdict = "open" /\ Stories /\ Awaited

(* Each event is about one task at most.                                   *)
LEMMA AboutOne ==
    /\ \A i : ~AboutIn(NoEvent, i)
    /\ \A v, i : ~AboutIn(DoneEvent(v), i)
    /\ \A i, j : AboutIn(TaskStart(i), j) => j = i
    /\ \A i, j, s : AboutIn(TaskDone(i, s), j) => j = i
BY Events DEF AboutIn

LEMMA AboutWhen ==
    ASSUME ControlInv, NEW i \in DOMAIN plan, About(i)
    PROVE  phase \in {"filter", "announce", "report", "sequential"} /\ i \in CurrentTasks
<1>1. CASE outbox = TaskStart(i)
  <2>1. \/ phase = "announce" /\ i \in parallel
        \/ phase = "sequential" /\ i \in CurrentTasks
    BY <1>1 DEF ControlInv, Speaking
  <2> QED BY <2>1 DEF ControlInv, Placed, InLevel
<1>2. CASE \E s \in Status : outbox = TaskDone(i, s)
  BY <1>2 DEF ControlInv, Speaking
<1> QED BY <1>1, <1>2 DEF About, AboutIn

(* The story of a task that a step does not touch goes on.                 *)
LEMMA StoryKept ==
    ASSUME NEW i, Story(i), ~About(i), ~About(i)',
           status'[i] = status[i], client'[i] = client[i], Awaiting(i) => Awaiting(i)'
    PROVE  Story(i)'
<1>1. ~(outbox = TaskDone(i, status[i]) /\ status[i] \in Status)
  BY DEF About, AboutIn
<1> QED BY <1>1 DEF Story, Status

LEMMA StoryInit == StreamInit => StoryInv
<1> SUFFICES ASSUME StreamInit PROVE StoryInv
  OBVIOUS
<1>1. ControlInv
  BY ControlInit
<1>2. \A i \in DOMAIN plan : ~About(i)
  BY AboutOne DEF StreamInit, About
<1>3. \A i \in DOMAIN plan : status[i] \in {"pending", "failed"} /\ client[i] = "none"
  BY DEF StreamInit
<1>4. Stories
  BY <1>2, <1>3 DEF Stories, Story
<1> QED BY <1>1, <1>4 DEF StoryInv, StreamInit, Awaited

\* What most steps have in common: only the generator moves.
Moves ==
    /\ Open /\ Open'
    /\ UNCHANGED <<plan, status, client, verdict>>
    /\ outbox' = outbox
    /\ \A i \in DOMAIN plan : Awaiting(i) => Awaiting(i)'

LEMMA MoveStep ==
    ASSUME StoryInv, Moves, ControlInv', Awaited'
    PROVE  StoryInv'
<1>1. \A i \in DOMAIN plan : Story(i) => Story(i)'
  BY DEF Moves, Story, About
<1> QED BY <1>1 DEF StoryInv, Moves, Stories

(* Before a gather nobody is waited for, and after it everybody was told.  *)
LEMMA MovesOutside ==
    ASSUME StoryInv, phase \notin {"gather", "report", "closed"}, phase' \notin {"gather", "report", "closed"},
           ControlInv', UNCHANGED <<plan, status, client, verdict, outbox>>
    PROVE  StoryInv'
<1>1. \A i \in DOMAIN plan : ~Awaiting(i)
  BY DEF Awaiting
<1>2. Awaited'
  BY DEF Awaited
<1> QED BY <1>1, <1>2, MoveStep DEF Moves, Open

\* A step that says something about the task i and leaves the others alone.
Speaks(i) ==
    /\ Open /\ Open'
    /\ UNCHANGED <<plan, verdict>>
    /\ \A j \in DOMAIN plan : j # i => /\ status'[j] = status[j] /\ client'[j] = client[j]
                                       /\ ~About(j) /\ ~About(j)'
                                       /\ Awaiting(j) => Awaiting(j)'

LEMMA SpeakStep ==
    ASSUME StoryInv, NEW i \in DOMAIN plan, Speaks(i), Story(i)', ControlInv', Awaited'
    PROVE  StoryInv'
<1>1. ASSUME NEW j \in DOMAIN plan, j # i
      PROVE  Story(j)'
  BY <1>1, StoryKept DEF StoryInv, Speaks, Stories
<1> QED BY <1>1 DEF StoryInv, Speaks, Stories

-----------------------------------------------------------------------------
(* The steps.                                                              *)

LEMMA CancelTold ==
    ASSUME StoryInv, NEW i \in DOMAIN plan, CancelDependent(i), ControlInv'
    PROVE  StoryInv'
<1>1. /\ outbox = NoEvent /\ outbox' = TaskDone(i, "cancelled") /\ i \in unfiltered /\ status[i] # "failed"
      /\ status' = [status EXCEPT ![i] = "cancelled"]
      /\ UNCHANGED <<vars, phase, parallel, unreported, client, verdict>>
  BY DEF CancelDependent, Resumed
<1>2. phase = "filter" /\ Open /\ Open' /\ status[i] = "pending" /\ plan' = plan
  BY <1>1, FilterFrame DEF StoryInv, Open, vars
<1>3. status'[i] = "cancelled" /\ \A j \in DOMAIN plan : j # i => status'[j] = status[j]
  BY <1>1 DEF StoryInv, ControlInv, StreamTypeOK
<1>4. /\ \A j : ~About(j)
      /\ \A j : j # i => ~About(j)'
      /\ \A j : ~Awaiting(j)
  BY <1>1, <1>2, AboutOne DEF About, Awaiting
<1>5. Speaks(i)
  BY <1>1, <1>2, <1>3, <1>4 DEF Speaks
<1>6. client[i] = "none"
  BY <1>2, <1>4 DEF StoryInv, Stories, Story
<1>7. Story(i)'
  BY <1>1, <1>3, <1>6 DEF Story
<1> QED BY <1>1, <1>2, <1>5, <1>7, SpeakStep DEF Awaited

LEMMA AnnounceTold ==
    ASSUME StoryInv, NEW i \in DOMAIN plan, ControlInv', phase \in {"announce", "sequential"},
           outbox = NoEvent, outbox' = TaskStart(i), status[i] = "pending",
           UNCHANGED <<vars, status, phase, client, verdict>>
    PROVE  StoryInv'
<1>1. Open /\ Open' /\ plan' = plan
  BY DEF Open, vars
<1>2. /\ \A j : ~About(j)
      /\ \A j : j # i => ~About(j)'
      /\ \A j : ~Awaiting(j)
  BY AboutOne DEF About, Awaiting
<1>3. Speaks(i)
  BY <1>1, <1>2 DEF Speaks
<1>4. client[i] = "none"
  BY <1>1, <1>2 DEF StoryInv, Stories, Story
<1>5. Story(i)'
  BY <1>4 DEF Story
<1> QED BY <1>3, <1>5, SpeakStep DEF Awaited

LEMMA GatherTold ==
    ASSUME StoryInv, Gather, ControlInv'
    PROVE  StoryInv'
<1>1. /\ phase = "announce" /\ phase' = "gather" /\ parallel \subseteq Running
      /\ UNCHANGED <<vars, status, parallel, outbox, client, verdict>>
  BY DEF Gather
<1>2. Open /\ Open' /\ plan' = plan /\ \A j : ~Awaiting(j)
  BY <1>1 DEF Open, vars, Awaiting
<1>3. \A j \in parallel : client[j] = "running"
  BY <1>1, <1>2 DEF StoryInv, Stories, Story, Running
<1>4. Awaited'
  BY <1>1, <1>3 DEF Awaited
<1> QED BY <1>1, <1>2, <1>4, MoveStep DEF Moves

LEMMA FinishParallelTold ==
    ASSUME StoryInv, NEW i \in DOMAIN plan, FinishParallel(i), ControlInv'
    PROVE  StoryInv'
<1>1. /\ phase = "gather" /\ status[i] = "running"
      /\ UNCHANGED <<vars, phase, parallel, unreported, outbox, client, verdict>>
  BY DEF FinishParallel
<1>2. status'[i] \in {"completed", "failed"} /\ \A j \in DOMAIN plan : j # i => status'[j] = status[j]
  BY DEF FinishParallel, StoryInv, ControlInv, StreamTypeOK
<1>3. InLevel /\ InLevel' /\ Open /\ Open' /\ plan' = plan /\ i \in Running
  BY <1>1 DEF InLevel, Open, vars, Running
<1>4. i \in parallel
  BY <1>1, <1>3, RunningStand DEF StoryInv
<1>5. outbox = NoEvent
  BY <1>1, GatherIsQuiet DEF StoryInv
<1>6. \A j : ~About(j) /\ ~About(j)' /\ (Awaiting(j) => Awaiting(j)')
  BY <1>1, <1>3, <1>5, AboutOne DEF About, Awaiting
<1>7. Speaks(i)
  BY <1>1, <1>2, <1>3, <1>6 DEF Speaks
<1>8. client[i] = "running"
  BY <1>1, <1>3, <1>4 DEF StoryInv, Awaited
<1>9. Awaiting(i)'
  BY <1>1, <1>3, <1>4 DEF Awaiting
<1>10. Story(i)'
  BY <1>1, <1>2, <1>6, <1>8, <1>9 DEF Story
<1>11. Awaited'
  BY <1>1, <1>3 DEF StoryInv, Awaited
<1> QED BY <1>7, <1>10, <1>11, SpeakStep

LEMMA GatherReturnsTold ==
    ASSUME StoryInv, GatherReturns, ControlInv'
    PROVE  StoryInv'
<1>1. /\ phase = "gather" /\ Running = {} /\ phase' = "report" /\ unreported' = parallel
      /\ UNCHANGED <<vars, status, parallel, outbox, client, verdict>>
  BY DEF GatherReturns, GatherDone, ToReport
<1>2. InLevel /\ InLevel' /\ Open /\ Open' /\ plan' = plan
  BY <1>1 DEF InLevel, Open, vars
<1>3. outbox = NoEvent
  BY <1>1, GatherIsQuiet DEF StoryInv
<1>4. \A j : ~About(j)'
  BY <1>1, <1>3, AboutOne DEF About
<1>5. \A j \in parallel : client[j] = "running" /\ status[j] # "running"
  BY <1>1, <1>2 DEF StoryInv, ControlInv, StreamTypeOK, Awaited, Running
<1>6. Awaited'
  BY <1>1, <1>4, <1>5 DEF Awaited
<1>7. \A j : Awaiting(j) => Awaiting(j)'
  BY <1>1, <1>2 DEF Awaiting
<1> QED BY <1>1, <1>2, <1>6, <1>7, MoveStep DEF Moves

LEMMA ReportTold ==
    ASSUME StoryInv, NEW i \in DOMAIN plan, Report(i), ControlInv'
    PROVE  StoryInv'
<1>1. /\ phase = "report" /\ outbox = NoEvent /\ i \in unreported
      /\ unreported' = unreported \ {i} /\ outbox' = TaskDone(i, status[i])
      /\ UNCHANGED <<vars, status, phase, parallel, client, verdict>>
  BY DEF Report, Resumed
<1>2. InLevel /\ InLevel' /\ Open /\ Open' /\ plan' = plan
  BY <1>1 DEF InLevel, Open, vars
<1>3. /\ \A j : ~About(j)
      /\ \A j : j # i => ~About(j)' /\ (Awaiting(j) => Awaiting(j)')
  BY <1>1, <1>2, AboutOne DEF About, Awaiting
<1>4. Speaks(i)
  BY <1>1, <1>2, <1>3 DEF Speaks
<1>5. client[i] = "running" /\ status[i] # "running"
  BY <1>1, <1>2 DEF StoryInv, Awaited
<1>6. status[i] \in {"completed", "failed"}
  BY <1>2, <1>5 DEF StoryInv, Stories, Story
<1>7. Story(i)'
  BY <1>1, <1>5, <1>6 DEF Story
<1>8. Awaited'
  BY <1>1, <1>2, <1>3 DEF StoryInv, Awaited
<1> QED BY <1>4, <1>7, <1>8, SpeakStep

LEMMA AllReportedTold ==
    ASSUME StoryInv, AllReported, ControlInv'
    PROVE  StoryInv'
<1>1. /\ phase = "report" /\ phase' = "sequential" /\ unreported = {}
      /\ UNCHANGED <<vars, status, outbox, client, verdict>>
  BY DEF AllReported
<1>2. Open /\ Open' /\ plan' = plan /\ Awaited' /\ \A j : ~Awaiting(j)
  BY <1>1 DEF Open, vars, Awaited, Awaiting
<1> QED BY <1>1, <1>2, MoveStep DEF Moves

LEMMA FinishSequentialTold ==
    ASSUME StoryInv, NEW i \in DOMAIN plan, FinishSequential(i), ControlInv'
    PROVE  StoryInv'
<1>1. /\ phase = "sequential" /\ status[i] = "running" /\ outbox' = TaskDone(i, status'[i])
      /\ UNCHANGED <<vars, phase, client, verdict>>
  BY DEF FinishSequential
<1>2. status'[i] \in {"completed", "failed"} /\ \A j \in DOMAIN plan : j # i => status'[j] = status[j]
  BY DEF FinishSequential, StoryInv, ControlInv, StreamTypeOK
<1>3. Open /\ Open' /\ plan' = plan /\ i \in Running
  BY <1>1 DEF Open, vars, Running
<1>4. outbox = NoEvent
  BY <1>1, <1>3 DEF StoryInv, ControlInv, OneByOne, Resumed
<1>5. /\ \A j : ~About(j)
      /\ \A j : j # i => ~About(j)'
      /\ \A j : ~Awaiting(j)
  BY <1>1, <1>4, AboutOne DEF About, Awaiting
<1>6. Speaks(i)
  BY <1>1, <1>2, <1>3, <1>5 DEF Speaks
<1>7. client[i] = "running"
  BY <1>1, <1>3 DEF StoryInv, Stories, Story
<1>8. Story(i)'
  BY <1>1, <1>2, <1>7 DEF Story
<1>9. Awaited'
  BY <1>1 DEF Awaited
<1> QED BY <1>6, <1>8, <1>9, SpeakStep

LEMMA FinishStreamTold ==
    ASSUME StoryInv, FinishStream, ControlInv'
    PROVE  StoryInv'
<1>1. /\ AtLevelBoundary /\ outbox = NoEvent /\ outbox' = DoneEvent(StreamOutcome)
      /\ UNCHANGED <<vars, status, phase, client, verdict>>
  BY DEF FinishStream, Resumed
<1>2. Open /\ Open' /\ plan' = plan /\ Awaited' /\ \A j : ~Awaiting(j)
  BY <1>1 DEF Open, vars, Awaited, Awaiting, AtLevelBoundary
<1>3. \A j : ~About(j) /\ ~About(j)'
  BY <1>1, AboutOne DEF About
<1>4. ASSUME NEW j \in DOMAIN plan
      PROVE  Story(j)'
  BY <1>1, <1>2, <1>3, StoryKept DEF StoryInv, Stories
<1> QED BY <1>1, <1>2, <1>4 DEF StoryInv, Stories

LEMMA DeliverStartTold ==
    ASSUME StoryInv, NEW i \in DOMAIN plan, DeliverStart(i), ControlInv'
    PROVE  StoryInv'
<1>1. /\ outbox = TaskStart(i) /\ outbox' = NoEvent
      /\ UNCHANGED <<vars, phase, parallel, unreported, verdict>>
  BY DEF DeliverStart
<1>2. /\ status'[i] = "running" /\ client'[i] = "running"
      /\ \A j \in DOMAIN plan : j # i => status'[j] = status[j] /\ client'[j] = client[j]
  BY DEF DeliverStart, StoryInv, ControlInv, StreamTypeOK
<1>3. phase \in {"announce", "sequential"}
  BY <1>1 DEF StoryInv, ControlInv, Speaking
<1>4. Open /\ Open' /\ plan' = plan /\ Awaited' /\ \A j : ~Awaiting(j)
  BY <1>1, <1>3 DEF Open, vars, Awaited, Awaiting
<1>5. /\ \A j : j # i => ~About(j)
      /\ \A j : ~About(j)'
  BY <1>1, AboutOne DEF About
<1>6. Speaks(i)
  BY <1>1, <1>2, <1>4, <1>5 DEF Speaks
<1>7. Story(i)'
  BY <1>2, <1>5 DEF Story
<1> QED BY <1>4, <1>6, <1>7, SpeakStep

LEMMA DeliverOutcomeTold ==
    ASSUME StoryInv, NEW i \in DOMAIN plan, NEW s \in Status, DeliverOutcome(i, s), ControlInv'
    PROVE  StoryInv'
<1>1. /\ outbox = TaskDone(i, s) /\ outbox' = NoEvent
      /\ UNCHANGED <<vars, status, phase, parallel, unreported, verdict>>
  BY DEF DeliverOutcome
<1>2. client'[i] = s /\ \A j \in DOMAIN plan : j # i => client'[j] = client[j]
  BY DEF DeliverOutcome, StoryInv, ControlInv, StreamTypeOK
<1>3. s = status[i] /\ phase \in {"filter", "report", "sequential"}
  BY <1>1 DEF StoryInv, ControlInv, Speaking
<1>4. Open /\ Open' /\ plan' = plan /\ InLevel /\ InLevel'
  BY <1>1, <1>3 DEF Open, vars, InLevel
<1>5. /\ About(i)
      /\ \A j : j # i => ~About(j)
      /\ \A j : ~About(j)'
  BY <1>1, AboutOne DEF About, AboutIn
<1>6. \A j : Awaiting(j) => Awaiting(j)'
  BY <1>1, <1>4 DEF Awaiting
<1>7. Speaks(i)
  BY <1>1, <1>2, <1>4, <1>5, <1>6 DEF Speaks
<1>8. status[i] \in {"completed", "failed", "cancelled"}
  BY <1>1, <1>4, <1>5, Events DEF StoryInv, Stories, Story
<1>9. Story(i)'
  BY <1>1, <1>2, <1>3, <1>5, <1>8 DEF Story
<1>10. Awaited'
  <2>1. phase = "report" => i \notin unreported
    BY <1>4, <1>5 DEF StoryInv, Awaited
  <2>2. unreported \subseteq DOMAIN plan
    BY DEF StoryInv, ControlInv, StreamTypeOK
  <2> QED BY <1>1, <1>2, <1>3, <1>4, <1>5, <2>1, <2>2 DEF StoryInv, Awaited
<1> QED BY <1>7, <1>9, <1>10, SpeakStep

LEMMA StoryStep ==
    ASSUME StoryInv, [StreamNext]_allVars
    PROVE  StoryInv'
<1>1. ControlInv'
  BY ControlStep DEF StoryInv
<1>2. CASE ~Open'
  BY <1>1, <1>2 DEF StoryInv
<1>3. CASE Open'
  <2>1. CASE Sort \/ EnterLevel
    BY <1>1, <2>1, MovesOutside DEF Sort, EmitLevel, EnterLevel, AtLevelBoundary, streamVars, vars
  <2>2. CASE Filter
    <3>1. PICK i \in DOMAIN plan : SkipFailed(i) \/ CancelDependent(i) \/ Admit(i)
      BY <2>2 DEF Filter
    <3>2. CASE SkipFailed(i) \/ Admit(i)
      <4>1. phase = "filter"
        BY <3>2, FilterFrame DEF SkipFailed, Admit, StoryInv
      <4> QED BY <1>1, <3>2, <4>1, MovesOutside DEF SkipFailed, Admit, vars
    <3> QED BY <1>1, <3>1, <3>2, CancelTold
  <2>3. CASE Dispatch \/ LeaveLevel
    BY <1>1, <2>3, MovesOutside DEF Dispatch, LeaveLevel, vars
  <2>4. CASE RunParallel
    BY <1>1, <2>4, AnnounceTold, FinishParallelTold, ReportTold DEF RunParallel, Announce, Resumed
  <2>5. CASE RunSequential
    <3>1. PICK i \in DOMAIN plan : AnnounceNext(i) \/ FinishSequential(i)
      BY <2>5 DEF RunSequential
    <3>2. CASE AnnounceNext(i)
      <4>1. InLevel /\ Open /\ phase = "sequential" /\ i \in sequential
        BY <3>2 DEF AnnounceNext, InLevel, Open
      <4>2. i \in CurrentTasks /\ i \notin parallel \cup unfiltered
        BY <4>1 DEF StoryInv, ControlInv, Placed
      <4>3. status[i] = "pending"
        BY <4>1, <4>2 DEF StoryInv, ControlInv, Stands, StandsInLevel
      <4> QED BY <1>1, <3>2, <4>1, <4>3, AnnounceTold DEF AnnounceNext, Resumed
    <3> QED BY <1>1, <3>1, <3>2, FinishSequentialTold
  <2>6. CASE Gather \/ GatherReturns \/ AllReported \/ FinishStream
    BY <1>1, <2>6, GatherTold, GatherReturnsTold, AllReportedTold, FinishStreamTold
  <2>7. CASE Deliver
    <3>1. CASE \E i \in DOMAIN plan : DeliverStart(i)
      BY <1>1, <3>1, DeliverStartTold
    <3>2. CASE \E i \in DOMAIN plan, s \in Status : DeliverOutcome(i, s)
      BY <1>1, <3>2, DeliverOutcomeTold
    <3>3. CASE \E v \in {"completed", "partial_failure"} : DeliverEnd(v)
      BY <1>3, <3>3 DEF DeliverEnd, Open
    <3> QED BY <2>7, <3>1, <3>2, <3>3, DeliverCases DEF StoryInv
  <2>8. CASE Abandon
    BY <1>3, <2>8 DEF Abandon, Open
  <2>9. CASE UNCHANGED allVars
    <3>1. UNCHANGED <<plan, status, phase, parallel, unreported, outbox, client, verdict>>
      BY <2>9 DEF allVars, vars, streamVars
    <3>2. \A i : (Awaiting(i) => Awaiting(i)') /\ (About(i)' <=> About(i))
      BY <3>1 DEF Awaiting, InLevel, About
    <3>3. Open
      BY <1>3, <3>1 DEF Open
    <3>4. Awaited'
      BY <3>1, <3>2, <3>3 DEF StoryInv, Awaited
    <3> QED BY <1>1, <1>3, <3>1, <3>2, <3>3, <3>4, MoveStep DEF Moves
  <2> QED BY <2>1, <2>2, <2>3, <2>4, <2>5, <2>6, <2>7, <2>8, <2>9 DEF StreamNext
<1> QED BY <1>2, <1>3

LEMMA StoryInvariant == StreamSpec => []StoryInv
BY StoryInit, StoryStep, PTL DEF StreamSpec

\* When the done event is delivered, the client has been told how every task
\* that started or was cancelled ended.
LEMMA EndTellsAll ==
    ASSUME StoryInv, NEW v \in {"completed", "partial_failure"}, DeliverEnd(v), NEW i \in DOMAIN plan
    PROVE  client[i] = status[i] \/ (client[i] = "none" /\ status[i] \in {"pending", "failed"})
<1>1. outbox = DoneEvent(v) /\ AtLevelBoundary
  BY DEF DeliverEnd, StoryInv, ControlInv, Speaking
<1>2. Open /\ ~InLevel
  BY <1>1 DEF AtLevelBoundary, Open, InLevel
<1>3. ~About(i) /\ ~Awaiting(i)
  BY <1>1, <1>2, AboutOne DEF About, Awaiting
<1>4. ~(outbox = TaskDone(i, status[i]))
  BY <1>1, Events
<1> QED BY <1>2, <1>3, <1>4 DEF StoryInv, Stories, Story

\* A stream that reaches its done event has told the client how every task that
\* started or was cancelled ended: no event is lost between a skill's return, the
\* gather, the report loop and the yield, for any plan and any failures.
THEOREM OutcomesDelivered == StreamSpec => []EveryOutcomeDelivered
<1>1. StreamInit => EveryOutcomeDelivered
  BY DEF StreamInit, EveryOutcomeDelivered
<1>2. StoryInv /\ Open => EveryOutcomeDelivered
  BY DEF StoryInv, EveryOutcomeDelivered
<1>3. StoryInv /\ EveryOutcomeDelivered /\ [StreamNext]_allVars /\ ~Open' => EveryOutcomeDelivered'
  <2> SUFFICES ASSUME StoryInv, EveryOutcomeDelivered, [StreamNext]_allVars, ~Open',
                      verdict' \in {"completed", "partial_failure"}, NEW i \in DOMAIN plan'
               PROVE  client'[i] = status'[i] \/ (client'[i] = "none" /\ status'[i] \in {"pending", "failed"})
    BY DEF EveryOutcomeDelivered
  <2>1. UNCHANGED <<plan, status, client>>
    BY ClosedIsFrozen DEF StoryInv
  <2>2. CASE ~Open
    BY <2>1, <2>2, ClosedIsFrozen DEF StoryInv, EveryOutcomeDelivered
  <2>3. CASE Open
    BY <2>1, <2>3, ClosedIsFrozen, EndTellsAll DEF StoryInv
  <2> QED BY <2>2, <2>3
<1> QED BY <1>1, <1>2, <1>3, StoryInvariant, PTL DEF StreamSpec

-----------------------------------------------------------------------------
(* Freedom.                                                                *)

Free(i) == plan[i].dependencies \cap failedTaskIds = {}

Frees ==
    /\ InLevel => \A i \in parallel \cup sequential : Free(i)
    /\ \A i \in DOMAIN plan : outbox = TaskStart(i) => Free(i)

\* The half of ClientViewIsSound that is about the order of what is told.
ToldInOrder ==
    \A i \in DOMAIN plan : client[i] \notin {"none", "cancelled"} =>
        \A d \in plan[i].dependencies :
            \E j \in DOMAIN plan : plan[j].id = d /\ client[j] = "completed"

FreedomInv ==
    /\ StoryInv
    /\ SortInv
    /\ Open => Frees
    /\ ToldInOrder

(* What a task of the level depends on has been left, and is not lost with *)
(* a task of the level.                                                    *)
LEMMA DependenciesLeft ==
    ASSUME ControlInv, SortInv, NEW i \in CurrentTasks, NEW d \in plan[i].dependencies
    PROVE  /\ \E j \in LeftTasks : plan[j].id = d
           /\ \A c \in CurrentTasks : plan[c].id # d
<1>1. InLevel /\ levelIdx \in DOMAIN levels /\ LeftLevels = levelIdx - 1
  BY DEF CurrentTasks, ControlInv, Placed, LeftLevels
<1>2. PICK t \in levels[levelIdx] : i = TaskMap(plan, t)
  BY <1>1 DEF CurrentTasks, Positions
<1>3. d \in Dependencies(plan, t)
  BY <1>2 DEF Dependencies
<1>4. PICK m \in 1..(levelIdx - 1) : d \in levels[m]
  BY <1>1, <1>3 DEF SortInv, DependenciesFirst
<1>5. m \in DOMAIN levels /\ m # levelIdx
  BY <1>1, <1>4, PlanFacts
<1>6. d \in TaskIds(plan)
  BY <1>4, <1>5, PlanFacts
<1>7. TaskMap(plan, d) \in LeftTasks
  BY <1>1, <1>4 DEF LeftTasks, Positions
<1>8. plan[TaskMap(plan, d)].id = d
  BY <1>6, PlanFacts, TaskMapFinds
<1>9. d \notin levels[levelIdx]
  BY <1>1, <1>4, <1>5 DEF ControlInv, EmittedInv, EmittedOnce
<1>10. \A c \in CurrentTasks : plan[c].id \in levels[levelIdx]
  BY <1>1, PositionsType DEF CurrentTasks
<1> QED BY <1>7, <1>8, <1>9, <1>10

(* A task that is about to start depends on completed tasks only.          *)
LEMMA StartIsReady ==
    ASSUME FreedomInv, NEW i \in DOMAIN plan, outbox = TaskStart(i), NEW d \in plan[i].dependencies
    PROVE  \E j \in DOMAIN plan : /\ j # i /\ plan[j].id = d
                                  /\ status[j] = "completed" /\ client[j] = "completed"
<1> USE DEF FreedomInv, StoryInv
<1>1. /\ status[i] = "pending"
      /\ \/ phase = "announce" /\ i \in parallel
         \/ phase = "sequential" /\ i \in CurrentTasks
  BY DEF ControlInv, Speaking
<1>2. Open /\ InLevel /\ i \in CurrentTasks
  BY <1>1 DEF Open, InLevel, ControlInv, Placed
<1>3. PICK j \in LeftTasks : plan[j].id = d
  BY <1>2, DependenciesLeft
<1>4. d \notin failedTaskIds
  BY <1>2 DEF Frees, Free
<1>5. j \in DOMAIN plan /\ status[j] = "completed"
  BY <1>2, <1>3, <1>4, CurrentAndLeft DEF ControlInv, Stands, Ended
<1>6. j # i
  BY <1>1, <1>5
<1>7. ~About(j) /\ ~Awaiting(j) /\ outbox # TaskDone(j, status[j])
  BY <1>1, <1>6, AboutOne, Events DEF About, Awaiting
<1>8. client[j] = "completed"
  BY <1>2, <1>5, <1>7 DEF Stories, Story
<1> QED BY <1>3, <1>5, <1>6, <1>8

(* What a step within a level has to show.                                 *)
LEMMA FreesKept ==
    ASSUME FreedomInv, Open, plan' = plan,
           \A t \in failedTaskIds' : t \in failedTaskIds \/ \E c \in CurrentTasks : plan[c].id = t,
           InLevel' => \A j \in parallel' \cup sequential' :
               j \in CurrentTasks /\ (j \in parallel \cup sequential \/ Free(j)),
           InLevel' => InLevel,
           \A j \in DOMAIN plan : outbox' = TaskStart(j) =>
               outbox = TaskStart(j) \/ (InLevel /\ j \in parallel \cup sequential)
    PROVE  Frees'
<1> USE DEF FreedomInv, StoryInv
<1>1. \A j \in CurrentTasks : Free(j) => Free(j)'
  BY DependenciesLeft DEF Free
<1>2. \A j \in DOMAIN plan : outbox = TaskStart(j) => j \in CurrentTasks
  BY AboutWhen DEF About, AboutIn
<1>3. InLevel => parallel \cup sequential \subseteq CurrentTasks
  BY DEF ControlInv, Placed
<1> QED BY <1>1, <1>2, <1>3 DEF Frees

LEMMA FreesStep ==
    ASSUME FreedomInv, [StreamNext]_allVars, Open, Open'
    PROVE  Frees'
<1> USE DEF FreedomInv, StoryInv
<1>1. InLevel => parallel \cup sequential \subseteq CurrentTasks
  BY DEF ControlInv, Placed
<1>2. \A j : NoEvent # TaskStart(j)
  BY Events
<1>3. CASE Sort
  <2>1. phase = "sort" /\ phase' = "sort" /\ plan' = plan /\ failedTaskIds' = failedTaskIds /\ outbox' = outbox
    BY <1>3 DEF Sort, EmitLevel, streamVars
  <2> QED BY <2>1, FreesKept DEF InLevel
<1>4. CASE EnterLevel
  <2>1. /\ phase \in {"sort", "between"} /\ parallel' = {} /\ sequential' = sequential /\ outbox' = outbox
        /\ plan' = plan /\ failedTaskIds' = failedTaskIds
    BY <1>4 DEF EnterLevel, AtLevelBoundary, vars
  <2>2. sequential = {}
    BY <2>1 DEF ControlInv, Placed, InLevel, Open
  <2> QED BY <2>1, <2>2 DEF Frees, Free
<1>5. CASE Filter
  <2>1. PICK i \in DOMAIN plan : SkipFailed(i) \/ CancelDependent(i) \/ Admit(i)
    BY <1>5 DEF Filter
  <2>2. i \in unfiltered /\ plan' = plan /\ phase' = phase
    BY <2>1 DEF SkipFailed, CancelDependent, Admit, vars
  <2>3. InLevel /\ i \in CurrentTasks
    BY <2>2, FilterFrame
  <2>4. CASE SkipFailed(i) \/ CancelDependent(i)
    <3>1. /\ failedTaskIds' = failedTaskIds \cup {plan[i].id}
          /\ UNCHANGED <<parallel, sequential>>
          /\ \A j : outbox' = TaskStart(j) => outbox = TaskStart(j)
      BY <2>4, Events DEF SkipFailed, CancelDependent
    <3> QED BY <1>1, <2>2, <2>3, <3>1, FreesKept
  <2>5. CASE Admit(i)
    <3>1. /\ parallel' \cup sequential' = parallel \cup sequential \cup {i} /\ Free(i)
          /\ UNCHANGED <<failedTaskIds, outbox>>
      BY <2>5 DEF Admit, Free, DependencyFailed
    <3> QED BY <1>1, <2>2, <2>3, <3>1, FreesKept
  <2> QED BY <2>1, <2>4, <2>5
<1>6. CASE RunParallel
  <2>1. PICK i \in DOMAIN plan : Announce(i) \/ FinishParallel(i) \/ Report(i)
    BY <1>6 DEF RunParallel
  <2>2. plan' = plan /\ UNCHANGED <<phase, parallel, sequential>> /\ InLevel /\ InLevel'
    BY <2>1 DEF Announce, FinishParallel, Report, vars, InLevel
  <2>3. CASE Announce(i)
    <3>1. i \in parallel /\ outbox' = TaskStart(i) /\ failedTaskIds' = failedTaskIds
      BY <2>3 DEF Announce
    <3>2. \A j : outbox' = TaskStart(j) => j = i
      BY <3>1, Events
    <3> QED BY <1>1, <2>2, <3>1, <3>2, FreesKept
  <2>4. CASE FinishParallel(i)
    <3>1. i \in Running /\ outbox' = outbox /\ failedTaskIds' \subseteq failedTaskIds \cup {plan[i].id}
      BY <2>4 DEF FinishParallel, Running
    <3>2. i \in CurrentTasks
      BY <3>1, RunningStand
    <3> QED BY <1>1, <2>2, <3>1, <3>2, FreesKept
  <2>5. CASE Report(i)
    <3>1. (\A j : outbox' # TaskStart(j)) /\ failedTaskIds' = failedTaskIds
      BY <2>5, Events DEF Report
    <3> QED BY <1>1, <2>2, <3>1, FreesKept
  <2> QED BY <2>1, <2>3, <2>4, <2>5
<1>7. CASE RunSequential
  <2>1. PICK i \in DOMAIN plan : AnnounceNext(i) \/ FinishSequential(i)
    BY <1>7 DEF RunSequential
  <2>2. plan' = plan /\ UNCHANGED <<phase, parallel>> /\ sequential' \subseteq sequential /\ InLevel /\ InLevel'
    BY <2>1 DEF AnnounceNext, FinishSequential, vars, InLevel
  <2>3. CASE AnnounceNext(i)
    <3>1. i \in sequential /\ outbox' = TaskStart(i) /\ failedTaskIds' = failedTaskIds
      BY <2>3 DEF AnnounceNext
    <3>2. \A j : outbox' = TaskStart(j) => j = i
      BY <3>1, Events
    <3> QED BY <1>1, <2>2, <3>1, <3>2, FreesKept
  <2>4. CASE FinishSequential(i)
    <3>1. /\ i \in Running /\ (\A j : outbox' # TaskStart(j))
          /\ failedTaskIds' \subseteq failedTaskIds \cup {plan[i].id}
      BY <2>4, Events DEF FinishSequential, Running
    <3>2. i \in CurrentTasks
      BY <3>1, RunningStand
    <3> QED BY <1>1, <2>2, <3>1, <3>2, FreesKept
  <2> QED BY <2>1, <2>3, <2>4
<1>8. CASE Dispatch \/ Gather \/ GatherReturns \/ AllReported \/ LeaveLevel
  <2>1. plan' = plan /\ InLevel /\ UNCHANGED <<parallel, sequential, failedTaskIds, outbox>>
    BY <1>8 DEF Dispatch, Gather, GatherReturns, AllReported, LeaveLevel, vars, InLevel
  <2> QED BY <1>1, <2>1, FreesKept
<1>9. CASE FinishStream
  <2>1. plan' = plan /\ ~InLevel' /\ failedTaskIds' = failedTaskIds /\ \A j : outbox' # TaskStart(j)
    BY <1>9, Events DEF FinishStream, AtLevelBoundary, vars, InLevel
  <2> QED BY <2>1, FreesKept
<1>10. CASE Deliver
  <2>1. /\ plan' = plan /\ outbox' = NoEvent /\ phase' = phase
        /\ UNCHANGED <<parallel, sequential, failedTaskIds>>
    BY <1>10 DEF Deliver, vars, Open
  <2> QED BY <1>1, <1>2, <2>1, FreesKept DEF InLevel
<1>11. CASE Abandon
  BY <1>11 DEF Abandon, Open
<1>12. CASE UNCHANGED allVars
  <2>1. UNCHANGED <<plan, phase, parallel, sequential, failedTaskIds, outbox>>
    BY <1>12 DEF allVars, vars, streamVars
  <2> QED BY <1>1, <2>1, FreesKept DEF InLevel
<1> QED BY <1>3, <1>4, <1>5, <1>6, <1>7, <1>8, <1>9, <1>10, <1>11, <1>12 DEF StreamNext

(* The client hears nothing but what it is delivered.                      *)
LEMMA OnlyDeliverTells ==
    ASSUME [StreamNext]_allVars, ~Deliver
    PROVE  UNCHANGED <<plan, client>>
BY DEF StreamNext, Sort, EmitLevel, EnterLevel, Filter, SkipFailed, CancelDependent, Admit,
       Dispatch, RunParallel, Announce, FinishParallel, Report, Gather, GatherReturns, AllReported,
       RunSequential, AnnounceNext, FinishSequential, LeaveLevel, FinishStream, Abandon,
       allVars, vars, sortVars, streamVars

LEMMA OrderStep ==
    ASSUME FreedomInv, [StreamNext]_allVars
    PROVE  ToldInOrder'
<1> USE DEF FreedomInv, StoryInv
<1>1. CASE ~Deliver
  BY <1>1, OnlyDeliverTells DEF ToldInOrder
<1>2. ASSUME NEW i \in DOMAIN plan, DeliverStart(i)
      PROVE  ToldInOrder'
  <2>1. /\ outbox = TaskStart(i) /\ plan' = plan /\ client'[i] = "running"
        /\ \A j \in DOMAIN plan : j # i => client'[j] = client[j]
    BY <1>2 DEF DeliverStart, ControlInv, StreamTypeOK, vars
  <2>2. Open /\ status[i] = "pending"
    BY <2>1, Events DEF ControlInv, Speaking
  <2>3. client[i] # "completed"
    BY <2>2 DEF Stories, Story
  <2>4. ASSUME NEW k \in DOMAIN plan, client'[k] \notin {"none", "cancelled"},
               NEW d \in plan[k].dependencies
        PROVE  \E j \in DOMAIN plan : plan[j].id = d /\ client'[j] = "completed"
    <3>1. CASE k = i
      BY <2>1, <2>4, <3>1, StartIsReady
    <3>2. CASE k # i
      BY <2>1, <2>3, <2>4, <3>2 DEF ToldInOrder
    <3> QED BY <3>1, <3>2
  <2> QED BY <2>1, <2>4 DEF ToldInOrder
<1>3. ASSUME NEW i \in DOMAIN plan, NEW s \in Status, DeliverOutcome(i, s)
      PROVE  ToldInOrder'
  <2>1. /\ outbox = TaskDone(i, s) /\ plan' = plan /\ client'[i] = s
        /\ \A j \in DOMAIN plan : j # i => client'[j] = client[j]
    BY <1>3 DEF DeliverOutcome, ControlInv, StreamTypeOK, vars
  <2>2. Open /\ s = status[i] /\ About(i) /\ outbox # TaskStart(i)
    BY <2>1, Events DEF ControlInv, Speaking, About, AboutIn
  <2>3. \/ client[i] = "running"
        \/ client[i] = "none" /\ s = "cancelled"
    BY <2>2 DEF Stories, Story
  <2>4. ASSUME NEW k \in DOMAIN plan, client'[k] \notin {"none", "cancelled"},
               NEW d \in plan[k].dependencies
        PROVE  \E j \in DOMAIN plan : plan[j].id = d /\ client'[j] = "completed"
    <3>1. client[k] \notin {"none", "cancelled"}
      BY <2>1, <2>3, <2>4
    <3>2. PICK j \in DOMAIN plan : plan[j].id = d /\ client[j] = "completed"
      BY <2>4, <3>1 DEF ToldInOrder
    <3>3. j # i
      BY <2>3, <3>2
    <3> QED BY <2>1, <3>2, <3>3
  <2> QED BY <2>1, <2>4 DEF ToldInOrder
<1>4. ASSUME NEW v \in {"completed", "partial_failure"}, DeliverEnd(v)
      PROVE  ToldInOrder'
  BY <1>4 DEF DeliverEnd, ToldInOrder, vars
<1> QED BY <1>1, <1>2, <1>3, <1>4, DeliverCases

LEMMA FreedomInit ==
    ASSUME StreamInit, DistinctIds(plan)
    PROVE  FreedomInv
<1>1. StoryInv
  BY StoryInit
<1>2. SortInv
  BY SortInvInit DEF StreamInit, Init
<1>3. Frees
  BY Events DEF StreamInit, Frees, InLevel
<1>4. ToldInOrder
  BY DEF StreamInit, ToldInOrder
<1> QED BY <1>1, <1>2, <1>3, <1>4 DEF FreedomInv

LEMMA FreedomStep ==
    ASSUME FreedomInv, [StreamNext]_allVars
    PROVE  FreedomInv'
<1>1. StoryInv'
  BY StoryStep DEF FreedomInv
<1>2. SortInv'
  <2>1. EmitLevel \/ UNCHANGED vars
    BY DEF StreamNext, Sort, EnterLevel, Filter, SkipFailed, CancelDependent, Admit,
       Dispatch, RunParallel, Announce, FinishParallel, Report, Gather, GatherReturns, AllReported,
       RunSequential, AnnounceNext, FinishSequential, LeaveLevel, FinishStream, Deliver, Abandon,
       allVars
  <2> QED BY <2>1, SortInvStep, SortInvStutter DEF FreedomInv
<1>3. Open' => Frees'
  <2>1. Open' => Open
    BY ClosedStays DEF FreedomInv, StoryInv
  <2> QED BY <2>1, FreesStep
<1>4. ToldInOrder'
  BY OrderStep
<1> QED BY <1>1, <1>2, <1>3, <1>4 DEF FreedomInv

LEMMA FreedomInvariant ==
    ASSUME \A p \in Plans : DistinctIds(p)
    PROVE  StreamSpec => []FreedomInv
<1>1. StreamInit => FreedomInv
  <2>1. StreamInit => DistinctIds(plan)
    BY DEF StreamInit, Init
  <2> QED BY <2>1, FreedomInit
<1>2. FreedomInv /\ [StreamNext]_allVars => FreedomInv'
  BY FreedomStep
<1> QED BY <1>1, <1>2, PTL DEF StreamSpec

-----------------------------------------------------------------------------
(* The theorems about plans with distinct ids.                             *)

\* What the client of the stream was told is true and in order: a task it was
\* told has ended has ended that way, and it never hears of a start before it
\* heard that every task that one depends on completed.
THEOREM ClientViewSound ==
    ASSUME \A p \in Plans : DistinctIds(p)
    PROVE  StreamSpec => []ClientViewIsSound
<1> DEFINE Told == \A i \in DOMAIN plan :
                client[i] \in {"completed", "failed", "cancelled"} => status[i] = client[i]
<1>1. StreamInit => Told
  BY DEF StreamInit
<1>2. FreedomInv /\ Open => Told
  BY DEF FreedomInv, StoryInv, Stories, Story
<1>3. FreedomInv /\ Told /\ [StreamNext]_allVars /\ ~Open' => Told'
  BY ClosedIsFrozen DEF FreedomInv, StoryInv
<1>4. Told /\ FreedomInv => ClientViewIsSound
  BY DEF FreedomInv, ToldInOrder, ClientViewIsSound
<1> HIDE DEF Told
<1> QED BY <1>1, <1>2, <1>3, <1>4, FreedomInvariant, PTL DEF StreamSpec

LEMMA StartMaps ==
    ASSUME FreedomInv, NEW i \in DOMAIN plan, DeliverStart(i)
    PROVE  Dag!Start(i) /\ UNCHANGED plan
<1>1. /\ outbox = TaskStart(i) /\ status' = [status EXCEPT ![i] = "running"] /\ plan' = plan
  BY DEF DeliverStart, vars
<1>2. status[i] = "pending"
  BY <1>1 DEF FreedomInv, StoryInv, ControlInv, Speaking
<1>3. Dag!DependenciesCompleted(i)
  BY <1>1, StartIsReady DEF Dag!DependenciesCompleted
<1> QED BY <1>1, <1>2, <1>3 DEF Dag!Start

LEMMA CancelMaps ==
    ASSUME FreedomInv, NEW i \in DOMAIN plan, CancelDependent(i)
    PROVE  Dag!Cancel(i) /\ UNCHANGED plan
<1> USE DEF FreedomInv, StoryInv
<1>1. /\ status[i] = "pending" /\ status' = [status EXCEPT ![i] = "cancelled"] /\ plan' = plan
  BY FilterFrame DEF CancelDependent, vars
<1>2. PICK t \in plan[i].dependencies : t \in failedTaskIds
  BY DEF CancelDependent, DependencyFailed
<1>3. PICK j \in DOMAIN plan : plan[j].id = t /\ status[j] \in Lost
  BY <1>2 DEF ControlInv, FailedIdsAreLost
<1>4. Dag!DependencyLost(i)
  BY <1>2, <1>3 DEF Dag!DependencyLost, Dag!DependsOn, Lost
<1> QED BY <1>1, <1>4 DEF Dag!Cancel

LEMMA FinishMaps ==
    ASSUME NEW i \in DOMAIN plan, FinishParallel(i) \/ FinishSequential(i)
    PROVE  Dag!Finish(i) /\ UNCHANGED plan
BY DEF FinishParallel, FinishSequential, Dag!Finish, vars

\* The streaming execution of a plan implements DagExecution, as the synchronous
\* one does: with distinct ids, a task runs only after every task it depends on
\* completed, is cancelled only because one of them was lost, runs once, and
\* keeps its outcome, wherever the client goes away.
THEOREM StreamImplementsDag ==
    ASSUME \A p \in Plans : DistinctIds(p)
    PROVE  StreamSpec => ImplementsDagExecution
<1>1. StreamInit => Dag!Init
  BY DEF StreamInit, Init, Dag!Init
<1>2. FreedomInv /\ [StreamNext]_allVars => [Dag!Next]_(Dag!vars)
  <2> SUFFICES ASSUME FreedomInv, [StreamNext]_allVars
               PROVE  [Dag!Next]_(Dag!vars)
    OBVIOUS
  <2>1. CASE Sort \/ EnterLevel \/ Dispatch \/ Gather \/ GatherReturns \/ AllReported
              \/ LeaveLevel \/ FinishStream \/ Abandon \/ UNCHANGED allVars
    BY <2>1 DEF Sort, EmitLevel, EnterLevel, Dispatch, Gather, GatherReturns, AllReported,
                LeaveLevel, FinishStream, Abandon, allVars, streamVars, vars, Dag!vars
  <2>2. CASE Filter
    <3>1. PICK i \in DOMAIN plan : SkipFailed(i) \/ CancelDependent(i) \/ Admit(i)
      BY <2>2 DEF Filter
    <3>2. CASE SkipFailed(i) \/ Admit(i)
      BY <3>2 DEF SkipFailed, Admit, vars, Dag!vars
    <3> QED BY <3>1, <3>2, CancelMaps DEF Dag!Next
  <2>3. CASE RunParallel \/ RunSequential
    <3>1. PICK i \in DOMAIN plan : \/ Announce(i) \/ FinishParallel(i) \/ Report(i)
                                   \/ AnnounceNext(i) \/ FinishSequential(i)
      BY <2>3 DEF RunParallel, RunSequential
    <3>2. CASE Announce(i) \/ Report(i) \/ AnnounceNext(i)
      BY <3>2 DEF Announce, Report, AnnounceNext, vars, Dag!vars
    <3> QED BY <3>1, <3>2, FinishMaps DEF Dag!Next
  <2>4. CASE Deliver
    <3>1. CASE \E i \in DOMAIN plan : DeliverStart(i)
      BY <3>1, StartMaps DEF Dag!Next
    <3>2. CASE \E i \in DOMAIN plan, s \in Status : DeliverOutcome(i, s)
      BY <3>2 DEF DeliverOutcome, vars, Dag!vars
    <3>3. CASE \E v \in {"completed", "partial_failure"} : DeliverEnd(v)
      BY <3>3 DEF DeliverEnd, vars, Dag!vars
    <3> QED BY <2>4, <3>1, <3>2, <3>3, DeliverCases DEF FreedomInv, StoryInv
  <2> QED BY <2>1, <2>2, <2>3, <2>4 DEF StreamNext
<1> QED
  BY <1>1, <1>2, FreedomInvariant, PTL DEF StreamSpec, ImplementsDagExecution, Dag!Spec
=============================================================================
