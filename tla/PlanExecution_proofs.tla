------------------------- MODULE PlanExecution_proofs -------------------------
(***************************************************************************)
(* Proofs about PlanExecution and about AgentLoop, which extends it.       *)
(*                                                                         *)
(* PlanExecution implements DagExecution, leaves only blocked tasks        *)
(* pending and counts its progress exactly, for every number of tasks,     *)
(* every plan with distinct ids and every number of permits.  The          *)
(* argument: tasks of the levels already left have ended, and those among  *)
(* them that did not complete are in failed_task_ids; tasks of later       *)
(* levels have not been touched.  Since the dependencies of a task are in  *)
(* earlier levels (SortInv), looking them up in failed_task_ids is as good *)
(* as looking at their statuses.                                           *)
(*                                                                         *)
(* AgentLoop runs plans again that have been run before and may name ids   *)
(* twice, so none of that holds there.  What it relies on is TurnInv, at   *)
(* the end of the module: a failed task is never started, and no task is   *)
(* lost without a failed one.                                              *)
(***************************************************************************)
EXTENDS AgentLoop, TopologicalSort_proofs

Lost == {"failed", "cancelled"}
InLevel == phase \in {"filter", "run"}

\* The levels whose tasks have all ended.
LeftLevels == IF InLevel THEN levelIdx - 1 ELSE levelIdx

Left(i) == \E k \in 1..LeftLevels : plan[i].id \in levels[k]
Current(i) == InLevel /\ plan[i].id \in levels[levelIdx]

Recorded(i) == status[i] \in Lost /\ plan[i].id \in failedTaskIds

\* Where each task stands, by the level it is in.
LeftTasksEnded ==
    \A i \in DOMAIN plan : Left(i) => status[i] = "completed" \/ Recorded(i)

LaterTasksUntouched ==
    \A i \in DOMAIN plan :
        ~Left(i) /\ ~Current(i) => status[i] \in {"pending", "failed"}

FilterState ==
    phase = "filter" =>
        /\ waiting = {}
        /\ \A i \in unfiltered \cup gathered : Current(i)
        /\ unfiltered \cap gathered = {}
        /\ \A i \in unfiltered : status[i] \in {"pending", "failed"}
        /\ \A i \in gathered : status[i] = "pending"
        /\ \A i \in DOMAIN plan :
              Current(i) /\ i \notin unfiltered \cup gathered => Recorded(i)

RunState ==
    phase = "run" =>
        /\ unfiltered = {}
        /\ \A i \in gathered : Current(i)
        /\ waiting \subseteq gathered
        /\ \A i \in waiting : status[i] = "pending"
        /\ \A i \in gathered \ waiting : status[i] \in {"running", "completed", "failed"}
        /\ \A i \in DOMAIN plan : Current(i) /\ i \notin gathered => Recorded(i)

IdleState ==
    /\ ~InLevel => unfiltered = {} /\ waiting = {}
    /\ phase = "sort" => levelIdx = 0
    /\ phase # "sort" => Sorted
    /\ InLevel => levelIdx \in DOMAIN levels
    /\ phase = "done" => levelIdx = Len(levels)

\* No admitted task depends on a lost one.
GatheredAreFree ==
    InLevel => \A i \in gathered : plan[i].dependencies \cap failedTaskIds = {}

\* failed_task_ids names lost tasks only.
FailedIdsAreLost ==
    \A t \in failedTaskIds :
        \E j \in DOMAIN plan : plan[j].id = t /\ status[j] \in Lost

ExecInv ==
    /\ PlanTypeOK
    /\ SortInv
    /\ EmittedOnce
    /\ IdleState
    /\ LeftTasksEnded
    /\ LaterTasksUntouched
    /\ FilterState
    /\ RunState
    /\ GatheredAreFree
    /\ FailedIdsAreLost

-----------------------------------------------------------------------------
(* Facts used by every step.                                               *)

LEMMA ExecFacts ==
    ASSUME ExecInv
    PROVE  /\ plan \in Seq(SubTask)
           /\ Len(plan) \in Nat /\ DOMAIN plan = 1..Len(plan)
           /\ IsFiniteSet(DOMAIN plan)
           /\ \A i \in DOMAIN plan :
                 /\ plan[i].id \in Id
                 /\ plan[i].id \in TaskIds(plan)
                 /\ TaskMap(plan, plan[i].id) = i
                 /\ Dependencies(plan, plan[i].id) = plan[i].dependencies
           /\ levels \in Seq(SUBSET TaskIds(plan))
           /\ Len(levels) \in Nat /\ DOMAIN levels = 1..Len(levels)
           /\ levelIdx \in Nat /\ levelIdx <= Len(levels)
<1>1. plan \in Seq(SubTask) /\ DistinctIds(plan)
  BY PlansAssumption DEF ExecInv, PlanTypeOK, TypeOK, SortInv
<1>2. Len(plan) \in Nat /\ DOMAIN plan = 1..Len(plan)
  BY <1>1
<1>3. IsFiniteSet(DOMAIN plan)
  BY <1>2, FS_Interval
<1>4. ASSUME NEW i \in DOMAIN plan
      PROVE  /\ plan[i].id \in Id
             /\ plan[i].id \in TaskIds(plan)
             /\ TaskMap(plan, plan[i].id) = i
             /\ Dependencies(plan, plan[i].id) = plan[i].dependencies
  <2>1. plan[i] \in SubTask
    BY <1>1
  <2>2. TaskMap(plan, plan[i].id) = i
    BY <1>1, TaskMapInverts
  <2> QED
    BY <2>1, <2>2 DEF SubTask, TaskIds, Dependencies
<1>5. levels \in Seq(SUBSET TaskIds(plan)) /\ levelIdx \in 0..Len(levels)
  BY DEF ExecInv, PlanTypeOK, TypeOK
<1> QED
  BY <1>1, <1>2, <1>3, <1>4, <1>5

(* A step that leaves the plan and the levels alone keeps what is known    *)
(* about them.                                                             *)
LEMMA SortFrame ==
    ASSUME ExecInv, UNCHANGED vars
    PROVE  TypeOK' /\ SortInv' /\ EmittedOnce'
<1>1. SortInv'
  BY SortInvStutter DEF ExecInv
<1>2. EmittedOnce'
  BY DEF ExecInv, EmittedOnce, Emitted, vars, sortVars
<1> QED
  BY <1>1, <1>2 DEF SortInv

(* The sub-tasks of a level are those whose ids it holds.                  *)
LEMMA LevelPositions ==
    ASSUME ExecInv, NEW k \in DOMAIN levels
    PROVE  {TaskMap(plan, t) : t \in levels[k]} =
           {i \in DOMAIN plan : plan[i].id \in levels[k]}
<1>1. levels[k] \subseteq TaskIds(plan)
  BY ExecFacts
<1>2. \A t \in levels[k] : TaskMap(plan, t) \in DOMAIN plan /\ plan[TaskMap(plan, t)].id = t
  BY <1>1, ExecFacts, TaskMapFinds
<1>3. \A i \in DOMAIN plan : TaskMap(plan, plan[i].id) = i
  BY ExecFacts
<1> QED
  BY <1>2, <1>3

(* The dependencies of a task of level k are tasks of earlier levels.      *)
LEMMA DependenciesAreEarlier ==
    ASSUME ExecInv, NEW k \in DOMAIN levels, NEW i \in DOMAIN plan,
           plan[i].id \in levels[k], NEW d \in plan[i].dependencies
    PROVE  /\ d \notin levels[k]
           /\ \E j \in DOMAIN plan :
                 plan[j].id = d /\ \E m \in 1..(k - 1) : plan[j].id \in levels[m]
<1>1. d \in Dependencies(plan, plan[i].id)
  BY ExecFacts
<1>2. PICK m \in 1..(k - 1) : d \in levels[m]
  BY <1>1 DEF ExecInv, SortInv, DependenciesFirst
<1>3. m \in DOMAIN levels /\ m # k
  BY ExecFacts, <1>2
<1>4. d \notin levels[k]
  BY <1>2, <1>3 DEF ExecInv, EmittedOnce
<1>5. d \in TaskIds(plan)
  BY <1>2, <1>3, ExecFacts
<1>6. PICK j \in DOMAIN plan : plan[j].id = d
  BY <1>5 DEF TaskIds
<1> QED
  BY <1>2, <1>4, <1>6

-----------------------------------------------------------------------------
(* The initial state, and the steps up to the filter.                      *)

LEMMA ExecInvInit ==
    ASSUME PlanInit, DistinctIds(plan)
    PROVE  ExecInv
<1>1. SortInv /\ EmittedOnce /\ TypeOK /\ levels = <<>>
  BY SortInvInit, EmittedInvInit DEF PlanInit, Init, EmittedInv, SortInit
<1>2. status \in [DOMAIN plan -> Status]
  BY DEF PlanInit, Status
<1>3. PlanTypeOK
  BY <1>1, <1>2 DEF PlanInit, ExecuteInit, PlanTypeOK, Phase
<1>4. \A i \in DOMAIN plan : ~Left(i) /\ ~Current(i)
  BY DEF PlanInit, ExecuteInit, Left, LeftLevels, Current, InLevel
<1>5. LeftTasksEnded /\ LaterTasksUntouched
  BY <1>4 DEF LeftTasksEnded, LaterTasksUntouched, PlanInit
<1>6. IdleState /\ FilterState /\ RunState /\ GatheredAreFree /\ FailedIdsAreLost
  BY DEF PlanInit, ExecuteInit, IdleState, FilterState, RunState, GatheredAreFree,
         FailedIdsAreLost, InLevel
<1> QED
  BY <1>1, <1>3, <1>5, <1>6 DEF ExecInv

LEMMA SortStep ==
    ASSUME ExecInv, Sort
    PROVE  ExecInv'
<1> USE DEF Sort
<1>1. SortInv'
  BY SortInvStep DEF ExecInv
<1>2. EmittedOnce'
  <2>1. EmittedInv
    <3>1. ASSUME NEW t \in Emitted \cup currentLevel
          PROVE  inDegree[t] <= 0
      <4>1. t \in TaskIds(plan)
        BY ExecFacts DEF Emitted, ExecInv, PlanTypeOK, TypeOK
      <4>2. Dependencies(plan, t) \subseteq Emitted
        <5>1. CASE t \in currentLevel
          BY <5>1 DEF ExecInv, SortInv
        <5>2. CASE t \in Emitted
          <6>1. PICK k \in DOMAIN levels : t \in levels[k]
            BY <5>2 DEF Emitted
          <6>2. \A m \in 1..(k - 1) : m \in DOMAIN levels
            BY ExecFacts
          <6> QED
            BY <6>1, <6>2 DEF ExecInv, SortInv, DependenciesFirst, Emitted
        <5> QED
          BY <5>1, <5>2
      <4>3. Dependencies(plan, t) \ Emitted = {}
        BY <4>2
      <4>4. inDegree[t] = 0
        BY <4>1, <4>3, FS_EmptySet DEF ExecInv, SortInv
      <4> QED
        BY <4>4
    <3> QED
      BY <3>1 DEF ExecInv, PlanTypeOK, EmittedInv, NoneLeft
  <2> QED
    BY <2>1, EmittedInvStep DEF EmittedInv
<1>3. /\ UNCHANGED <<plan, execVars>>
      /\ phase = "sort" /\ levelIdx = 0
  BY DEF EmitLevel, ExecInv, IdleState
<1>4. \A i \in DOMAIN plan : ~Left(i) /\ ~Current(i) /\ ~Left(i)' /\ ~Current(i)'
  BY <1>3 DEF Left, LeftLevels, Current, InLevel, execVars
<1>5. PlanTypeOK'
  <2>1. TypeOK' /\ Len(levels') \in Nat
    BY StepTypeOK, SortTypes, EmitLevelEmits, ExecFacts DEF ExecInv, PlanTypeOK
  <2>2. levelIdx' \in 0..Len(levels')
    BY <2>1, <1>3 DEF execVars
  <2> QED
    BY <2>1, <2>2, <1>3 DEF PlanTypeOK, execVars, ExecInv
<1>6. LeftTasksEnded' /\ LaterTasksUntouched'
  BY <1>3, <1>4 DEF LeftTasksEnded, LaterTasksUntouched, ExecInv, execVars
<1>7. (IdleState /\ FilterState /\ RunState /\ GatheredAreFree /\ FailedIdsAreLost)'
  BY <1>3 DEF ExecInv, IdleState, FilterState, RunState, GatheredAreFree,
              FailedIdsAreLost, InLevel, execVars
<1> QED
  BY <1>1, <1>2, <1>5, <1>6, <1>7 DEF ExecInv

LEMMA EnterLevelStep ==
    ASSUME ExecInv, EnterLevel
    PROVE  ExecInv'
<1>1. /\ UNCHANGED <<vars, status, waiting, failedTaskIds, completedCount, planStatus>>
      /\ levelIdx' = levelIdx + 1 /\ levelIdx < Len(levels)
      /\ phase' = "filter" /\ gathered' = {}
      /\ unfiltered' = {TaskMap(plan, t) : t \in levels[levelIdx + 1]}
      /\ phase \in {"sort", "between"}
  BY DEF EnterLevel, AtLevelBoundary
<1>2. UNCHANGED <<plan, levels, status>> /\ UNCHANGED vars
  BY <1>1 DEF vars, sortVars
<1>3. levelIdx + 1 \in DOMAIN levels
  BY <1>1, ExecFacts
<1>4. unfiltered' = {i \in DOMAIN plan : plan[i].id \in levels[levelIdx + 1]}
  BY <1>1, <1>3, LevelPositions
<1>5. \A i \in DOMAIN plan :
         /\ Left(i)' <=> Left(i)
         /\ Current(i)' <=> i \in unfiltered'
         /\ ~Current(i)
  <2>1. (levelIdx + 1) - 1 = levelIdx
    BY ExecFacts
  <2> QED
    BY <1>1, <1>2, <1>4, <2>1 DEF Left, LeftLevels, Current, InLevel
<1>6. \A i \in unfiltered' : ~Left(i)
  <2>1. SUFFICES ASSUME NEW i \in unfiltered', NEW k \in 1..levelIdx, plan[i].id \in levels[k]
                 PROVE  FALSE
    BY <1>1 DEF Left, LeftLevels, InLevel
  <2>2. k \in DOMAIN levels /\ k # levelIdx + 1
    BY <1>3, ExecFacts
  <2>3. plan[i].id \in levels[levelIdx + 1]
    BY <1>4
  <2> QED
    BY <2>1, <2>2, <2>3, <1>3 DEF ExecInv, EmittedOnce
<1>7. TypeOK' /\ SortInv' /\ EmittedOnce'
  BY <1>2, SortFrame
<1>8. PlanTypeOK'
  <2>1. levelIdx' \in 0..Len(levels')
    BY <1>1, <1>2, ExecFacts
  <2>2. unfiltered' \in SUBSET DOMAIN plan
    BY <1>4
  <2> QED
    BY <1>1, <1>2, <1>7, <2>1, <2>2 DEF ExecInv, PlanTypeOK, Phase
<1>9. LeftTasksEnded' /\ LaterTasksUntouched'
  BY <1>1, <1>2, <1>5 DEF ExecInv, LeftTasksEnded, LaterTasksUntouched, Recorded
<1>10. FilterState'
  <2>1. \A i \in unfiltered' : status[i] \in {"pending", "failed"}
    BY <1>4, <1>5, <1>6 DEF ExecInv, LaterTasksUntouched
  <2>2. waiting = {}
    BY <1>1 DEF ExecInv, IdleState, InLevel
  <2> QED
    BY <1>1, <1>2, <1>4, <1>5, <2>1, <2>2 DEF FilterState
<1>11. IdleState'
  <2>1. Sorted
    BY <1>1 DEF EnterLevel, AtLevelBoundary, ExecInv, IdleState
  <2> QED
    BY <1>1, <1>2, <1>3, <2>1 DEF IdleState, InLevel, Sorted, vars, sortVars
<1>12. (RunState /\ GatheredAreFree /\ FailedIdsAreLost)'
  BY <1>1, <1>2 DEF ExecInv, RunState, GatheredAreFree, FailedIdsAreLost
<1> QED
  BY <1>7, <1>8, <1>9, <1>10, <1>11, <1>12 DEF ExecInv

-----------------------------------------------------------------------------
(* The filter.                                                             *)

(* The steps of the filter happen in a level and change no later task.     *)
LEMMA FilterFrame ==
    ASSUME ExecInv, NEW i \in unfiltered
    PROVE  /\ phase = "filter"
           /\ i \in DOMAIN plan
           /\ Current(i) /\ ~Left(i)
           /\ i \notin gathered
           /\ status[i] \in {"pending", "failed"}
<1>1. phase = "filter" /\ InLevel
  BY DEF ExecInv, IdleState, InLevel, RunState
<1>2. i \in DOMAIN plan /\ Current(i) /\ status[i] \in {"pending", "failed"} /\ i \notin gathered
  BY <1>1 DEF ExecInv, PlanTypeOK, FilterState
<1>3. ~Left(i)
  <2>1. SUFFICES ASSUME NEW k \in 1..(levelIdx - 1), plan[i].id \in levels[k]
                 PROVE  FALSE
    BY <1>1 DEF Left, LeftLevels
  <2>2. levelIdx \in DOMAIN levels /\ plan[i].id \in levels[levelIdx]
    BY <1>1, <1>2 DEF ExecInv, IdleState, Current
  <2>3. k \in DOMAIN levels /\ k # levelIdx
    BY ExecFacts
  <2> QED
    BY <2>1, <2>2, <2>3 DEF ExecInv, EmittedOnce
<1> QED
  BY <1>1, <1>2, <1>3

(* Recording a task of the level as lost blocks no admitted task.          *)
LEMMA GatheredStayFree ==
    ASSUME ExecInv, NEW i \in unfiltered
    PROVE  \A j \in gathered :
              plan[j].dependencies \cap (failedTaskIds \cup {plan[i].id}) = {}
<1>1. SUFFICES ASSUME NEW j \in gathered
               PROVE  plan[i].id \notin plan[j].dependencies
  BY FilterFrame DEF ExecInv, GatheredAreFree, InLevel
<1>2. Current(i) /\ Current(j) /\ j \in DOMAIN plan /\ levelIdx \in DOMAIN levels
  BY FilterFrame DEF ExecInv, FilterState, PlanTypeOK, IdleState, InLevel
<1> QED
  BY <1>2, DependenciesAreEarlier DEF Current

LEMMA SkipFailedStep ==
    ASSUME ExecInv, NEW i \in DOMAIN plan, SkipFailed(i)
    PROVE  ExecInv'
<1>1. /\ UNCHANGED <<vars, status, phase, levelIdx, waiting, gathered,
                     completedCount, planStatus>>
      /\ i \in unfiltered /\ status[i] = "failed"
      /\ unfiltered' = unfiltered \ {i}
      /\ failedTaskIds' = failedTaskIds \cup {plan[i].id}
  BY DEF SkipFailed, HasFailed
<1>2. UNCHANGED <<plan, levels, currentLevel>> /\ UNCHANGED vars
  BY <1>1 DEF vars, sortVars
<1>3. phase = "filter" /\ Current(i) /\ ~Left(i) /\ i \notin gathered
  BY <1>1, FilterFrame
<1>4. \A j \in DOMAIN plan :
         (Left(j)' <=> Left(j)) /\ (Current(j)' <=> Current(j))
         /\ (Recorded(j) => Recorded(j)')
  BY <1>1, <1>2 DEF Left, LeftLevels, Current, InLevel, Recorded
<1>5. TypeOK' /\ SortInv' /\ EmittedOnce'
  BY <1>2, SortFrame
<1>6. PlanTypeOK'
  BY <1>1, <1>2, <1>5, ExecFacts DEF ExecInv, PlanTypeOK
<1>7. Recorded(i)'
  BY <1>1, <1>2 DEF Recorded, Lost
<1>8. LeftTasksEnded' /\ LaterTasksUntouched'
  BY <1>1, <1>2, <1>4 DEF ExecInv, LeftTasksEnded, LaterTasksUntouched
<1>9. FilterState'
  <2>1. /\ waiting = {} /\ unfiltered \cap gathered = {}
        /\ \A j \in unfiltered \cup gathered : Current(j) /\ j \in DOMAIN plan
        /\ \A j \in unfiltered : status[j] \in {"pending", "failed"}
        /\ \A j \in gathered : status[j] = "pending"
        /\ \A j \in DOMAIN plan : Current(j) /\ j \notin unfiltered \cup gathered => Recorded(j)
    BY <1>3 DEF ExecInv, FilterState, PlanTypeOK
  <2>2. \A j \in unfiltered' \cup gathered' : Current(j)'
    BY <2>1, <1>1, <1>4
  <2>3. \A j \in DOMAIN plan :
           Current(j)' /\ j \notin unfiltered' \cup gathered' => Recorded(j)'
    BY <2>1, <1>1, <1>4, <1>7
  <2> QED
    BY <2>1, <2>2, <2>3, <1>1, <1>2 DEF FilterState
<1>10. GatheredAreFree'
  BY <1>1, <1>2, GatheredStayFree DEF GatheredAreFree
<1>11. FailedIdsAreLost'
  BY <1>1, <1>2 DEF ExecInv, FailedIdsAreLost, Lost
<1>12. IdleState' /\ RunState'
  BY <1>1, <1>2, <1>3 DEF ExecInv, IdleState, RunState, InLevel, Sorted
<1> QED
  BY <1>5, <1>6, <1>8, <1>9, <1>10, <1>11, <1>12 DEF ExecInv

LEMMA CancelDependentStep ==
    ASSUME ExecInv, NEW i \in DOMAIN plan, CancelDependent(i)
    PROVE  ExecInv'
<1>1. /\ UNCHANGED <<vars, phase, levelIdx, waiting, gathered, completedCount, planStatus>>
      /\ i \in unfiltered
      /\ unfiltered' = unfiltered \ {i}
      /\ status' = [status EXCEPT ![i] = "cancelled"]
      /\ failedTaskIds' = failedTaskIds \cup {plan[i].id}
  BY DEF CancelDependent
<1>2. UNCHANGED <<plan, levels, currentLevel>> /\ UNCHANGED vars
  BY <1>1 DEF vars, sortVars
<1>3. phase = "filter" /\ Current(i) /\ ~Left(i) /\ i \notin gathered
  BY <1>1, FilterFrame
<1>4. /\ status' \in [DOMAIN plan -> Status]
      /\ status'[i] = "cancelled"
      /\ \A j \in DOMAIN plan : j # i => status'[j] = status[j]
  BY <1>1 DEF ExecInv, PlanTypeOK, Status
<1>5. Recorded(i)'
  BY <1>1, <1>2, <1>4 DEF Recorded, Lost
<1>6. \A j \in DOMAIN plan :
         (Left(j)' <=> Left(j)) /\ (Current(j)' <=> Current(j))
         /\ (Recorded(j) => Recorded(j)')
  BY <1>1, <1>2, <1>4, <1>5 DEF Left, LeftLevels, Current, InLevel, Recorded
<1>7. TypeOK' /\ SortInv' /\ EmittedOnce'
  BY <1>2, SortFrame
<1>8. PlanTypeOK'
  BY <1>1, <1>2, <1>4, <1>7, ExecFacts DEF ExecInv, PlanTypeOK
<1>9. LeftTasksEnded' /\ LaterTasksUntouched'
  BY <1>2, <1>3, <1>4, <1>6 DEF ExecInv, LeftTasksEnded, LaterTasksUntouched
<1>10. FilterState'
  BY <1>1, <1>2, <1>3, <1>4, <1>5, <1>6 DEF ExecInv, FilterState, PlanTypeOK
<1>11. GatheredAreFree'
  BY <1>1, <1>2, GatheredStayFree DEF GatheredAreFree
<1>12. FailedIdsAreLost'
  BY <1>1, <1>2, <1>4 DEF ExecInv, FailedIdsAreLost, Lost
<1>13. IdleState' /\ RunState'
  BY <1>1, <1>2, <1>3 DEF ExecInv, IdleState, RunState, InLevel, Sorted
<1> QED
  BY <1>7, <1>8, <1>9, <1>10, <1>11, <1>12, <1>13 DEF ExecInv

LEMMA AdmitStep ==
    ASSUME ExecInv, NEW i \in DOMAIN plan, Admit(i)
    PROVE  ExecInv'
<1>1. /\ UNCHANGED <<vars, status, phase, levelIdx, waiting, failedTaskIds,
                     completedCount, planStatus>>
      /\ i \in unfiltered /\ status[i] # "failed" /\ ~DependencyFailed(i)
      /\ unfiltered' = unfiltered \ {i}
      /\ gathered' = gathered \cup {i}
  BY DEF Admit, HasFailed
<1>2. UNCHANGED <<plan, levels, currentLevel>> /\ UNCHANGED vars
  BY <1>1 DEF vars, sortVars
<1>3. phase = "filter" /\ Current(i) /\ status[i] = "pending"
  BY <1>1, FilterFrame
<1>4. \A j \in DOMAIN plan :
         (Left(j)' <=> Left(j)) /\ (Current(j)' <=> Current(j))
         /\ (Recorded(j)' <=> Recorded(j))
  BY <1>1, <1>2 DEF Left, LeftLevels, Current, InLevel, Recorded
<1>5. TypeOK' /\ SortInv' /\ EmittedOnce'
  BY <1>2, SortFrame
<1>6. PlanTypeOK'
  BY <1>1, <1>2, <1>5 DEF ExecInv, PlanTypeOK
<1>7. LeftTasksEnded' /\ LaterTasksUntouched'
  BY <1>1, <1>2, <1>4 DEF ExecInv, LeftTasksEnded, LaterTasksUntouched
<1>8. FilterState'
  BY <1>1, <1>2, <1>3, <1>4 DEF ExecInv, FilterState, PlanTypeOK
<1>9. GatheredAreFree'
  BY <1>1, <1>2, <1>3 DEF ExecInv, GatheredAreFree, DependencyFailed, InLevel
<1>10. (IdleState /\ RunState /\ FailedIdsAreLost)'
  BY <1>1, <1>2, <1>3 DEF ExecInv, IdleState, RunState, FailedIdsAreLost, InLevel, Sorted
<1> QED
  BY <1>5, <1>6, <1>7, <1>8, <1>9, <1>10 DEF ExecInv

LEMMA DispatchStep ==
    ASSUME ExecInv, Dispatch
    PROVE  ExecInv'
<1>1. /\ UNCHANGED <<vars, status, levelIdx, unfiltered, gathered, failedTaskIds,
                     completedCount, planStatus>>
      /\ phase = "filter" /\ unfiltered = {} /\ waiting' = gathered
      /\ phase' \in {"between", "run"} /\ (phase' = "between" <=> gathered = {})
  BY DEF Dispatch
<1>2. UNCHANGED <<plan, levels, currentLevel>> /\ UNCHANGED vars
  BY <1>1 DEF vars, sortVars
<1>3. levelIdx \in 1..Len(levels)
  BY <1>1, ExecFacts DEF ExecInv, IdleState, InLevel
<1>4. \A i \in DOMAIN plan :
         /\ Recorded(i)' <=> Recorded(i)
         /\ Current(i) /\ i \notin gathered => Recorded(i)
  BY <1>1, <1>2 DEF Recorded, ExecInv, FilterState
<1>5. TypeOK' /\ SortInv' /\ EmittedOnce'
  BY <1>2, SortFrame
<1>6. PlanTypeOK'
  BY <1>1, <1>2, <1>5 DEF ExecInv, PlanTypeOK, Phase
<1>7. CASE phase' = "run"
  <2>1. \A i \in DOMAIN plan :
           (Left(i)' <=> Left(i)) /\ (Current(i)' <=> Current(i))
    BY <1>1, <1>2, <1>7 DEF Left, LeftLevels, Current, InLevel
  <2>2. LeftTasksEnded' /\ LaterTasksUntouched'
    BY <1>1, <1>2, <1>4, <2>1 DEF ExecInv, LeftTasksEnded, LaterTasksUntouched
  <2>3. RunState'
    <3>1. \A i \in gathered : i \in DOMAIN plan /\ Current(i) /\ status[i] = "pending"
      BY <1>1 DEF ExecInv, FilterState, PlanTypeOK
    <3> QED
      BY <1>1, <1>2, <1>4, <2>1, <3>1 DEF RunState
  <2>4. (IdleState /\ FilterState /\ GatheredAreFree /\ FailedIdsAreLost)'
    BY <1>1, <1>2, <1>7 DEF ExecInv, IdleState, FilterState, GatheredAreFree,
                            FailedIdsAreLost, InLevel, Sorted
  <2> QED
    BY <1>5, <1>6, <2>2, <2>3, <2>4 DEF ExecInv
<1>8. CASE phase' = "between"
  <2>1. \A i \in DOMAIN plan : (Left(i) \/ Current(i) <=> Left(i)') /\ ~Current(i)'
    <3>1. 1..levelIdx = 1..(levelIdx - 1) \cup {levelIdx}
      BY <1>3, ExecFacts
    <3> QED
      BY <1>1, <1>2, <1>8, <3>1 DEF Left, LeftLevels, Current, InLevel
  <2>2. LeftTasksEnded' /\ LaterTasksUntouched'
    BY <1>1, <1>2, <1>4, <1>8, <2>1 DEF ExecInv, LeftTasksEnded, LaterTasksUntouched
  <2>3. IdleState'
    BY <1>1, <1>2, <1>8 DEF ExecInv, IdleState, InLevel, Sorted
  <2>4. (FilterState /\ RunState /\ GatheredAreFree /\ FailedIdsAreLost)'
    BY <1>1, <1>2, <1>8 DEF ExecInv, FilterState, RunState, GatheredAreFree,
                            FailedIdsAreLost, InLevel
  <2> QED
    BY <1>5, <1>6, <2>2, <2>3, <2>4 DEF ExecInv
<1> QED
  BY <1>1, <1>7, <1>8

-----------------------------------------------------------------------------
(* The coroutines of a level.                                              *)

(* A coroutine may change the status of its task only, and only from       *)
(* "pending" or "running".                                                 *)
LEMMA OwnStatusChange ==
    ASSUME ExecInv, phase = "run", NEW i \in gathered, NEW s \in Status,
           status[i] \in {"pending", "running"},
           s \in {"running", "completed", "failed"},
           status' = [status EXCEPT ![i] = s],
           waiting' = waiting \ {i},
           UNCHANGED <<vars, phase, levelIdx, unfiltered, gathered, failedTaskIds,
                       completedCount, planStatus>>
    PROVE  ExecInv'
<1>1. UNCHANGED <<plan, levels, currentLevel>> /\ UNCHANGED vars
  BY DEF vars, sortVars
<1>2. i \in DOMAIN plan /\ Current(i) /\ InLevel
  BY DEF ExecInv, RunState, PlanTypeOK, InLevel
<1>3. /\ status' \in [DOMAIN plan -> Status]
      /\ status'[i] = s
      /\ \A j \in DOMAIN plan : j # i => status'[j] = status[j]
  BY DEF ExecInv, PlanTypeOK
<1>4. \A j \in DOMAIN plan :
         (Left(j)' <=> Left(j)) /\ (Current(j)' <=> Current(j))
         /\ (Recorded(j) => j # i /\ Recorded(j)')
  BY <1>1, <1>3 DEF Left, LeftLevels, Current, InLevel, Recorded, Lost
<1>5. status[i] # "completed" /\ ~Recorded(i)
  BY DEF Recorded, Lost
<1>6. TypeOK' /\ SortInv' /\ EmittedOnce'
  BY <1>1, SortFrame
<1>7. PlanTypeOK'
  BY <1>1, <1>3, <1>6 DEF ExecInv, PlanTypeOK
<1>8. LeftTasksEnded'
  BY <1>1, <1>3, <1>4, <1>5 DEF ExecInv, LeftTasksEnded
<1>9. LaterTasksUntouched'
  BY <1>1, <1>2, <1>3, <1>4 DEF ExecInv, LaterTasksUntouched
<1>10. RunState'
  <2>1. /\ unfiltered = {} /\ waiting \subseteq gathered
        /\ \A j \in gathered : j \in DOMAIN plan /\ Current(j)
        /\ \A j \in waiting : status[j] = "pending"
        /\ \A j \in gathered \ waiting : status[j] \in {"running", "completed", "failed"}
        /\ \A j \in DOMAIN plan : Current(j) /\ j \notin gathered => Recorded(j)
    BY DEF ExecInv, RunState, PlanTypeOK
  <2>2. \A j \in waiting' : status'[j] = "pending"
    BY <2>1, <1>3
  <2>3. \A j \in gathered' \ waiting' : status'[j] \in {"running", "completed", "failed"}
    BY <2>1, <1>3
  <2> QED
    BY <2>1, <2>2, <2>3, <1>1, <1>4 DEF RunState
<1>11. GatheredAreFree'
  BY <1>1, <1>2 DEF ExecInv, GatheredAreFree, InLevel
<1>12. FailedIdsAreLost'
  <2>1. SUFFICES ASSUME NEW t \in failedTaskIds
                 PROVE  \E j \in DOMAIN plan : plan[j].id = t /\ status'[j] \in Lost
    BY <1>1 DEF FailedIdsAreLost
  <2>2. PICK j \in DOMAIN plan : plan[j].id = t /\ status[j] \in Lost
    BY DEF ExecInv, FailedIdsAreLost
  <2> QED
    BY <2>2, <1>3 DEF Lost
<1>13. IdleState' /\ FilterState'
  BY <1>1, <1>2 DEF ExecInv, IdleState, FilterState, InLevel, Sorted
<1> QED
  BY <1>6, <1>7, <1>8, <1>9, <1>10, <1>11, <1>12, <1>13 DEF ExecInv

LEMMA StartStep ==
    ASSUME ExecInv, NEW i \in DOMAIN plan, Start(i)
    PROVE  ExecInv'
<1>1. i \in gathered /\ status[i] = "pending"
  BY DEF Start, ExecInv, RunState
<1> QED
  BY <1>1, OwnStatusChange DEF Start, Status

LEMMA RunningAreGathered ==
    ASSUME ExecInv, NEW i \in DOMAIN plan, phase = "run", status[i] = "running"
    PROVE  i \in gathered \ waiting
<1>1. ~Recorded(i)
  BY DEF Recorded, Lost
<1>2. Left(i) \/ Current(i)
  BY DEF ExecInv, LaterTasksUntouched
<1>3. Current(i)
  BY <1>1, <1>2 DEF ExecInv, LeftTasksEnded
<1> QED
  BY <1>1, <1>3 DEF ExecInv, RunState

LEMMA FinishStep ==
    ASSUME ExecInv, NEW i \in DOMAIN plan, Finish(i)
    PROVE  ExecInv'
<1>1. PICK outcome \in {"completed", "failed"} : status' = [status EXCEPT ![i] = outcome]
  BY DEF Finish
<1>2. i \in gathered \ waiting
  BY RunningAreGathered DEF Finish
<1>3. waiting' = waiting \ {i}
  BY <1>2 DEF Finish
<1> QED
  BY <1>1, <1>2, <1>3, OwnStatusChange DEF Finish, Status

LEMMA CompleteLevelStep ==
    ASSUME ExecInv, CompleteLevel
    PROVE  ExecInv'
<1> DEFINE FailedNow == {plan[i].id : i \in {j \in gathered : status[j] = "failed"}}
<1>1. /\ UNCHANGED <<vars, status, levelIdx, unfiltered, waiting, gathered, planStatus>>
      /\ phase = "run" /\ waiting = {} /\ Running = {} /\ phase' = "between"
      /\ failedTaskIds' = failedTaskIds \cup FailedNow
      /\ completedCount' = completedCount
             + Cardinality({i \in gathered : status[i] = "completed"})
  BY DEF CompleteLevel, CompletedInLevel
<1>2. \A t \in FailedNow : \E i \in gathered : plan[i].id = t /\ status[i] = "failed"
  OBVIOUS
<1>3. \A i \in gathered : status[i] = "failed" => plan[i].id \in FailedNow
  OBVIOUS
<1> HIDE DEF FailedNow
<1>4. UNCHANGED <<plan, levels, currentLevel>> /\ UNCHANGED vars
  BY <1>1 DEF vars, sortVars
<1>5. gathered \subseteq DOMAIN plan /\ levelIdx \in 1..Len(levels)
  BY <1>1, ExecFacts DEF ExecInv, PlanTypeOK, IdleState, InLevel
<1>6. \A i \in DOMAIN plan :
         (Left(i) \/ Current(i) <=> Left(i)') /\ ~Current(i)'
         /\ (Recorded(i) => Recorded(i)')
  <2>1. 1..levelIdx = 1..(levelIdx - 1) \cup {levelIdx}
    BY <1>5, ExecFacts
  <2> QED
    BY <1>1, <1>4, <2>1 DEF Left, LeftLevels, Current, InLevel, Recorded
<1>7. \A i \in DOMAIN plan : Current(i) => status[i] = "completed" \/ Recorded(i)'
  <2>1. SUFFICES ASSUME NEW i \in DOMAIN plan, Current(i)
                 PROVE  status[i] = "completed" \/ Recorded(i)'
    OBVIOUS
  <2>2. CASE i \in gathered
    <3>1. status[i] \in {"completed", "failed"}
      BY <1>1, <2>2 DEF ExecInv, RunState, Running
    <3> QED
      BY <3>1, <2>2, <1>1, <1>3, <1>4 DEF Recorded, Lost
  <2>3. CASE i \notin gathered
    BY <1>1, <1>6, <2>1, <2>3 DEF ExecInv, RunState
  <2> QED
    BY <2>2, <2>3
<1>8. TypeOK' /\ SortInv' /\ EmittedOnce'
  BY <1>4, SortFrame
<1>9. PlanTypeOK'
  <2>1. failedTaskIds' \in SUBSET Id
    BY <1>1, <1>2, <1>5, ExecFacts DEF ExecInv, PlanTypeOK
  <2>2. completedCount' \in Nat
    <3>1. IsFiniteSet({i \in gathered : status[i] = "completed"})
      BY <1>5, ExecFacts, FS_Subset
    <3>2. Cardinality({i \in gathered : status[i] = "completed"}) \in Nat
      BY <3>1, FS_CardinalityType
    <3> QED
      BY <1>1, <3>2 DEF ExecInv, PlanTypeOK
  <2> QED
    BY <1>1, <1>4, <1>8, <2>1, <2>2 DEF ExecInv, PlanTypeOK, Phase
<1>10. LeftTasksEnded' /\ LaterTasksUntouched'
  BY <1>1, <1>4, <1>6, <1>7 DEF ExecInv, LeftTasksEnded, LaterTasksUntouched
<1>11. FailedIdsAreLost'
  BY <1>1, <1>2, <1>4, <1>5 DEF ExecInv, FailedIdsAreLost, Lost
<1>12. IdleState'
  BY <1>1, <1>4 DEF ExecInv, IdleState, RunState, InLevel, Sorted
<1>13. (FilterState /\ RunState /\ GatheredAreFree)'
  BY <1>1 DEF FilterState, RunState, GatheredAreFree, InLevel
<1> QED
  BY <1>8, <1>9, <1>10, <1>11, <1>12, <1>13 DEF ExecInv

LEMMA FinishPlanStep ==
    ASSUME ExecInv, FinishPlan
    PROVE  ExecInv'
<1>1. /\ UNCHANGED <<vars, status, levelIdx, unfiltered, waiting, gathered,
                     failedTaskIds, completedCount>>
      /\ phase \in {"between", "sort"} /\ phase' = "done" /\ ~InLevel /\ Sorted
      /\ levelIdx = Len(levels)
      /\ planStatus' \in {"completed", "failed"}
  BY DEF FinishPlan, LevelsDone, PlanOutcome, AtLevelBoundary, ExecInv, IdleState, InLevel
<1>2. UNCHANGED <<plan, levels, currentLevel>> /\ UNCHANGED vars
  BY <1>1 DEF vars, sortVars
<1>3. \A i \in DOMAIN plan :
         /\ Left(i)' <=> Left(i)
         /\ ~Current(i) /\ ~Current(i)'
         /\ Recorded(i)' <=> Recorded(i)
  BY <1>1, <1>2 DEF Left, LeftLevels, Current, InLevel, Recorded
<1>4. TypeOK' /\ SortInv' /\ EmittedOnce'
  BY <1>2, SortFrame
<1>5. PlanTypeOK'
  BY <1>1, <1>2, <1>4 DEF ExecInv, PlanTypeOK, Phase
<1>6. LeftTasksEnded' /\ LaterTasksUntouched'
  BY <1>1, <1>2, <1>3 DEF ExecInv, LeftTasksEnded, LaterTasksUntouched
<1>7. IdleState'
  BY <1>1, <1>2 DEF ExecInv, IdleState, InLevel, Sorted
<1>8. (FilterState /\ RunState /\ GatheredAreFree /\ FailedIdsAreLost)'
  BY <1>1, <1>2 DEF ExecInv, FilterState, RunState, GatheredAreFree, FailedIdsAreLost,
                    InLevel
<1> QED
  BY <1>4, <1>5, <1>6, <1>7, <1>8 DEF ExecInv

LEMMA ExecInvStutter ==
    ASSUME ExecInv, UNCHANGED planVars
    PROVE  ExecInv'
<1>1. UNCHANGED <<plan, levels, currentLevel, vars, execVars>>
  BY DEF planVars, vars, sortVars
<1>2. TypeOK' /\ SortInv' /\ EmittedOnce'
  BY <1>1, SortFrame
<1> QED
  BY <1>1, <1>2 DEF ExecInv, PlanTypeOK, IdleState, LeftTasksEnded, LaterTasksUntouched,
     FilterState, RunState, GatheredAreFree, FailedIdsAreLost, Left, LeftLevels, Current,
     Recorded, InLevel, Sorted, execVars

LEMMA ExecInvStep ==
    ASSUME ExecInv, [ExecuteNext]_planVars
    PROVE  ExecInv'
<1>1. CASE Sort
  BY <1>1, SortStep
<1>2. CASE EnterLevel
  BY <1>2, EnterLevelStep
<1>3. CASE Filter
  BY <1>3, SkipFailedStep, CancelDependentStep, AdmitStep DEF Filter
<1>4. CASE Dispatch
  BY <1>4, DispatchStep
<1>5. CASE Run
  BY <1>5, StartStep, FinishStep DEF Run
<1>6. CASE CompleteLevel
  BY <1>6, CompleteLevelStep
<1>7. CASE FinishPlan
  BY <1>7, FinishPlanStep
<1>8. CASE UNCHANGED planVars
  BY <1>8, ExecInvStutter
<1> QED
  BY <1>1, <1>2, <1>3, <1>4, <1>5, <1>6, <1>7, <1>8 DEF ExecuteNext

LEMMA ExecInvariant ==
    ASSUME \A p \in Plans : DistinctIds(p)
    PROVE  PlanSpec => []ExecInv
<1>1. PlanInit => ExecInv
  <2>1. PlanInit => DistinctIds(plan)
    BY DEF PlanInit, Init
  <2> QED
    BY <2>1, ExecInvInit
<1>2. ExecInv /\ [ExecuteNext]_planVars => ExecInv'
  BY ExecInvStep
<1> QED
  BY <1>1, <1>2, PTL DEF PlanSpec

-----------------------------------------------------------------------------
(* The theorems.                                                           *)

\* Every run of _execute_plan keeps the types of its variables, whatever the
\* plan with distinct ids, the number of permits and the failures.
THEOREM PlanTypeCorrect ==
    ASSUME \A p \in Plans : DistinctIds(p)
    PROVE  PlanSpec => []PlanTypeOK
<1>1. ExecInv => PlanTypeOK
  BY DEF ExecInv
<1> QED
  BY <1>1, ExecInvariant, PTL

(* A cancelled task depends on a lost one: failed_task_ids names lost      *)
(* tasks only.                                                             *)
LEMMA CancelMaps ==
    ASSUME ExecInv, NEW i \in DOMAIN plan, CancelDependent(i)
    PROVE  Dag!Cancel(i) /\ UNCHANGED plan
<1>1. status[i] = "pending" /\ UNCHANGED plan
  BY FilterFrame DEF CancelDependent, HasFailed, vars, sortVars
<1>2. PICK t \in plan[i].dependencies : t \in failedTaskIds
  BY DEF CancelDependent, DependencyFailed
<1>3. PICK j \in DOMAIN plan : plan[j].id = t /\ status[j] \in Lost
  BY <1>2 DEF ExecInv, FailedIdsAreLost
<1>4. Dag!DependencyLost(i)
  BY <1>2, <1>3 DEF Dag!DependencyLost, Dag!DependsOn, Lost
<1> QED
  BY <1>1, <1>4 DEF Dag!Cancel, CancelDependent

(* The dependencies of a task about to run have completed: they are in     *)
(* levels already left, and none of them is in failed_task_ids.            *)
LEMMA StartMaps ==
    ASSUME ExecInv, NEW i \in DOMAIN plan, Start(i)
    PROVE  Dag!Start(i) /\ UNCHANGED plan
<1>1. i \in gathered /\ status[i] = "pending" /\ Current(i) /\ InLevel
      /\ levelIdx \in DOMAIN levels /\ UNCHANGED plan
  BY DEF Start, ExecInv, RunState, IdleState, InLevel, vars, sortVars
<1>2. ASSUME NEW d \in plan[i].dependencies
      PROVE  \E j \in DOMAIN plan : plan[j].id = d /\ status[j] = "completed"
  <2>1. PICK j \in DOMAIN plan :
           plan[j].id = d /\ \E m \in 1..(levelIdx - 1) : plan[j].id \in levels[m]
    BY <1>1, DependenciesAreEarlier DEF Current
  <2>2. Left(j)
    BY <1>1, <2>1 DEF Left, LeftLevels
  <2>3. d \notin failedTaskIds
    BY <1>1 DEF ExecInv, GatheredAreFree
  <2> QED
    BY <2>1, <2>2, <2>3 DEF ExecInv, LeftTasksEnded, Recorded
<1> QED
  BY <1>1, <1>2 DEF Dag!Start, Dag!DependenciesCompleted, Start

LEMMA FinishMaps ==
    ASSUME NEW i \in DOMAIN plan, Finish(i)
    PROVE  Dag!Finish(i) /\ UNCHANGED plan
BY DEF Finish, Dag!Finish, vars, sortVars

\* The synchronous execution of a plan implements DagExecution: with distinct
\* ids, a task runs only after every task it depends on completed, is cancelled
\* only because one of them was lost, runs once, and keeps its outcome.
THEOREM PlanImplementsDag ==
    ASSUME \A p \in Plans : DistinctIds(p)
    PROVE  PlanSpec => ImplementsDagExecution
<1>1. PlanInit => Dag!Init
  BY DEF PlanInit, Init, SortInit, Dag!Init
<1>2. ExecInv /\ [ExecuteNext]_planVars => [Dag!Next]_(Dag!vars)
  <2> SUFFICES ASSUME ExecInv, [ExecuteNext]_planVars
               PROVE  [Dag!Next]_(Dag!vars)
    OBVIOUS
  <2>1. CASE Sort \/ EnterLevel \/ Dispatch \/ CompleteLevel \/ FinishPlan
              \/ UNCHANGED planVars
    BY <2>1 DEF Sort, EmitLevel, EnterLevel, Dispatch, CompleteLevel, FinishPlan,
                planVars, execVars, vars, sortVars, Dag!vars
  <2>2. CASE Filter
    <3>1. PICK i \in DOMAIN plan : SkipFailed(i) \/ CancelDependent(i) \/ Admit(i)
      BY <2>2 DEF Filter
    <3>2. CASE SkipFailed(i) \/ Admit(i)
      BY <3>2 DEF SkipFailed, Admit, vars, sortVars, Dag!vars
    <3>3. CASE CancelDependent(i)
      BY <3>3, CancelMaps DEF Dag!Next
    <3> QED
      BY <3>1, <3>2, <3>3
  <2>3. CASE Run
    BY <2>3, StartMaps, FinishMaps DEF Run, Dag!Next
  <2> QED
    BY <2>1, <2>2, <2>3 DEF ExecuteNext
<1> QED
  BY <1>1, <1>2, ExecInvariant, PTL DEF PlanSpec, ImplementsDagExecution, Dag!Spec

\* A finished run of _execute_plan left a task pending only if some task it
\* depends on did not complete or does not exist: the sort drops no other task
\* and every task of a level is accounted for.
THEOREM OnlyBlockedPending ==
    ASSUME \A p \in Plans : DistinctIds(p)
    PROVE  PlanSpec => []OnlyBlockedLeftPending
<1>1. ExecInv => OnlyBlockedLeftPending
  <2> SUFFICES ASSUME ExecInv, phase = "done", NEW i \in DOMAIN plan,
                      status[i] = "pending", Dag!DependenciesCompleted(i)
               PROVE  FALSE
    BY DEF OnlyBlockedLeftPending
  <2>1. Sorted /\ LeftLevels = Len(levels) /\ ~InLevel
    BY DEF ExecInv, IdleState, LeftLevels, InLevel
  <2>2. plan[i].id \notin Emitted
    <3>1. ~Left(i)
      BY DEF ExecInv, LeftTasksEnded, Recorded, Lost
    <3> QED
      BY <3>1, <2>1, ExecFacts DEF Left, Emitted
  <2>3. PICK d \in plan[i].dependencies : d \notin Emitted
    BY <2>1, <2>2, ExecFacts, SortInvImplies DEF ExecInv, OnlyBlockedDropped
  <2>4. PICK j \in DOMAIN plan : plan[j].id = d /\ status[j] = "completed"
    BY DEF Dag!DependenciesCompleted
  <2>5. ~Left(j) /\ ~Current(j)
    BY <2>1, <2>3, <2>4, ExecFacts DEF Left, Emitted, Current
  <2> QED
    BY <2>4, <2>5 DEF ExecInv, LaterTasksUntouched
<1> QED
  BY <1>1, ExecInvariant, PTL

-----------------------------------------------------------------------------
(* The progress.  While a level runs, its completed tasks are not counted  *)
(* yet; they are added all at once when the gather returns.                *)

Counted == {i \in DOMAIN plan : status[i] = "completed" /\ ~(phase = "run" /\ i \in gathered)}

ProgressInv ==
    /\ ExecInv
    /\ completedCount = Cardinality(Counted)

LEMMA CountedStep ==
    ASSUME ExecInv, [ExecuteNext]_planVars, ~CompleteLevel
    PROVE  Counted' = Counted /\ completedCount' = completedCount
<1> USE DEF Counted
<1>1. CASE Sort \/ EnterLevel \/ FinishPlan \/ UNCHANGED planVars
  BY <1>1 DEF Sort, EmitLevel, EnterLevel, AtLevelBoundary, FinishPlan, planVars, execVars,
              vars, sortVars
<1>2. CASE Filter
  <2>1. PICK i \in DOMAIN plan : SkipFailed(i) \/ CancelDependent(i) \/ Admit(i)
    BY <1>2 DEF Filter
  <2>2. /\ phase = "filter" /\ phase' = phase /\ plan' = plan /\ completedCount' = completedCount
        /\ status[i] \in {"pending", "failed"}
    BY <2>1, FilterFrame DEF SkipFailed, CancelDependent, Admit, vars, sortVars
  <2>3. /\ status'[i] # "completed"
        /\ \A j \in DOMAIN plan : j # i => status'[j] = status[j]
    BY <2>1, <2>2 DEF SkipFailed, CancelDependent, Admit, ExecInv, PlanTypeOK
  <2> QED BY <2>2, <2>3
<1>3. CASE Dispatch
  <2>1. /\ phase = "filter" /\ plan' = plan /\ status' = status /\ gathered' = gathered
        /\ completedCount' = completedCount /\ \A i \in gathered : status[i] = "pending"
    BY <1>3 DEF Dispatch, vars, sortVars, ExecInv, FilterState
  <2> QED BY <2>1
<1>4. CASE Run
  <2>1. PICK i \in DOMAIN plan : Start(i) \/ Finish(i)
    BY <1>4 DEF Run
  <2>2. /\ phase = "run" /\ phase' = phase /\ plan' = plan /\ gathered' = gathered
        /\ completedCount' = completedCount
        /\ \A j \in DOMAIN plan : j # i => status'[j] = status[j]
    BY <2>1 DEF Start, Finish, vars, sortVars, ExecInv, PlanTypeOK
  <2>3. i \in gathered
    <3>1. CASE Start(i)
      BY <2>2, <3>1 DEF Start, ExecInv, RunState
    <3>2. CASE Finish(i)
      <4>1. status[i] = "running"
        BY <3>2 DEF Finish
      <4>2. Current(i)
        BY <4>1 DEF ExecInv, LeftTasksEnded, LaterTasksUntouched, Recorded, Lost
      <4> QED BY <2>2, <4>1, <4>2 DEF ExecInv, RunState, Recorded, Lost
    <3> QED BY <2>1, <3>1, <3>2
  <2> QED BY <2>2, <2>3
<1> QED BY <1>1, <1>2, <1>3, <1>4 DEF ExecuteNext

LEMMA CountedAtOnce ==
    ASSUME ProgressInv, CompleteLevel
    PROVE  completedCount' = Cardinality(Counted')
<1>1. /\ phase = "run" /\ phase' = "between" /\ plan' = plan /\ status' = status
      /\ completedCount' = completedCount + Cardinality(CompletedInLevel)
  BY DEF CompleteLevel, vars, sortVars
<1>2. gathered \subseteq DOMAIN plan
  BY DEF ProgressInv, ExecInv, PlanTypeOK
<1>3. Counted' = Counted \cup CompletedInLevel /\ Counted \cap CompletedInLevel = {}
  BY <1>1, <1>2 DEF Counted, CompletedInLevel
<1>4. IsFiniteSet(Counted) /\ IsFiniteSet(CompletedInLevel)
  <2>1. IsFiniteSet(DOMAIN plan)
    BY ExecFacts DEF ProgressInv
  <2>2. Counted \subseteq DOMAIN plan /\ CompletedInLevel \subseteq DOMAIN plan
    BY <1>2 DEF Counted, CompletedInLevel
  <2> QED BY <2>1, <2>2, FS_Subset
<1>5. Cardinality(Counted') = Cardinality(Counted) + Cardinality(CompletedInLevel)
  <2>1. /\ Cardinality(Counted \cup CompletedInLevel) =
              Cardinality(Counted) + Cardinality(CompletedInLevel)
                  - Cardinality(Counted \cap CompletedInLevel)
        /\ Cardinality(Counted \cap CompletedInLevel) = 0
        /\ Cardinality(Counted) \in Nat /\ Cardinality(CompletedInLevel) \in Nat
    BY <1>3, <1>4, FS_Union, FS_EmptySet, FS_CardinalityType
  <2> QED BY <1>3, <2>1
<1> QED BY <1>1, <1>5 DEF ProgressInv

\* The progress sent to the session after a level is the number of tasks that
\* really completed: whatever the interleaving of the coroutines, none is counted
\* twice, and none is lost between two levels.
THEOREM ProgressCountsCompleted ==
    ASSUME \A p \in Plans : DistinctIds(p)
    PROVE  PlanSpec => []ProgressIsExact
<1>1. PlanInit /\ ExecInv => ProgressInv
  <2> SUFFICES ASSUME PlanInit, ExecInv PROVE ProgressInv
    OBVIOUS
  <2>1. Counted = {}
    BY DEF PlanInit, Counted
  <2> QED BY <2>1, FS_EmptySet DEF PlanInit, ExecuteInit, ProgressInv
<1>2. ProgressInv /\ ExecInv' /\ [ExecuteNext]_planVars => ProgressInv'
  <2> SUFFICES ASSUME ProgressInv, ExecInv', [ExecuteNext]_planVars PROVE ProgressInv'
    OBVIOUS
  <2>1. CASE CompleteLevel
    BY <2>1, CountedAtOnce DEF ProgressInv
  <2>2. CASE ~CompleteLevel
    BY <2>2, CountedStep DEF ProgressInv
  <2> QED BY <2>1, <2>2
<1>3. ProgressInv => ProgressIsExact
  <2> SUFFICES ASSUME ProgressInv, phase \in {"between", "done"}
               PROVE  completedCount = Cardinality({i \in DOMAIN plan : status[i] = "completed"})
    BY DEF ProgressIsExact
  <2>1. Counted = {i \in DOMAIN plan : status[i] = "completed"}
    BY DEF Counted
  <2> QED BY <2>1 DEF ProgressInv
<1> QED BY <1>1, <1>2, <1>3, ExecInvariant, PTL DEF PlanSpec

-----------------------------------------------------------------------------
(* AgentLoop: what an execution keeps whatever plan it is given, also one  *)
(* that names ids twice or has been run before.                            *)

\* No task that failed waits for a permit, none runs outside the gather, and no
\* task is lost without a failed one in the plan.
TurnInv ==
    /\ plan \in Seq(SubTask)
    /\ status \in [DOMAIN plan -> Status]
    /\ phase \in Phase
    /\ failedTaskIds \in SUBSET Id
    /\ gathered \subseteq DOMAIN plan
    /\ waiting \subseteq gathered
    /\ phase # "run" => Running = {} /\ waiting = {}
    /\ phase = "filter" => \A i \in gathered : status[i] # "failed"
    /\ phase = "run" => \A i \in waiting : status[i] \notin {"failed", "running"}
    /\ failedTaskIds # {} \/ (\E i \in DOMAIN plan : status[i] = "cancelled") => AnyFailed

FailedStay == \A i \in DOMAIN plan : status[i] = "failed" => status'[i] = "failed"

LEMMA IdsOfPlan ==
    ASSUME TurnInv
    PROVE  \A i \in DOMAIN plan : plan[i].id \in Id
<1>1. \A i \in DOMAIN plan : plan[i] \in SubTask
  BY DEF TurnInv
<1> QED BY <1>1 DEF SubTask

LEMMA FilterKeeps ==
    ASSUME TurnInv, NEW i \in DOMAIN plan, i \in unfiltered => phase = "filter",
           SkipFailed(i) \/ CancelDependent(i) \/ Admit(i)
    PROVE  TurnInv' /\ FailedStay /\ plan' = plan
<1>1. phase = "filter" /\ phase' = phase /\ plan' = plan /\ waiting' = waiting /\ Running = {}
  BY DEF SkipFailed, CancelDependent, Admit, vars, sortVars, TurnInv
<1>2. CASE SkipFailed(i)
  <2>1. AnyFailed /\ status' = status /\ gathered' = gathered
        /\ failedTaskIds' = failedTaskIds \cup {plan[i].id}
    BY <1>2 DEF SkipFailed, HasFailed, AnyFailed
  <2> QED BY <1>1, <2>1, IdsOfPlan DEF TurnInv, FailedStay, AnyFailed, Running
<1>3. CASE CancelDependent(i)
  <2>1. /\ failedTaskIds # {} /\ status[i] # "failed" /\ gathered' = gathered
        /\ failedTaskIds' = failedTaskIds \cup {plan[i].id}
    BY <1>3 DEF CancelDependent, HasFailed, DependencyFailed
  <2>2. /\ status' \in [DOMAIN plan -> Status] /\ status'[i] = "cancelled"
        /\ \A j \in DOMAIN plan : j # i => status'[j] = status[j]
    BY <1>3 DEF CancelDependent, TurnInv, Status
  <2>3. PICK f \in DOMAIN plan : status[f] = "failed"
    BY <2>1 DEF TurnInv, AnyFailed
  <2>4. AnyFailed'
    BY <1>1, <2>1, <2>2, <2>3 DEF AnyFailed
  <2>5. Running' = {}
    BY <1>1, <2>2 DEF Running
  <2> QED BY <1>1, <2>1, <2>2, <2>4, <2>5, IdsOfPlan DEF TurnInv, FailedStay
<1>4. CASE Admit(i)
  <2>1. /\ status' = status /\ failedTaskIds' = failedTaskIds /\ gathered' = gathered \cup {i}
        /\ status[i] # "failed"
    BY <1>4 DEF Admit, HasFailed
  <2> QED BY <1>1, <2>1 DEF TurnInv, FailedStay, AnyFailed, Running
<1> QED BY <1>1, <1>2, <1>3, <1>4

LEMMA RunKeeps ==
    ASSUME TurnInv, NEW i \in DOMAIN plan, Start(i) \/ Finish(i)
    PROVE  TurnInv' /\ FailedStay /\ plan' = plan
<1>1. /\ phase = "run" /\ phase' = phase /\ plan' = plan
      /\ UNCHANGED <<gathered, failedTaskIds>> /\ waiting' \subseteq waiting
      /\ status[i] # "failed"
      /\ Start(i) => i \notin waiting' /\ status'[i] = "running"
      /\ Finish(i) => i \notin waiting /\ status'[i] \in {"completed", "failed"}
      /\ status' \in [DOMAIN plan -> Status]
      /\ \A j \in DOMAIN plan : j # i => status'[j] = status[j]
  BY DEF Start, Finish, TurnInv, vars, sortVars, Status
<1>2. AnyFailed => AnyFailed'
  BY <1>1 DEF AnyFailed
<1> QED BY <1>1, <1>2 DEF TurnInv, FailedStay

LEMMA CompleteLevelKeeps ==
    ASSUME TurnInv, CompleteLevel
    PROVE  TurnInv' /\ FailedStay /\ plan' = plan
<1>1. /\ phase' = "between" /\ plan' = plan /\ Running = {} /\ waiting = {}
      /\ UNCHANGED <<status, gathered, waiting>>
      /\ failedTaskIds' = failedTaskIds \cup
             {plan[i].id : i \in {j \in gathered : status[j] = "failed"}}
  BY DEF CompleteLevel, vars, sortVars
<1>2. failedTaskIds' \in SUBSET Id
  BY <1>1, IdsOfPlan DEF TurnInv
<1>3. failedTaskIds' # failedTaskIds => AnyFailed
  BY <1>1 DEF AnyFailed, TurnInv
<1> QED BY <1>1, <1>2, <1>3 DEF TurnInv, FailedStay, Phase, AnyFailed, Running

LEMMA TurnStep ==
    ASSUME TurnInv, phase # "filter" => unfiltered = {}, ExecuteNext
    PROVE  /\ TurnInv' /\ FailedStay /\ plan' = plan
           /\ phase' # "filter" => unfiltered' = {}
<1>1. CASE Sort
  BY <1>1 DEF Sort, EmitLevel, execVars, TurnInv, FailedStay, AnyFailed, Running
<1>2. CASE EnterLevel \/ Dispatch \/ FinishPlan
  <2>1. /\ plan' = plan /\ status' = status /\ failedTaskIds' = failedTaskIds /\ phase # "run"
        /\ gathered' \in {gathered, {}} /\ waiting' \in {waiting, gathered}
        /\ phase' \in Phase /\ (phase' # "filter" => unfiltered' = {})
    BY <1>2 DEF EnterLevel, AtLevelBoundary, Dispatch, FinishPlan, vars, sortVars, Phase
  <2>2. Running = {} /\ Running' = {}
    BY <2>1 DEF TurnInv, Running
  <2>3. CASE EnterLevel
    BY <2>1, <2>2, <2>3 DEF EnterLevel, TurnInv, FailedStay, AnyFailed
  <2>4. CASE Dispatch
    <3>1. \A i \in gathered : status[i] \notin {"failed", "running"}
      BY <2>2, <2>4 DEF Dispatch, TurnInv, Running
    <3>2. /\ phase' \in {"between", "run"} /\ gathered' = gathered /\ waiting' = gathered
          /\ phase' = "between" => gathered = {}
      BY <2>4 DEF Dispatch
    <3>3. TurnInv'
      BY <2>1, <2>2, <3>1, <3>2 DEF TurnInv, AnyFailed
    <3> QED BY <2>1, <3>3 DEF FailedStay
  <2>5. CASE FinishPlan
    BY <2>1, <2>2, <2>5 DEF FinishPlan, TurnInv, FailedStay, AnyFailed
  <2> QED BY <1>2, <2>3, <2>4, <2>5
<1>3. CASE Filter
  BY <1>3, FilterKeeps DEF Filter, SkipFailed, CancelDependent, Admit
<1>4. CASE Run
  BY <1>4, RunKeeps DEF Run, Start, Finish
<1>5. CASE CompleteLevel
  BY <1>5, CompleteLevelKeeps DEF CompleteLevel
<1> QED BY <1>1, <1>2, <1>3, <1>4, <1>5 DEF ExecuteNext

-----------------------------------------------------------------------------
(* The loop.                                                               *)

LoopInv ==
    /\ LoopTypeOK
    /\ TurnInv
    /\ phase # "filter" => unfiltered = {}
    /\ stage # "execute" => Running = {}
    /\ stage = "decompose" =>
          plan = <<>> /\ hooks = <<>> /\ phase = "sort" /\ failedTaskIds = {}
          /\ gathered = {} /\ waiting = {}
    /\ stage = "execute" => hooks # <<>> /\ hooks[Len(hooks)] = "pre_loop_turn"
    /\ stage = "turn" => OpenTurns = {}
    /\ response # "none" => stage = "end"
    /\ response \notin {"none", "INTERNAL_ERROR"} => OpenTurns = {}
    /\ SuccessHidesNoLoss

LEMMA DecomposedType ==
    ASSUME NEW p, p \in Decomposed(Plans) \/ p \in Decomposed(Supplements)
    PROVE  p \in Seq(SubTask)
<1>1. p \in Plans \/ p \in Supplements \/ p = <<>>
  BY DEF Decomposed
<1>2. p \in Plans => p \in Seq(SubTask)
  BY PlansAssumption
<1>3. p \in Supplements => p \in Seq(SubTask)
  BY SupplementsAssumption
<1>4. p = <<>> => p \in Seq(SubTask)
  OBVIOUS
<1> QED BY <1>1, <1>2, <1>3, <1>4

(* After the hook that ends a turn no turn is open.                        *)
LEMMA ClosingHook ==
    ASSUME hooks \in Seq(HookEvent), NEW e \in {"post_loop_turn", "on_terminal"},
           hooks' = Append(hooks, e)
    PROVE  OpenTurns' = {} /\ hooks' \in Seq(HookEvent)
<1>1. /\ Len(hooks) \in Nat /\ DOMAIN hooks' = 1..(Len(hooks) + 1) /\ hooks'[Len(hooks) + 1] = e
      /\ hooks' \in Seq(HookEvent)
  BY DEF HookEvent
<1>2. ASSUME NEW k \in DOMAIN hooks', hooks'[k] = "pre_loop_turn"
      PROVE  \E j \in DOMAIN hooks' : j > k /\ hooks'[j] \in {"post_loop_turn", "on_terminal"}
  <2>1. k # Len(hooks) + 1
    BY <1>1, <1>2
  <2>2. Len(hooks) + 1 > k /\ Len(hooks) + 1 \in DOMAIN hooks'
    BY <1>1, <2>1
  <2> QED BY <1>1, <2>2
<1> QED BY <1>1, <1>2 DEF OpenTurns

LEMMA LoopInit == RequestInit => LoopInv
<1> SUFFICES ASSUME RequestInit PROVE LoopInv
  OBVIOUS
<1> USE DEF RequestInit, ExecuteInit
<1>1. Running = {} /\ DOMAIN plan = {} /\ OpenTurns = {}
  BY DEF Running, OpenTurns
<1>2. plan \in Seq(SubTask) /\ hooks \in Seq(HookEvent) /\ status \in [DOMAIN plan -> Status]
  OBVIOUS
<1>3. LoopTypeOK
  BY <1>2, MaxTurnsAssumption DEF LoopTypeOK, Phase, Stage
<1>4. TurnInv
  BY <1>1, <1>2 DEF TurnInv, Phase
<1> QED BY <1>1, <1>3, <1>4 DEF LoopInv, SuccessHidesNoLoss

LEMMA DecomposeStep ==
    ASSUME LoopInv, Decompose
    PROVE  LoopInv' /\ FailedStay
<1>1. /\ stage = "decompose" /\ plan' \in Decomposed(Plans) /\ status' \in FreshStatuses(plan')
      /\ hooks' = hooks \o <<"pre_decompose", "post_decompose">>
      /\ \/ stage' = "turn" /\ UNCHANGED <<terminal, response>>
         \/ /\ stage' = "end" /\ terminal' = "unrecoverable_error"
            /\ response' \in {"NO_TASKS", "SKILL_NOT_FOUND"}
      /\ UNCHANGED <<sortVars, phase, levelIdx, unfiltered, waiting, gathered,
                     failedTaskIds, completedCount, planStatus, turn>>
  BY DEF Decompose
<1>2. /\ plan = <<>> /\ hooks = <<>> /\ phase = "sort" /\ failedTaskIds = {} /\ gathered = {}
      /\ waiting = {} /\ response = "none" /\ unfiltered = {}
  BY <1>1 DEF LoopInv
<1>3. plan' \in Seq(SubTask) /\ status' \in [DOMAIN plan' -> Status] /\ Running' = {}
      /\ \A i \in DOMAIN plan' : status'[i] # "cancelled"
  BY <1>1, DecomposedType DEF FreshStatuses, Status, Running
<1>4. hooks' = <<"pre_decompose", "post_decompose">>
  BY <1>1, <1>2
<1>5. hooks' \in Seq(HookEvent) /\ OpenTurns' = {}
  <2>1. hooks' \in Seq(HookEvent)
    BY <1>4 DEF HookEvent
  <2>2. \A k \in DOMAIN hooks' : hooks'[k] # "pre_loop_turn"
    BY <1>4
  <2> QED BY <2>1, <2>2 DEF OpenTurns
<1>6. LoopTypeOK'
  BY <1>1, <1>2, <1>3, <1>5 DEF LoopInv, LoopTypeOK, Stage
<1>7. TurnInv'
  BY <1>1, <1>2, <1>3 DEF LoopInv, TurnInv
<1>8. FailedStay
  BY <1>2 DEF FailedStay
<1> QED BY <1>1, <1>2, <1>3, <1>5, <1>6, <1>7, <1>8 DEF LoopInv, SuccessHidesNoLoss

LEMMA BeginTurnStep ==
    ASSUME LoopInv, BeginTurn
    PROVE  LoopInv' /\ FailedStay
<1>1. /\ stage = "turn" /\ turn < MaxTurns /\ turn' = turn + 1 /\ stage' = "execute" /\ phase' = "sort"
      /\ unfiltered' = {} /\ waiting' = {} /\ gathered' = {} /\ failedTaskIds' = {}
      /\ hooks' = Append(hooks, "pre_loop_turn")
      /\ UNCHANGED <<plan, status, terminal, response>>
  BY DEF BeginTurn, TurnsLeft, Trigger
<1>2. Running = {} /\ Running' = {} /\ response = "none"
  BY <1>1 DEF LoopInv, Running
<1>3. /\ hooks' \in Seq(HookEvent) /\ hooks' # <<>> /\ hooks'[Len(hooks')] = "pre_loop_turn"
  BY <1>1 DEF LoopInv, LoopTypeOK, HookEvent
<1>4. turn' \in 0..MaxTurns
  BY <1>1, MaxTurnsAssumption DEF LoopInv, LoopTypeOK
<1>5. LoopTypeOK'
  BY <1>1, <1>3, <1>4 DEF LoopInv, LoopTypeOK, Stage, Phase
<1>6. TurnInv'
  BY <1>1, <1>2 DEF LoopInv, TurnInv, Phase, AnyFailed
<1> QED BY <1>1, <1>2, <1>3, <1>5, <1>6 DEF LoopInv, SuccessHidesNoLoss, FailedStay

LEMMA ExecuteStep ==
    ASSUME LoopInv, Execute
    PROVE  LoopInv' /\ FailedStay
<1>1. stage = "execute" /\ ExecuteNext /\ UNCHANGED <<stage, turn, terminal, response, hooks>>
  BY DEF Execute, loopVars
<1>2. TurnInv' /\ FailedStay /\ plan' = plan /\ (phase' # "filter" => unfiltered' = {})
  BY <1>1, TurnStep DEF LoopInv
<1>3. response = "none"
  BY <1>1 DEF LoopInv
<1>4. LoopTypeOK'
  BY <1>1, <1>2 DEF LoopInv, LoopTypeOK, TurnInv
<1> QED BY <1>1, <1>2, <1>3, <1>4 DEF LoopInv, SuccessHidesNoLoss

(* The steps between two turns, and the answer, run no task.               *)
LEMMA QuietStep ==
    ASSUME LoopInv, UNCHANGED <<plan, status, phase, unfiltered, waiting, gathered, failedTaskIds>>,
           LoopTypeOK', Running = {}, stage' \notin {"decompose", "execute", "turn"},
           response' # "none" => stage' = "end",
           response' \notin {"none", "INTERNAL_ERROR"} => OpenTurns' = {},
           SuccessHidesNoLoss'
    PROVE  LoopInv' /\ FailedStay
<1>1. Running' = {}
  BY DEF Running
<1>2. TurnInv'
  BY <1>1 DEF LoopInv, TurnInv, AnyFailed
<1> QED BY <1>1, <1>2 DEF LoopInv, FailedStay

LEMMA RejectInputStep ==
    ASSUME LoopInv, RejectInput
    PROVE  LoopInv' /\ FailedStay
<1>1. /\ stage = "decompose" /\ stage' = "end" /\ response' \in InputRefused
      /\ UNCHANGED <<plan, status, phase, unfiltered, waiting, gathered, failedTaskIds, turn, terminal, hooks>>
  BY DEF RejectInput, planVars, execVars, vars
<1>2. hooks' = <<>> /\ Running = {}
  BY <1>1 DEF LoopInv
<1>3. OpenTurns' = {}
  BY <1>2 DEF OpenTurns
<1>4. LoopTypeOK'
  BY <1>1 DEF LoopInv, LoopTypeOK, Stage
<1>5. SuccessHidesNoLoss'
  BY <1>1 DEF SuccessHidesNoLoss, InputRefused
<1> QED BY <1>1, <1>2, <1>3, <1>4, <1>5, QuietStep

LEMMA CheckTerminalStep ==
    ASSUME LoopInv, CheckTerminal
    PROVE  LoopInv' /\ FailedStay
<1>1. /\ stage = "execute" /\ phase = "done"
      /\ stage' \in {"respond", "end", "decide"}
      /\ terminal' \in {terminal, "unrecoverable_error", "aborted"}
      /\ response' = response \/ (response' = "INTERNAL_ERROR" /\ stage' = "end")
      /\ UNCHANGED <<plan, status, phase, unfiltered, waiting, gathered, failedTaskIds, turn, hooks>>
  BY DEF CheckTerminal, planVars, execVars, vars
<1>2. Running = {} /\ response = "none"
  BY <1>1 DEF LoopInv, TurnInv
<1>3. LoopTypeOK'
  BY <1>1 DEF LoopInv, LoopTypeOK, Stage
<1> QED BY <1>1, <1>2, <1>3, QuietStep DEF SuccessHidesNoLoss

LEMMA DecideStep ==
    ASSUME LoopInv, Decide \/ TurnsExhausted
    PROVE  LoopInv' /\ FailedStay
<1>1. /\ stage \in {"decide", "turn"} /\ stage' \in {"supplement", "respond"}
      /\ terminal' \in {terminal, "completed", "max_turns"}
      /\ UNCHANGED <<plan, status, phase, unfiltered, waiting, gathered, failedTaskIds, turn, response, hooks>>
  BY DEF Decide, TurnsExhausted, planVars, execVars, vars
<1>2. Running = {} /\ response = "none"
  BY <1>1 DEF LoopInv
<1>3. LoopTypeOK'
  BY <1>1 DEF LoopInv, LoopTypeOK, Stage
<1> QED BY <1>1, <1>2, <1>3, QuietStep DEF SuccessHidesNoLoss

LEMMA SupplementStep ==
    ASSUME LoopInv, Supplement
    PROVE  LoopInv' /\ FailedStay
<1>1. PICK s \in Decomposed(Supplements) :
          /\ plan' = plan \o s
          /\ \E fresh \in FreshStatuses(s) :
                status' = [i \in DOMAIN plan' |->
                    IF i <= Len(plan) THEN status[i] ELSE fresh[i - Len(plan)]]
  BY DEF Supplement
<1>2. PICK fresh \in FreshStatuses(s) :
          status' = [i \in DOMAIN plan' |-> IF i <= Len(plan) THEN status[i] ELSE fresh[i - Len(plan)]]
  BY <1>1
<1>3. /\ stage = "supplement" /\ stage' = "turn" /\ hooks' = Append(hooks, "post_loop_turn")
      /\ UNCHANGED <<phase, unfiltered, waiting, gathered, failedTaskIds, turn, terminal, response>>
  BY DEF Supplement, Trigger
<1>4. Running = {} /\ response = "none"
  BY <1>3 DEF LoopInv
<1>5. /\ plan \in Seq(SubTask) /\ s \in Seq(SubTask) /\ Len(plan) \in Nat /\ Len(s) \in Nat
      /\ DOMAIN plan = 1..Len(plan) /\ DOMAIN s = 1..Len(s)
  BY DecomposedType DEF LoopInv, TurnInv
<1>6. plan' \in Seq(SubTask) /\ DOMAIN plan' = 1..(Len(plan) + Len(s))
  BY <1>1, <1>5
<1>7. ASSUME NEW i \in DOMAIN plan'
      PROVE  \/ i \in DOMAIN plan /\ status'[i] = status[i]
             \/ i \notin DOMAIN plan /\ status'[i] \in {"pending", "failed"}
  <2>1. CASE i <= Len(plan)
    BY <1>2, <1>5, <1>6, <2>1
  <2>2. CASE ~(i <= Len(plan))
    <3>1. i - Len(plan) \in DOMAIN s
      BY <1>5, <1>6, <2>2
    <3>2. fresh[i - Len(plan)] \in {"pending", "failed"}
      BY <3>1 DEF FreshStatuses
    <3> QED BY <1>2, <1>5, <1>6, <2>2, <3>2
  <2> QED BY <2>1, <2>2
<1>8. DOMAIN plan \subseteq DOMAIN plan' /\ \A i \in DOMAIN plan : status'[i] = status[i]
  BY <1>5, <1>6, <1>7
<1>9. status' \in [DOMAIN plan' -> Status]
  <2>1. \A i \in DOMAIN plan' : status'[i] \in Status
    BY <1>7 DEF LoopInv, TurnInv, Status
  <2>2. status' = [i \in DOMAIN plan' |-> status'[i]]
    BY <1>2
  <2> QED BY <2>1, <2>2
<1>10. Running' = {}
  BY <1>4, <1>7 DEF Running
<1>11. TurnInv'
  <2>1. AnyFailed => AnyFailed'
    BY <1>8 DEF AnyFailed
  <2>2. (\E i \in DOMAIN plan' : status'[i] = "cancelled") => \E i \in DOMAIN plan : status[i] = "cancelled"
    BY <1>7
  <2>3. /\ phase' = "filter" => \A i \in gathered' : status'[i] # "failed"
        /\ phase' = "run" => \A i \in waiting' : status'[i] \notin {"failed", "running"}
    BY <1>3, <1>8 DEF LoopInv, TurnInv
  <2> QED BY <1>3, <1>6, <1>8, <1>9, <1>10, <2>1, <2>2, <2>3 DEF LoopInv, TurnInv
<1>12. OpenTurns' = {} /\ hooks' \in Seq(HookEvent)
  BY <1>3, ClosingHook DEF LoopInv, LoopTypeOK
<1>13. LoopTypeOK'
  BY <1>3, <1>6, <1>9, <1>12 DEF LoopInv, LoopTypeOK, Stage
<1> QED BY <1>3, <1>4, <1>8, <1>10, <1>11, <1>12, <1>13 DEF LoopInv, SuccessHidesNoLoss, FailedStay

LEMMA RespondStep ==
    ASSUME LoopInv, Respond
    PROVE  LoopInv' /\ FailedStay
<1>1. /\ stage = "respond" /\ stage' = "end" /\ hooks' = Append(hooks, "on_terminal")
      /\ response' = IF AnyFailed THEN "PARTIAL_FAILURE" ELSE "success"
      /\ UNCHANGED <<plan, status, phase, unfiltered, waiting, gathered, failedTaskIds, turn, terminal>>
  BY DEF Respond, Trigger, planVars, execVars, vars
<1>2. Running = {}
  BY <1>1 DEF LoopInv
<1>3. OpenTurns' = {} /\ hooks' \in Seq(HookEvent)
  BY <1>1, ClosingHook DEF LoopInv, LoopTypeOK
<1>4. LoopTypeOK'
  BY <1>1, <1>3 DEF LoopInv, LoopTypeOK, Stage
<1>5. SuccessHidesNoLoss'
  <2>1. ~AnyFailed => \A i \in DOMAIN plan : status[i] \in {"completed", "pending"}
    BY <1>2 DEF LoopInv, TurnInv, AnyFailed, Running, Status
  <2> QED BY <1>1, <2>1 DEF SuccessHidesNoLoss
<1> QED BY <1>1, <1>2, <1>3, <1>4, <1>5, QuietStep

LEMMA LoopStutter ==
    ASSUME LoopInv, UNCHANGED requestVars
    PROVE  LoopInv' /\ FailedStay
<1>1. UNCHANGED <<plan, status, phase, unfiltered, waiting, gathered, failedTaskIds,
                  stage, turn, terminal, response, hooks>>
  BY DEF requestVars, planVars, execVars, vars, loopVars
<1> QED BY <1>1 DEF LoopInv, LoopTypeOK, TurnInv, OpenTurns, SuccessHidesNoLoss, Running, AnyFailed,
                    FailedStay

LEMMA LoopStep ==
    ASSUME LoopInv, [RequestNext]_requestVars
    PROVE  LoopInv' /\ FailedStay
BY RejectInputStep, DecomposeStep, BeginTurnStep, ExecuteStep, CheckTerminalStep, DecideStep,
   SupplementStep, RespondStep, LoopStutter DEF RequestNext

LEMMA LoopInvariant == RequestSpec => []LoopInv
<1>1. LoopInv /\ [RequestNext]_requestVars => LoopInv'
  BY LoopStep
<1> QED BY <1>1, LoopInit, PTL DEF RequestSpec

\* process_request keeps the types of its variables, whatever the decompositions
\* return and however often the loop turns.
THEOREM LoopTypesHold == RequestSpec => []LoopTypeOK
<1>1. LoopInv => LoopTypeOK
  BY DEF LoopInv
<1> QED BY <1>1, LoopInvariant, PTL

\* A task that failed in one turn of process_request is still failed when the
\* request is answered, whatever later turns append to the plan or run again.
THEOREM FailuresKept == RequestSpec => FailuresAreKept
<1>1. LoopInv /\ [RequestNext]_requestVars =>
         [\A i \in DOMAIN plan : status[i] = "failed" => status'[i] = "failed"]_requestVars
  BY LoopStep DEF FailedStay
<1> QED BY <1>1, LoopInvariant, PTL DEF RequestSpec, FailuresAreKept

\* A request answered with success has no failed, cancelled or running task,
\* although process_request only looks for failed ones: a task is cancelled only
\* while a failed one is in the plan, and that one stays failed.
THEOREM SuccessIsWhole == RequestSpec => []SuccessHidesNoLoss
<1>1. LoopInv => SuccessHidesNoLoss
  BY DEF LoopInv
<1> QED BY <1>1, LoopInvariant, PTL

\* Every turn the hooks were told of is closed by a hook before the next begins
\* and before the request is answered, and no task runs when they are told of the
\* end; only an internal error leaves a turn open.
THEOREM TurnsClosed == RequestSpec => []TurnsAreClosed
<1>1. LoopInv => TurnsAreClosed
  BY DEF LoopInv, TurnsAreClosed
<1> QED BY <1>1, LoopInvariant, PTL

-----------------------------------------------------------------------------
(* AgentLoop: the sort of a turn.  The plan grows only between two turns,  *)
(* and what the last sort left is not read again before the next begins.   *)

SortedOnce ==
    /\ EmittedOnce
    /\ stage = "execute" => SortTypeOK /\ NoneLeft

LEMMA SortedOnceStep ==
    ASSUME LoopInv, SortedOnce, [RequestNext]_requestVars
    PROVE  SortedOnce'
<1>1. CASE BeginTurn
  <2>1. /\ plan \in Seq(SubTask) /\ plan' = plan /\ levels' = <<>>
        /\ inDegree' = InitialInDegree(plan) /\ currentLevel' = Roots(plan)
    BY <1>1 DEF BeginTurn, LoopInv, LoopTypeOK
  <2>2. InitialInDegree(plan) \in [TaskIds(plan) -> Nat] /\ Emitted' = {}
    BY <2>1, InitialInDegreeType DEF Emitted
  <2>3. /\ \A t \in Roots(plan) : InitialInDegree(plan)[t] = 0
        /\ Roots(plan) \in SUBSET TaskIds(plan)
    BY DEF Roots
  <2>4. EmittedOnce' /\ NoneLeft'
    BY <2>1, <2>2, <2>3 DEF EmittedOnce, NoneLeft
  <2>5. SortTypeOK'
    BY <2>1, <2>2, <2>3 DEF SortTypeOK
  <2> QED BY <2>4, <2>5 DEF SortedOnce
<1>2. CASE Execute
  <2>1. stage = "execute" /\ stage' = stage /\ SortTypeOK /\ NoneLeft /\ EmittedOnce
    BY <1>2 DEF Execute, SortedOnce, loopVars
  <2>2. EmitLevel \/ UNCHANGED vars
    BY <1>2 DEF Execute, ExecuteNext, Sort, EnterLevel, Filter, SkipFailed, CancelDependent,
       Admit, Dispatch, Run, Start, Finish, CompleteLevel, FinishPlan
  <2>3. CASE EmitLevel
    BY <2>1, <2>3, EmitLevelType, NoneLeftStep DEF SortedOnce
  <2>4. CASE UNCHANGED vars
    BY <2>1, <2>4 DEF SortedOnce, EmittedOnce, NoneLeft, Emitted, SortTypeOK, vars, sortVars
  <2> QED BY <2>2, <2>3, <2>4
<1>3. CASE RejectInput \/ Decompose \/ CheckTerminal \/ Decide \/ Supplement
              \/ TurnsExhausted \/ Respond
  <2>1. stage' # "execute" /\ UNCHANGED sortVars
    BY <1>3 DEF RejectInput, Decompose, CheckTerminal, Decide, Supplement, TurnsExhausted,
       Respond, planVars, vars
  <2> QED BY <2>1 DEF SortedOnce, EmittedOnce, Emitted, sortVars
<1>4. CASE UNCHANGED requestVars
  <2>1. UNCHANGED <<vars, stage>>
    BY <1>4 DEF requestVars, planVars, loopVars
  <2> QED
    BY <2>1 DEF SortedOnce, EmittedOnce, NoneLeft, Emitted, SortTypeOK, vars, sortVars
<1> QED BY <1>1, <1>2, <1>3, <1>4 DEF RequestNext

\* In no turn of a request is an id dispatched twice, although the plan grows
\* between the turns by tasks that may repeat the ids it has.
THEOREM EmittedOnceEachTurn == RequestSpec => []EmittedOnce
<1>1. RequestInit => SortedOnce
  <2> SUFFICES ASSUME RequestInit PROVE SortedOnce
    OBVIOUS
  <2> QED BY NoneLeftInit DEF RequestInit, SortedOnce
<1>2. LoopInv /\ SortedOnce /\ [RequestNext]_requestVars => SortedOnce'
  BY SortedOnceStep
<1>3. SortedOnce => EmittedOnce
  BY DEF SortedOnce
<1> QED BY <1>1, <1>2, <1>3, LoopInvariant, PTL DEF RequestSpec
=============================================================================
