--------------------------- MODULE TopologicalSort ---------------------------
(***************************************************************************)
(* TaskPlanner.topological_sort (core/task_planner.py): Kahn's algorithm   *)
(* by levels.  A plan is the list of sub-tasks an LLM returned; nothing    *)
(* checks that its ids are distinct, that a dependency names a task of the *)
(* plan, or that the dependencies are acyclic, so none of that is assumed  *)
(* here.  The three dictionaries of the code are keyed by task id: when an *)
(* id occurs twice, the last occurrence is the task the id stands for,     *)
(* while the edges of every occurrence are kept.                           *)
(*                                                                         *)
(* One step is one turn of the `while current_level' loop.  A level is a   *)
(* set of ids: the position of a task inside its level is abstracted.      *)
(***************************************************************************)
EXTENDS Integers, Sequences, FiniteSets

CONSTANTS
    Id,      \* the task ids an LLM answer may use, as names or as dependencies
    Plans    \* the plans decompose() may return

\* A sub-task as far as the order of execution is concerned.
SubTask == [id : Id, dependencies : SUBSET Id]

ASSUME IdAssumption == IsFiniteSet(Id)
ASSUME PlansAssumption == Plans \subseteq Seq(SubTask)

VARIABLES
    plan,          \* plan.sub_tasks
    inDegree,      \* in_degree: the dependencies of an id not yet emitted
    currentLevel,  \* current_level: the ids of the level about to be emitted
    levels         \* levels: the levels emitted so far

sortVars == <<inDegree, currentLevel, levels>>
vars == <<plan, sortVars>>

-----------------------------------------------------------------------------
(* Lookups in a plan p.                                                    *)

TaskIds(p) == {p[i].id : i \in DOMAIN p}

\* task_map[t]: the position of the last sub-task named t.
TaskMap(p, t) ==
    CHOOSE i \in DOMAIN p :
        /\ p[i].id = t
        /\ \A j \in DOMAIN p : p[j].id = t => j <= i

Dependencies(p, t) == p[TaskMap(p, t)].dependencies

DistinctIds(p) == \A i, j \in DOMAIN p : p[i].id = p[j].id => i = j

-----------------------------------------------------------------------------
(* The algorithm.                                                          *)

InitialInDegree(p) ==
    [t \in TaskIds(p) |-> Cardinality(Dependencies(p, t))]

Roots(p) == {t \in TaskIds(p) : InitialInDegree(p)[t] = 0}

\* How often the id t occurs in the dependents lists of the current level.
Decrements(t) ==
    Cardinality({e \in (DOMAIN plan) \X currentLevel :
                    plan[e[1]].id = t /\ e[2] \in plan[e[1]].dependencies})

\* Variants of the test that releases a task: no test for 0, a test for "at most
\* 0", a test made before the decrement.
ReleasedOnFirstDecrement == {t \in TaskIds(plan) : inDegree[t] > 0 /\ Decrements(t) > 0}
ReleasedAgain == {t \in TaskIds(plan) : inDegree[t] <= Decrements(t)}
ReleasedBeforeDecrement ==
    {t \in TaskIds(plan) : inDegree[t] > 0 /\ inDegree[t] < Decrements(t)}

\* The ids whose in-degree passes through 0 while the level is processed.
ReleasedIds ==
    {t \in TaskIds(plan) : inDegree[t] > 0 /\ inDegree[t] <= Decrements(t)}

Sorted == currentLevel = {}

EmitLevel ==
    /\ ~Sorted
    /\ levels' = Append(levels, currentLevel)
    /\ inDegree' = [t \in TaskIds(plan) |-> inDegree[t] - Decrements(t)]
    /\ currentLevel' = ReleasedIds
    /\ UNCHANGED plan

SortInit ==
    /\ inDegree = InitialInDegree(plan)
    /\ currentLevel = Roots(plan)
    /\ levels = <<>>

Init == plan \in Plans /\ SortInit

Next == EmitLevel

Spec == Init /\ [][Next]_vars /\ WF_vars(Next)

-----------------------------------------------------------------------------
(* Properties.                                                             *)

Emitted == UNION {levels[k] : k \in DOMAIN levels}

TypeOK ==
    /\ plan \in Plans
    /\ inDegree \in [TaskIds(plan) -> Int]
    /\ currentLevel \in SUBSET TaskIds(plan)
    /\ levels \in Seq(SUBSET TaskIds(plan))

\* No id is emitted twice, even when the plan names it twice: a task is
\* dispatched at most once in one execution of the plan.
EmittedOnce ==
    /\ \A k, m \in DOMAIN levels : k # m => levels[k] \cap levels[m] = {}
    /\ currentLevel \cap Emitted = {}

\* What topological_sort is for: every dependency of an emitted task was
\* emitted in an earlier level, so the tasks of one level may run together.  A
\* plan that names an id twice has no such guarantee: the edges of the shadowed
\* task release the other one early.
DependenciesFirst ==
    DistinctIds(plan) =>
      \A k \in DOMAIN levels : \A t \in levels[k] :
        \A d \in Dependencies(plan, t) :
            \E m \in 1..(k - 1) : d \in levels[m]

\* No task waits longer than its dependencies force it to: a task that is not
\* a root has a dependency in the level just before its own.
LevelsAreTight ==
    DistinctIds(plan) =>
      \A k \in DOMAIN levels : \A t \in levels[k] :
        k > 1 => Dependencies(plan, t) \cap levels[k - 1] # {}

\* Both together: the level of a task is the length of the longest chain of
\* dependencies below it, so levels are run neither early nor late.
LevelsAreDepths == DependenciesFirst /\ LevelsAreTight

\* When the loop ends, a task was left out only because one of its
\* dependencies was: a cycle, or an id no task of the plan has.
OnlyBlockedDropped ==
    Sorted => \A t \in TaskIds(plan) \ Emitted :
                  Dependencies(plan, t) \ Emitted # {}
=============================================================================
