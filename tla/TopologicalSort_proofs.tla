------------------------ MODULE TopologicalSort_proofs ------------------------
(***************************************************************************)
(* Proofs about TopologicalSort, for every set of ids and of plans.        *)
(***************************************************************************)
EXTENDS TopologicalSort, FiniteSetTheorems, WellFoundedInduction, TLAPS

(* A non-empty set of positions has a greatest element.                    *)
LEMMA GreatestPosition ==
    ASSUME NEW n \in Nat, NEW S \in SUBSET (1..n), S # {}
    PROVE  \E i \in S : \A j \in S : j <= i
<1> DEFINE Above(i) == {j \in S : j > i}
           Tails == {Above(i) : i \in S}
<1>1. IsFiniteSet(S)
  <2>1. IsFiniteSet(1..n)
    BY FS_Interval
  <2> QED
    BY <2>1, FS_Subset
<1>2. Tails \subseteq FiniteSubsetsOf(S) /\ Tails # {}
  <2>1. \A i \in S : Above(i) \in SUBSET S /\ IsFiniteSet(Above(i))
    BY <1>1, FS_Subset
  <2> QED
    BY <2>1 DEF FiniteSubsetsOf
<1>3. PICK x \in Tails : \A y \in Tails : ~ (<<y, x>> \in StrictSubsetOrdering(S))
  BY <1>2, FS_StrictSubsetOrderingWellFounded, WFMin
<1>4. PICK i \in S : x = Above(i)
  BY <1>3
<1>5. SUFFICES ASSUME NEW j \in S, ~ (j <= i)
               PROVE  FALSE
  BY <1>4
<1>6. Above(j) \subseteq Above(i)
  <2>1. i \in Int /\ j \in Int /\ j > i
    BY <1>5
  <2>2. ASSUME NEW k \in S, k > j
        PROVE  k > i
    <3>1. k \in Int
      OBVIOUS
    <3> QED
      BY <2>1, <2>2, <3>1
  <2> QED
    BY <2>2
<1>7. j \in Above(i) /\ j \notin Above(j)
  BY <1>5
<1>8. Above(j) \in Tails
  BY <1>5
<1>9. <<Above(j), Above(i)>> \in StrictSubsetOrdering(S)
  <2>1. Above(i) \in SUBSET S /\ Above(j) \in SUBSET S
    OBVIOUS
  <2> HIDE DEF Above
  <2> QED
    BY <1>6, <1>7, <2>1 DEF StrictSubsetOrdering
<1> QED
  BY <1>3, <1>4, <1>8, <1>9

-----------------------------------------------------------------------------
(* Facts about plans.                                                      *)

(* task_map[t] is a sub-task of the plan whose id is t.                    *)
LEMMA TaskMapFinds ==
    ASSUME NEW p \in Seq(SubTask), NEW t \in TaskIds(p)
    PROVE  TaskMap(p, t) \in DOMAIN p /\ p[TaskMap(p, t)].id = t
<1> DEFINE S == {i \in DOMAIN p : p[i].id = t}
<1>1. S \in SUBSET (1..Len(p)) /\ S # {} /\ Len(p) \in Nat
  BY DEF TaskIds
<1>2. \E i \in S : \A j \in S : j <= i
  BY <1>1, GreatestPosition
<1>3. \E i \in DOMAIN p : /\ p[i].id = t
                          /\ \A j \in DOMAIN p : p[j].id = t => j <= i
  BY <1>2
<1> QED
  BY <1>3 DEF TaskMap

(* When the ids are distinct, an id stands for its only sub-task.          *)
LEMMA TaskMapInverts ==
    ASSUME NEW p \in Seq(SubTask), DistinctIds(p), NEW i \in DOMAIN p
    PROVE  TaskMap(p, p[i].id) = i
<1>1. p[i].id \in TaskIds(p)
  BY DEF TaskIds
<1> QED
  BY <1>1, TaskMapFinds DEF DistinctIds

(* The dependencies of a task are finitely many ids.                       *)
LEMMA DependenciesType ==
    ASSUME NEW p \in Seq(SubTask), NEW t \in TaskIds(p)
    PROVE  /\ Dependencies(p, t) \in SUBSET Id
           /\ IsFiniteSet(Dependencies(p, t))
           /\ Cardinality(Dependencies(p, t)) \in Nat
<1>1. Dependencies(p, t) \in SUBSET Id
  <2>1. p[TaskMap(p, t)] \in SubTask
    BY TaskMapFinds
  <2> QED
    BY <2>1 DEF Dependencies, SubTask
<1>2. IsFiniteSet(Dependencies(p, t))
  BY <1>1, IdAssumption, FS_Subset
<1> QED
  BY <1>1, <1>2, FS_CardinalityType

(* A plan mentions finitely many ids, all of them in Id.                   *)
LEMMA TaskIdsType ==
    ASSUME NEW p \in Seq(SubTask)
    PROVE  TaskIds(p) \in SUBSET Id /\ IsFiniteSet(TaskIds(p))
<1>1. \A i \in DOMAIN p : p[i] \in SubTask
  OBVIOUS
<1>2. TaskIds(p) \in SUBSET Id
  BY <1>1 DEF TaskIds, SubTask
<1> QED
  BY <1>2, IdAssumption, FS_Subset

-----------------------------------------------------------------------------
(* Facts about one turn of the loop, for any plan that can be written down:*)
(* AgentLoop sorts plans that have grown since they were returned.         *)

SortTypeOK ==
    /\ plan \in Seq(SubTask)
    /\ inDegree \in [TaskIds(plan) -> Int]
    /\ currentLevel \in SUBSET TaskIds(plan)
    /\ levels \in Seq(SUBSET TaskIds(plan))

LEMMA SortTypes == TypeOK <=> plan \in Plans /\ SortTypeOK
BY PlansAssumption DEF TypeOK, SortTypeOK

(* The number of decrements is a natural number.                           *)
LEMMA DecrementsType ==
    ASSUME SortTypeOK, NEW t
    PROVE  Decrements(t) \in Nat
<1> DEFINE P == (DOMAIN plan) \X currentLevel
           E == {e \in P : plan[e[1]].id = t /\ e[2] \in plan[e[1]].dependencies}
<1>1. plan \in Seq(SubTask) /\ DOMAIN plan = 1..Len(plan) /\ Len(plan) \in Nat
  BY DEF SortTypeOK
<1>2. IsFiniteSet(DOMAIN plan)
  BY <1>1, FS_Interval
<1>3. IsFiniteSet(currentLevel)
  BY <1>1, TaskIdsType, FS_Subset DEF SortTypeOK
<1>4. IsFiniteSet(P)
  BY <1>2, <1>3, FS_Product
<1>5. E \in SUBSET P
  OBVIOUS
<1>6. IsFiniteSet(E)
  BY <1>4, <1>5, FS_Subset
<1> QED
  BY <1>6, FS_CardinalityType DEF Decrements

(* With distinct ids, it is the number of dependencies in the level.       *)
LEMMA DecrementsCount ==
    ASSUME TypeOK, DistinctIds(plan), NEW t \in TaskIds(plan)
    PROVE  Decrements(t) = Cardinality(Dependencies(plan, t) \cap currentLevel)
<1> DEFINE i == TaskMap(plan, t)
           D == Dependencies(plan, t) \cap currentLevel
<1>1. plan \in Seq(SubTask)
  BY PlansAssumption DEF TypeOK
<1>2. i \in DOMAIN plan /\ plan[i].id = t
  BY <1>1, TaskMapFinds
<1>3. \A j \in DOMAIN plan : plan[j].id = t => j = i
  BY <1>2 DEF DistinctIds
<1>4. {e \in (DOMAIN plan) \X currentLevel :
          plan[e[1]].id = t /\ e[2] \in plan[e[1]].dependencies} = {i} \X D
  <2> HIDE DEF i
  <2>1. Dependencies(plan, t) = plan[i].dependencies
    BY DEF Dependencies, i
  <2> QED
    BY <1>2, <1>3, <2>1
<1>5. IsFiniteSet(D) /\ Cardinality(D) \in Nat
  BY <1>1, DependenciesType, FS_Intersection, FS_CardinalityType
<1>6. IsFiniteSet({i}) /\ Cardinality({i}) = 1
  BY FS_Singleton
<1>7. Cardinality({i} \X D) = 1 * Cardinality(D)
  BY <1>5, <1>6, FS_Product
<1>8. Cardinality({i} \X D) = Cardinality(D)
  BY <1>5, <1>7
<1> QED
  BY <1>4, <1>8 DEF Decrements

(* A turn of the loop adds the level to the ids emitted.                   *)
LEMMA EmitLevelEmits ==
    ASSUME SortTypeOK, EmitLevel
    PROVE  /\ Emitted' = Emitted \cup currentLevel
           /\ levels' \in Seq(SUBSET TaskIds(plan))
           /\ Len(levels') = Len(levels) + 1
           /\ \A k \in DOMAIN levels : levels'[k] = levels[k]
           /\ levels'[Len(levels) + 1] = currentLevel
           /\ DOMAIN levels' = DOMAIN levels \cup {Len(levels) + 1}
<1>1. levels \in Seq(SUBSET TaskIds(plan)) /\ currentLevel \in SUBSET TaskIds(plan)
  BY DEF SortTypeOK
<1>2. levels' = Append(levels, currentLevel)
  BY DEF EmitLevel
<1>3. /\ levels' \in Seq(SUBSET TaskIds(plan))
      /\ Len(levels') = Len(levels) + 1
      /\ \A k \in DOMAIN levels : levels'[k] = levels[k]
      /\ levels'[Len(levels) + 1] = currentLevel
  BY <1>1, <1>2
<1>4. DOMAIN levels' = DOMAIN levels \cup {Len(levels) + 1}
  BY <1>1, <1>3
<1>5. Emitted' = Emitted \cup currentLevel
  BY <1>3, <1>4 DEF Emitted
<1> QED
  BY <1>3, <1>4, <1>5

-----------------------------------------------------------------------------
(* Type correctness.                                                       *)

LEMMA InitialInDegreeType ==
    ASSUME NEW p \in Seq(SubTask)
    PROVE  InitialInDegree(p) \in [TaskIds(p) -> Nat]
BY DependenciesType DEF InitialInDegree

LEMMA SortInitType ==
    ASSUME plan \in Seq(SubTask), SortInit
    PROVE  SortTypeOK
<1>1. inDegree \in [TaskIds(plan) -> Int]
  BY InitialInDegreeType DEF SortInit
<1> QED
  BY <1>1 DEF SortTypeOK, SortInit, Roots

LEMMA EmitLevelType ==
    ASSUME SortTypeOK, EmitLevel
    PROVE  SortTypeOK'
<1>1. inDegree' \in [TaskIds(plan) -> Int]
  BY DecrementsType DEF SortTypeOK, EmitLevel
<1>2. currentLevel' \in SUBSET TaskIds(plan)
  BY DEF EmitLevel, ReleasedIds
<1>3. UNCHANGED plan
  BY DEF EmitLevel
<1> QED
  BY <1>1, <1>2, <1>3, EmitLevelEmits DEF SortTypeOK

LEMMA InitTypeOK ==
    ASSUME plan \in Plans, SortInit
    PROVE  TypeOK
BY SortInitType, SortTypes, PlansAssumption

LEMMA StepTypeOK ==
    ASSUME TypeOK, EmitLevel
    PROVE  TypeOK'
<1>1. SortTypeOK' /\ plan' = plan /\ plan \in Plans
  BY EmitLevelType, SortTypes DEF EmitLevel
<1> QED
  BY <1>1 DEF TypeOK, SortTypeOK

(* The state of the sort is always well typed: levels hold ids of the plan.*)
THEOREM TypeCorrect == Spec => []TypeOK
<1>1. Init => TypeOK
  BY InitTypeOK DEF Init
<1>2. TypeOK /\ [Next]_vars => TypeOK'
  <2> SUFFICES ASSUME TypeOK, [Next]_vars
               PROVE  TypeOK'
    OBVIOUS
  <2>1. CASE EmitLevel
    BY <2>1, StepTypeOK
  <2>2. CASE UNCHANGED vars
    BY <2>2 DEF TypeOK, vars, sortVars
  <2> QED
    BY <2>1, <2>2 DEF Next
<1> QED
  BY <1>1, <1>2, PTL DEF Spec

-----------------------------------------------------------------------------
(* No id is emitted twice.  An id that was emitted, or is about to be, has *)
(* no dependency left to wait for, so its counter never passes 0 again.    *)
(* This holds for plans that repeat an id as well.                         *)

NoneLeft == \A t \in Emitted \cup currentLevel : inDegree[t] <= 0

EmittedInv ==
    /\ TypeOK
    /\ EmittedOnce
    /\ NoneLeft

LEMMA NoneLeftInit ==
    ASSUME SortInit
    PROVE  EmittedOnce /\ NoneLeft
<1>1. Emitted = {}
  BY DEF SortInit, Emitted
<1>2. \A t \in currentLevel : inDegree[t] <= 0
  BY DEF SortInit, Roots
<1> QED
  BY <1>1, <1>2 DEF SortInit, EmittedOnce, NoneLeft

LEMMA NoneLeftStep ==
    ASSUME SortTypeOK, EmittedOnce, NoneLeft, EmitLevel
    PROVE  EmittedOnce' /\ NoneLeft'
<1>1. SortTypeOK'
  BY EmitLevelType
<1>2. /\ \A t \in TaskIds(plan) : inDegree'[t] = inDegree[t] - Decrements(t)
      /\ currentLevel' = ReleasedIds
  BY DEF EmitLevel
<1>3. /\ Emitted' = Emitted \cup currentLevel
      /\ Emitted \subseteq TaskIds(plan)
  BY EmitLevelEmits DEF SortTypeOK, Emitted
<1>4. \A t \in TaskIds(plan) : inDegree[t] \in Int /\ Decrements(t) \in Nat
  BY DecrementsType DEF SortTypeOK
<1>5. \A t \in (Emitted \cup currentLevel)' : inDegree'[t] <= 0
  <2>1. \A t \in Emitted \cup currentLevel : inDegree'[t] <= 0
    BY <1>2, <1>3, <1>4 DEF NoneLeft, SortTypeOK
  <2>2. \A t \in currentLevel' : inDegree'[t] <= 0
    BY <1>2, <1>4 DEF ReleasedIds
  <2> QED
    BY <2>1, <2>2, <1>3
<1>6. currentLevel' \cap Emitted' = {}
  <2>1. \A t \in Emitted \cup currentLevel : t \notin ReleasedIds
    BY <1>3, <1>4 DEF NoneLeft, ReleasedIds
  <2> QED
    BY <2>1, <1>2, <1>3
<1>7. \A k, m \in DOMAIN levels' : k # m => levels'[k] \cap levels'[m] = {}
  <2>1. \A k \in DOMAIN levels : levels[k] \cap currentLevel = {}
    BY DEF EmittedOnce, Emitted
  <2> QED
    BY <2>1, EmitLevelEmits DEF EmittedOnce
<1> QED
  BY <1>1, <1>5, <1>6, <1>7 DEF EmittedOnce, NoneLeft

LEMMA EmittedInvInit ==
    ASSUME plan \in Plans, SortInit
    PROVE  EmittedInv
BY InitTypeOK, NoneLeftInit DEF EmittedInv

LEMMA EmittedInvStep ==
    ASSUME EmittedInv, EmitLevel
    PROVE  EmittedInv'
BY StepTypeOK, SortTypes, NoneLeftStep DEF EmittedInv

(* topological_sort dispatches every task id at most once, whatever plan   *)
(* the LLM returned.                                                       *)
THEOREM DispatchedOnce == Spec => []EmittedOnce
<1>1. Init => EmittedInv
  BY EmittedInvInit DEF Init
<1>2. EmittedInv /\ [Next]_vars => EmittedInv'
  <2> SUFFICES ASSUME EmittedInv, [Next]_vars
               PROVE  EmittedInv'
    OBVIOUS
  <2>1. CASE EmitLevel
    BY <2>1, EmittedInvStep
  <2>2. CASE UNCHANGED vars
    BY <2>2 DEF EmittedInv, EmittedOnce, NoneLeft, Emitted, TypeOK, vars, sortVars
  <2> QED
    BY <2>1, <2>2 DEF Next
<1>3. EmittedInv => EmittedOnce
  BY DEF EmittedInv
<1> QED
  BY <1>1, <1>2, <1>3, PTL DEF Spec

-----------------------------------------------------------------------------
(* The levels respect the dependencies, when the ids are distinct.  The    *)
(* counters then say exactly how many dependencies are not emitted yet,    *)
(* and the next level is exactly the set of tasks that are ready.          *)

SortInv ==
    /\ TypeOK
    /\ DistinctIds(plan)
    /\ \A t \in TaskIds(plan) :
           inDegree[t] = Cardinality(Dependencies(plan, t) \ Emitted)
    /\ currentLevel = {t \in TaskIds(plan) \ Emitted :
                          Dependencies(plan, t) \subseteq Emitted}
    /\ levels # <<>> => \A t \in currentLevel :
           Dependencies(plan, t) \cap levels[Len(levels)] # {}
    /\ DependenciesFirst
    /\ LevelsAreTight

LEMMA SortInvInit ==
    ASSUME plan \in Plans, DistinctIds(plan), SortInit
    PROVE  SortInv
<1>1. TypeOK /\ plan \in Seq(SubTask)
  BY InitTypeOK, PlansAssumption
<1>2. levels = <<>> /\ Emitted = {}
  BY DEF SortInit, Emitted
<1>3. \A t \in TaskIds(plan) :
         inDegree[t] = Cardinality(Dependencies(plan, t) \ Emitted)
  <2>1. \A t \in TaskIds(plan) : Dependencies(plan, t) \ Emitted = Dependencies(plan, t)
    BY <1>2
  <2> QED
    BY <2>1 DEF SortInit, InitialInDegree
<1>4. currentLevel = {t \in TaskIds(plan) \ Emitted :
                         Dependencies(plan, t) \subseteq Emitted}
  <2>1. \A t \in TaskIds(plan) :
           InitialInDegree(plan)[t] = 0 <=> Dependencies(plan, t) = {}
    BY <1>1, DependenciesType, FS_EmptySet DEF InitialInDegree
  <2> QED
    BY <2>1, <1>2 DEF SortInit, Roots
<1>5. DependenciesFirst /\ LevelsAreTight
  BY <1>2 DEF DependenciesFirst, LevelsAreTight
<1> QED
  BY <1>1, <1>2, <1>3, <1>4, <1>5 DEF SortInv

LEMMA SortInvStep ==
    ASSUME SortInv, EmitLevel
    PROVE  SortInv'
<1>1. TypeOK /\ TypeOK' /\ DistinctIds(plan)
  BY StepTypeOK DEF SortInv
<1>2. plan \in Seq(SubTask) /\ plan' = plan
  BY <1>1, PlansAssumption DEF TypeOK, EmitLevel
<1>3. /\ Emitted' = Emitted \cup currentLevel
      /\ Emitted \cap currentLevel = {}
  BY <1>1, EmitLevelEmits, SortTypes DEF SortInv
<1>4. ASSUME NEW t \in TaskIds(plan)
      PROVE  /\ inDegree'[t] = Cardinality(Dependencies(plan, t) \ Emitted')
             /\ t \in ReleasedIds <=>
                    /\ Dependencies(plan, t) \ Emitted # {}
                    /\ Dependencies(plan, t) \ Emitted' = {}
  <2> DEFINE D == Dependencies(plan, t)
             Open == D \ Emitted
             Now == D \cap currentLevel
  <2>1. IsFiniteSet(D)
    BY <1>2, DependenciesType
  <2>2. IsFiniteSet(Open) /\ Cardinality(Open) \in Nat
    BY <2>1, FS_Difference, FS_CardinalityType
  <2>3. Open \cap currentLevel = Now /\ Open \ currentLevel = D \ Emitted'
    BY <1>3
  <2>4. IsFiniteSet(Now) /\ Cardinality(Now) \in Nat
    BY <2>1, FS_Intersection, FS_CardinalityType
  <2>5. /\ IsFiniteSet(D \ Emitted')
        /\ Cardinality(D \ Emitted') = Cardinality(Open) - Cardinality(Now)
    BY <2>2, <2>3, FS_Difference
  <2>6. Decrements(t) = Cardinality(Now) /\ inDegree[t] = Cardinality(Open)
    BY <1>1, DecrementsCount DEF SortInv
  <2>7. inDegree'[t] = Cardinality(D \ Emitted')
    BY <2>5, <2>6 DEF EmitLevel
  <2>8. t \in ReleasedIds <=> Cardinality(Open) > 0 /\ Cardinality(Open) <= Cardinality(Now)
    BY <2>6 DEF ReleasedIds
  <2>9. Cardinality(Open) > 0 <=> Open # {}
    BY <2>2, FS_EmptySet
  <2>10. Cardinality(Open) <= Cardinality(Now) <=> D \ Emitted' = {}
    <3>1. Cardinality(D \ Emitted') \in Nat
      BY <2>5, FS_CardinalityType
    <3>2. Cardinality(D \ Emitted') = 0 <=> D \ Emitted' = {}
      BY <2>5, FS_EmptySet
    <3> QED
      BY <3>1, <3>2, <2>2, <2>4, <2>5
  <2> QED
    BY <2>7, <2>8, <2>9, <2>10
<1>5. currentLevel' = {t \in TaskIds(plan) \ Emitted' :
                          Dependencies(plan, t) \subseteq Emitted'}
  <2>1. currentLevel' = ReleasedIds /\ ReleasedIds \subseteq TaskIds(plan)
    BY DEF EmitLevel, ReleasedIds
  <2>2. ASSUME NEW t \in ReleasedIds
        PROVE  t \notin Emitted' /\ Dependencies(plan, t) \subseteq Emitted'
    <3>1. /\ Dependencies(plan, t) \ Emitted # {}
          /\ Dependencies(plan, t) \ Emitted' = {}
      BY <1>4, <2>1
    <3>2. t \notin currentLevel
      BY <3>1 DEF SortInv
    <3>3. t \notin Emitted
      <4>1. SUFFICES ASSUME NEW k \in DOMAIN levels, t \in levels[k]
                     PROVE  FALSE
        BY DEF Emitted
      <4>2. \A d \in Dependencies(plan, t) : d \in Emitted
        <5>1. k \in 1..Len(levels) /\ DOMAIN levels = 1..Len(levels) /\ Len(levels) \in Nat
          BY <4>1, <1>1 DEF TypeOK
        <5>2. \A m \in 1..(k - 1) : m \in DOMAIN levels
          BY <5>1
        <5> QED
          BY <4>1, <5>2 DEF SortInv, DependenciesFirst, Emitted
      <4> QED
        BY <4>2, <3>1
    <3> QED
      BY <3>1, <3>2, <3>3, <1>3
  <2>3. ASSUME NEW t \in TaskIds(plan) \ Emitted',
               Dependencies(plan, t) \subseteq Emitted'
        PROVE  t \in ReleasedIds
    <3>1. Dependencies(plan, t) \ Emitted # {}
      BY <2>3, <1>3 DEF SortInv
    <3> QED
      BY <3>1, <2>3, <1>4
  <2> QED
    BY <2>1, <2>2, <2>3
<1>6. \A t \in currentLevel' : Dependencies(plan, t) \cap currentLevel # {}
  <2>1. \A t \in ReleasedIds : t \in TaskIds(plan)
    BY DEF ReleasedIds
  <2> QED
    BY <2>1, <1>3, <1>4 DEF EmitLevel
<1>7. DependenciesFirst' /\ LevelsAreTight'
  <2>1. /\ levels \in Seq(SUBSET TaskIds(plan)) /\ Len(levels) \in Nat
        /\ DOMAIN levels = 1..Len(levels)
    BY <1>1 DEF TypeOK
  <2>2. /\ \A k \in DOMAIN levels : levels'[k] = levels[k]
        /\ levels'[Len(levels) + 1] = currentLevel
        /\ DOMAIN levels' = DOMAIN levels \cup {Len(levels) + 1}
    BY <1>1, EmitLevelEmits, SortTypes
  <2>3. ASSUME NEW k \in DOMAIN levels, NEW t \in levels'[k]
        PROVE  /\ \A d \in Dependencies(plan, t) : \E m \in 1..(k - 1) : d \in levels'[m]
               /\ k > 1 => Dependencies(plan, t) \cap levels'[k - 1] # {}
    <3>1. \A m \in 1..(k - 1) : m \in DOMAIN levels
      BY <2>1
    <3>2. k > 1 => k - 1 \in DOMAIN levels
      BY <2>1
    <3> QED
      BY <2>2, <2>3, <3>1, <3>2 DEF SortInv, DependenciesFirst, LevelsAreTight
  <2>4. ASSUME NEW t \in currentLevel
        PROVE  /\ \A d \in Dependencies(plan, t) :
                      \E m \in 1..((Len(levels) + 1) - 1) : d \in levels'[m]
               /\ Len(levels) + 1 > 1 =>
                      Dependencies(plan, t) \cap levels'[(Len(levels) + 1) - 1] # {}
    <3>1. (Len(levels) + 1) - 1 = Len(levels)
      BY <2>1
    <3>2. Dependencies(plan, t) \subseteq Emitted
      BY DEF SortInv
    <3>3. \A d \in Dependencies(plan, t) : \E m \in 1..Len(levels) : d \in levels'[m]
      BY <3>2, <2>1, <2>2 DEF Emitted
    <3>4. Len(levels) > 0 => Dependencies(plan, t) \cap levels'[Len(levels)] # {}
      <4>1. Len(levels) > 0 => levels # <<>> /\ Len(levels) \in DOMAIN levels
        BY <2>1
      <4> QED
        BY <4>1, <2>2 DEF SortInv
    <3> QED
      BY <3>1, <3>3, <3>4, <2>1
  <2> QED
    BY <1>2, <2>2, <2>3, <2>4 DEF DependenciesFirst, LevelsAreTight
<1>8. levels'[Len(levels')] = currentLevel
  BY <1>1, EmitLevelEmits, SortTypes
<1> QED
  BY <1>1, <1>2, <1>4, <1>5, <1>6, <1>7, <1>8 DEF SortInv, DistinctIds

LEMMA SortInvStutter ==
    ASSUME SortInv, UNCHANGED vars
    PROVE  SortInv'
BY DEF SortInv, vars, sortVars, TypeOK, DistinctIds, Emitted, DependenciesFirst,
       LevelsAreTight

(* Once the loop has ended, the ready tasks are none.                      *)
LEMMA SortInvImplies ==
    ASSUME SortInv
    PROVE  DependenciesFirst /\ LevelsAreTight /\ OnlyBlockedDropped
BY DEF SortInv, OnlyBlockedDropped, Sorted

(* With distinct ids, a task is put in a level only after all its          *)
(* dependencies and as early as they allow.                                *)
THEOREM LevelsRespectDependencies == Spec => []LevelsAreDepths
<1> DEFINE Inv == plan \in Plans /\ (DistinctIds(plan) => SortInv)
<1>1. Init => Inv
  BY SortInvInit DEF Init
<1>2. Inv /\ [Next]_vars => Inv'
  <2> SUFFICES ASSUME Inv, [Next]_vars
               PROVE  Inv'
    OBVIOUS
  <2>1. UNCHANGED plan
    BY DEF Next, EmitLevel, vars
  <2>2. DistinctIds(plan)' <=> DistinctIds(plan)
    BY <2>1 DEF DistinctIds
  <2> QED
    BY <2>1, <2>2, SortInvStep, SortInvStutter DEF Next
<1>3. Inv => LevelsAreDepths
  BY SortInvImplies DEF LevelsAreDepths, DependenciesFirst, LevelsAreTight
<1> QED
  BY <1>1, <1>2, <1>3, PTL DEF Spec

(* When the ids of every plan are distinct, a task is left out only when   *)
(* one of its dependencies is.                                             *)
THEOREM BlockedDropped ==
    ASSUME \A p \in Plans : DistinctIds(p)
    PROVE  Spec => []OnlyBlockedDropped
<1>1. Init => SortInv
  BY SortInvInit DEF Init
<1>2. SortInv /\ [Next]_vars => SortInv'
  BY SortInvStep, SortInvStutter DEF Next
<1>3. SortInv => OnlyBlockedDropped
  BY SortInvImplies
<1> QED
  BY <1>1, <1>2, <1>3, PTL DEF Spec
=============================================================================
