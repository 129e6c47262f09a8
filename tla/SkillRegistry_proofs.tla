-------------------------- MODULE SkillRegistry_proofs --------------------------
(***************************************************************************)
(* Proofs about SkillRegistry, for any versions, callers and number of     *)
(* registrations: its types; a healthy version is never out of reach; and, *)
(* when no on_unregister hook raises, the default is never left on a       *)
(* version that is gone.  And about SkillHealth, for any threshold and     *)
(* window: it is a client of the registry, and misses no burst.            *)
(***************************************************************************)
EXTENDS SkillHealth, Integers, FiniteSetTheorems, WellFoundedInduction, TLAPS

(* A non-empty set of positions has a greatest element.                    *)
LEMMA GreatestPosition ==
    ASSUME NEW n \in Nat, NEW S \in SUBSET (1..n), S # {}
    PROVE  \E i \in S : \A j \in S : j <= i
<1> DEFINE Above(i) == {j \in S : j > i}
           Tails == {Above(i) : i \in S}
<1>1. IsFiniteSet(S)
  <2>1. IsFiniteSet(1..n)
    BY FS_Interval
  <2> QED
    BY <2>1, FS_Subset
<1>2. Tails \subseteq FiniteSubsetsOf(S) /\ Tails # {}
  <2>1. \A i \in S : Above(i) \in SUBSET S /\ IsFiniteSet(Above(i))
    BY <1>1, FS_Subset
  <2> QED
    BY <2>1 DEF FiniteSubsetsOf
<1>3. PICK x \in Tails : \A y \in Tails : ~ (<<y, x>> \in StrictSubsetOrdering(S))
  BY <1>2, FS_StrictSubsetOrderingWellFounded, WFMin
<1>4. PICK i \in S : x = Above(i)
  BY <1>3
<1>5. SUFFICES ASSUME NEW j \in S, ~ (j <= i)
               PROVE  FALSE
  BY <1>4
<1>6. Above(j) \subseteq Above(i)
  <2>1. i \in Int /\ j \in Int /\ j > i
    BY <1>5
  <2>2. ASSUME NEW k \in S, k > j
        PROVE  k > i
    <3>1. k \in Int
      OBVIOUS
    <3> QED
      BY <2>1, <2>2, <3>1
  <2> QED
    BY <2>2
<1>7. j \in Above(i) /\ j \notin Above(j)
  BY <1>5
<1>8. Above(j) \in Tails
  BY <1>5
<1>9. <<Above(j), Above(i)>> \in StrictSubsetOrdering(S)
  <2>1. Above(i) \in SUBSET S /\ Above(j) \in SUBSET S
    OBVIOUS
  <2> HIDE DEF Above
  <2> QED
    BY <1>6, <1>7, <2>1 DEF StrictSubsetOrdering
<1> QED
  BY <1>3, <1>4, <1>8, <1>9

USE NoneAssumption, MaxRegistrationsAssumption, TeardownAssumption

(* The default _update_default_version chooses is a registered version,    *)
(* and there is none only when no version is healthy.                      *)
LEMMA NewestHealthyFinds ==
    ASSUME RegistryTypeOK
    PROVE  /\ NewestHealthy(registered) \in Version \cup {None}
           /\ NewestHealthy(registered) = None => HealthyIn(registered) = {}
           /\ NewestHealthy(registered) # None =>
                 registered[NewestHealthy(registered)] # 0
<1> DEFINE H == HealthyIn(registered)
           R == {registered[v] : v \in H}
<1>1. H \subseteq Version /\ \A v \in H : registered[v] \in 1..last
  BY DEF RegistryTypeOK, HealthyIn
<1>2. CASE H = {}
  BY <1>2 DEF NewestHealthy
<1>3. CASE H # {}
  <2>1. R \in SUBSET (1..last) /\ R # {} /\ last \in Nat
    BY <1>1, <1>3 DEF RegistryTypeOK
  <2>2. \E n \in R : \A r \in R : r <= n
    <3> HIDE DEF R
    <3> QED BY <2>1, GreatestPosition
  <2>3. \E v \in H : \A w \in H : registered[w] <= registered[v]
    BY <2>2
  <2>4. NewestHealthy(registered) \in H
    BY <2>3, <1>3 DEF NewestHealthy
  <2> QED
    BY <2>4, <1>1
<1> QED
  BY <1>2, <1>3

-----------------------------------------------------------------------------
(* The invariant: types, reachability, and the default.                    *)

RegistryInv ==
    /\ RegistryTypeOK
    /\ HealthyIsReachable
    /\ DefaultIsRegistered

LEMMA RegistryInvInit == RegistryInit => RegistryInv
<1> SUFFICES ASSUME RegistryInit PROVE RegistryInv
  OBVIOUS
<1>1. Idle \in Call /\ 0 \in 0..0
  BY DEF Call
<1>2. registered \in [Version -> 0..last] /\ last \in 0..MaxRegistrations
  BY <1>1 DEF RegistryInit
<1>3. RegistryTypeOK
  BY <1>1, <1>2 DEF RegistryInit, RegistryTypeOK, Health
<1>4. HealthyIsReachable /\ DefaultIsRegistered
  BY DEF RegistryInit, HealthyIsReachable, HealthyIn, DefaultIsRegistered
<1> QED
  BY <1>3, <1>4 DEF RegistryInv

(* What GetSkill returns is a registration.                                *)
LEMMA GetSkillType ==
    ASSUME RegistryTypeOK
    PROVE  /\ GetSkill \in 0..last
           /\ GetSkill # 0 => GetSkill \in Registration /\ default # None
BY DEF RegistryTypeOK, GetSkill, Registration

LEMMA RegisterStep ==
    ASSUME RegistryInv, NEW v \in Version, NEW s \in Health, Register(v, s)
    PROVE  RegistryInv'
<1> USE DEF RegistryInv
<1>1. last + 1 \in Registration /\ last + 1 \in Nat /\ last \in Nat
  BY DEF Register, RegistryTypeOK, Registration
<1>2. RegistryTypeOK'
  BY <1>1 DEF Register, RegistryTypeOK, DefaultAfterRegister, Registration, Health
<1>3. HealthyIsReachable'
  <2> SUFFICES ASSUME default' = None, NEW w \in Version,
                      registered'[w] # 0, status'[registered'[w]] = "healthy"
               PROVE  FALSE
    BY DEF HealthyIsReachable, HealthyIn
  <2>1. s # "healthy" /\ default = None
    BY DEF Register, DefaultAfterRegister
  <2>2. registered'[w] = IF w = v THEN last + 1 ELSE registered[w]
    BY DEF Register, RegistryTypeOK
  <2>3. status'[last + 1] = s
    BY <1>1 DEF Register, RegistryTypeOK
  <2>4. CASE w = v
    BY <2>1, <2>2, <2>3, <2>4
  <2>5. CASE w # v
    <3>1. registered[w] \in 1..last
      BY <2>2, <2>5 DEF RegistryTypeOK
    <3>2. status'[registered[w]] = status[registered[w]]
      BY <3>1, <1>1 DEF Register, RegistryTypeOK, Registration
    <3> QED
      BY <3>1, <3>2, <2>1, <2>2, <2>5 DEF HealthyIsReachable, HealthyIn
  <2> QED
    BY <2>4, <2>5
<1>4. DefaultIsRegistered'
  BY <1>1 DEF Register, RegistryTypeOK, DefaultIsRegistered, DefaultAfterRegister
<1> QED
  BY <1>2, <1>3, <1>4

(* Repair keeps the types, keeps healthy versions reachable, and moves the *)
(* default away from the version it is called for when that one is gone.   *)
LEMMA RepairWorks ==
    ASSUME RegistryTypeOK, HealthyIsReachable, NEW v \in Version, Repair(v),
           UNCHANGED <<registered, status, last>>
    PROVE  /\ named' \in BOOLEAN
           /\ default' \in Version \cup {None}
           /\ HealthyIsReachable'
           /\ default' # None =>
                 registered'[default'] # 0 \/ (default' # v /\ default' = default)
<1>1. HealthyIn(registered)' = HealthyIn(registered)
  BY DEF HealthyIn
<1>2. CASE \A w \in Version : registered[w] = 0
  BY <1>1, <1>2 DEF Repair, HealthyIsReachable, HealthyIn
<1>3. CASE ~(\A w \in Version : registered[w] = 0) /\ default = v
  BY <1>1, <1>3, NewestHealthyFinds DEF Repair, HealthyIsReachable, RegistryTypeOK
<1>4. CASE ~(\A w \in Version : registered[w] = 0) /\ default # v
  BY <1>1, <1>4 DEF Repair, HealthyIsReachable, RegistryTypeOK
<1> QED
  BY <1>2, <1>3, <1>4

LEMMA UnregisterVersionStep ==
    ASSUME RegistryInv, NEW c \in Caller, NEW v \in Version, UnregisterVersion(c, v)
    PROVE  RegistryInv'
<1> USE DEF RegistryInv
<1>1. CASE /\ registered[v] # 0
           /\ registered' = [registered EXCEPT ![v] = 0]
           /\ call' = [call EXCEPT ![c] = Removing(v, registered[v])]
           /\ UNCHANGED <<named, default>>
  <2>1. registered[v] \in Registration
    BY <1>1 DEF RegistryTypeOK, Registration
  <2>2. Removing(v, registered[v]) \in Call
    BY <2>1 DEF Call
  <2>3. RegistryTypeOK'
    BY <1>1, <2>2 DEF UnregisterVersion, RegistryTypeOK
  <2>4. HealthyIn(registered)' \subseteq HealthyIn(registered)
    BY <1>1 DEF UnregisterVersion, HealthyIn, RegistryTypeOK
  <2>5. HealthyIsReachable'
    BY <1>1, <2>4 DEF HealthyIsReachable
  <2>6. DefaultIsRegistered'
    <3>1. CASE default = v
      BY <1>1, <3>1 DEF DefaultIsRegistered, RegistryTypeOK, Removing
    <3>2. CASE default # v
      <4>1. ASSUME NEW e \in Caller, call[e].op = "version" PROVE call'[e] = call[e]
        BY <1>1, <4>1 DEF UnregisterVersion, RegistryTypeOK, Idle
      <4>2. UNCHANGED raised
        BY DEF UnregisterVersion
      <4> QED
        BY <1>1, <3>2, <4>1, <4>2 DEF DefaultIsRegistered, RegistryTypeOK
    <3> QED
      BY <3>1, <3>2
  <2> QED
    BY <2>3, <2>5, <2>6
<1>2. CASE /\ registered[v] = 0
           /\ Repair(v)
           /\ UNCHANGED <<registered, call>>
  BY <1>2, RepairWorks DEF UnregisterVersion, RegistryTypeOK, DefaultIsRegistered
<1> QED
  BY <1>1, <1>2 DEF UnregisterVersion

LEMMA VersionTornDownStep ==
    ASSUME RegistryInv, NEW c \in Caller, VersionTornDown(c)
    PROVE  RegistryInv'
<1> USE DEF RegistryInv
<1>1. /\ call[c].version \in Version
      /\ call[c].instance \in Registration
  <2>1. call[c] \in Call /\ call[c].op = "version"
    BY DEF VersionTornDown, RegistryTypeOK
  <2> QED
    BY <2>1 DEF Call, Idle, Probing, Removing, RemovingAll
<1> DEFINE v == call[c].version
<1>2. /\ named' \in BOOLEAN
      /\ default' \in Version \cup {None}
      /\ HealthyIsReachable'
      /\ default' # None =>
            registered'[default'] # 0 \/ (default' # v /\ default' = default)
  BY <1>1, RepairWorks DEF VersionTornDown
<1>3. Idle \in Call
  BY DEF Call
<1>4. RegistryTypeOK'
  BY <1>1, <1>2, <1>3 DEF VersionTornDown, RegistryTypeOK
<1>5. DefaultIsRegistered'
  <2> SUFFICES ASSUME default' # None, registered'[default'] = 0, default' \notin raised'
               PROVE  \E e \in Caller :
                         call'[e].op = "version" /\ call'[e].version = default'
    BY DEF DefaultIsRegistered
  <2>1. default' # v /\ default' = default /\ registered[default] = 0
    BY <1>2 DEF VersionTornDown
  <2>2. PICK e \in Caller : call[e].op = "version" /\ call[e].version = default
    BY <2>1 DEF DefaultIsRegistered, VersionTornDown
  <2>3. e # c
    BY <2>1, <2>2
  <2>4. call'[e] = call[e]
    BY <2>3 DEF VersionTornDown, RegistryTypeOK
  <2> QED
    BY <2>1, <2>2, <2>4
<1> QED
  BY <1>2, <1>4, <1>5

(* Removing the whole name leaves no default and no version, unless another*)
(* caller did it before.                                                   *)
LEMMA RemoveNameWorks ==
    ASSUME RegistryTypeOK, HealthyIsReachable, RemoveName, UNCHANGED <<status, last>>
    PROVE  /\ named' \in BOOLEAN
           /\ registered' \in [Version -> 0..last']
           /\ default' \in Version \cup {None}
           /\ HealthyIsReachable'
           /\ default' # None => default' = default /\ registered' = registered
<1>1. CASE named
  <2>1. registered' = [v \in Version |-> 0] /\ named' = FALSE /\ default' = None
    BY <1>1 DEF RemoveName
  <2>2. last' \in Nat
    BY DEF RegistryTypeOK
  <2>3. registered' \in [Version -> 0..last']
    BY <2>1, <2>2
  <2>4. HealthyIsReachable'
    BY <2>1 DEF HealthyIsReachable, HealthyIn
  <2> QED
    BY <2>1, <2>3, <2>4
<1>2. CASE ~named
  BY <1>2 DEF RemoveName, RegistryTypeOK, HealthyIsReachable, HealthyIn
<1> QED
  BY <1>1, <1>2

(* A step that moves only callers that are not removing a single version   *)
(* keeps the default where it was, or drops it.                            *)
LEMMA DefaultKept ==
    ASSUME DefaultIsRegistered,
           default' # None => default' = default /\ registered' = registered,
           UNCHANGED raised,
           \A e \in Caller : call[e].op = "version" => call'[e] = call[e]
    PROVE  DefaultIsRegistered'
BY DEF DefaultIsRegistered

LEMMA UnregisterAllStep ==
    ASSUME RegistryInv, NEW c \in Caller, UnregisterAll(c)
    PROVE  RegistryInv'
<1> USE DEF RegistryInv
<1> DEFINE S == {registered[v] : v \in Version} \ {0}
<1>1. S \in SUBSET Registration
  BY DEF RegistryTypeOK, Registration
<1>2. CASE S = {} /\ RemoveName /\ UNCHANGED call
  <2>1. RegistryTypeOK' /\ HealthyIsReachable'
    BY <1>2, RemoveNameWorks DEF UnregisterAll, RegistryTypeOK
  <2>2. DefaultIsRegistered'
    BY <1>2, RemoveNameWorks, DefaultKept DEF UnregisterAll
  <2> QED
    BY <2>1, <2>2
<1>3. CASE /\ S # {}
           /\ call' = [call EXCEPT ![c] = RemovingAll(S)]
           /\ UNCHANGED <<registered, named, default>>
  <2>1. RemovingAll(S) \in Call
    <3> HIDE DEF S
    <3> QED BY <1>1 DEF Call
  <2>2. RegistryTypeOK'
    <3>1. call' \in [Caller -> Call]
      <4> HIDE DEF S
      <4> QED BY <1>3, <2>1 DEF RegistryTypeOK
    <3>2. UNCHANGED <<status, last, raised, registered, named, default>>
      BY <1>3 DEF UnregisterAll
    <3> HIDE DEF S
    <3> QED BY <3>1, <3>2 DEF RegistryTypeOK
  <2>3. HealthyIsReachable'
    BY <1>3 DEF UnregisterAll, HealthyIsReachable, HealthyIn
  <2>4. \A e \in Caller : call[e].op = "version" => call'[e] = call[e]
    BY <1>3 DEF UnregisterAll, RegistryTypeOK, Idle
  <2>5. DefaultIsRegistered'
    BY <1>3, <2>4, DefaultKept DEF UnregisterAll
  <2> QED
    BY <2>2, <2>3, <2>5
<1> QED
  BY <1>2, <1>3 DEF UnregisterAll

LEMMA OneTornDownStep ==
    ASSUME RegistryInv, NEW c \in Caller, OneTornDown(c)
    PROVE  RegistryInv'
<1> USE DEF RegistryInv
<1>1. call[c].left \in SUBSET Registration
  <2>1. call[c] \in Call /\ call[c].op = "all"
    BY DEF OneTornDown, RegistryTypeOK
  <2> QED
    BY <2>1 DEF Call, Idle, Probing, Removing, RemovingAll
<1>2. PICK i \in call[c].left :
        /\ IF call[c].left = {i}
           THEN RemoveName /\ call' = [call EXCEPT ![c] = Idle]
           ELSE /\ call' = [call EXCEPT ![c] = RemovingAll(call[c].left \ {i})]
                /\ UNCHANGED <<registered, named, default>>
  BY DEF OneTornDown
<1>3. UNCHANGED <<status, last, raised>>
  BY DEF OneTornDown
<1>4. \A e \in Caller : call[e].op = "version" => call'[e] = call[e]
  BY <1>2 DEF OneTornDown, RegistryTypeOK
<1>5. CASE call[c].left = {i}
  <2>1. Idle \in Call
    BY DEF Call
  <2>2. RegistryTypeOK' /\ HealthyIsReachable'
    BY <1>2, <1>3, <1>5, <2>1, RemoveNameWorks DEF OneTornDown, RegistryTypeOK
  <2>3. DefaultIsRegistered'
    BY <1>2, <1>3, <1>4, <1>5, RemoveNameWorks, DefaultKept DEF OneTornDown
  <2> QED
    BY <2>2, <2>3
<1>6. CASE call[c].left # {i}
  <2>1. RemovingAll(call[c].left \ {i}) \in Call
    BY <1>1 DEF Call
  <2>2. RegistryTypeOK'
    BY <1>2, <1>3, <1>6, <2>1 DEF OneTornDown, RegistryTypeOK
  <2>3. HealthyIsReachable'
    BY <1>2, <1>6 DEF OneTornDown, HealthyIsReachable, HealthyIn
  <2>4. DefaultIsRegistered'
    BY <1>2, <1>3, <1>4, <1>6, DefaultKept
  <2> QED
    BY <2>2, <2>3, <2>4
<1> QED
  BY <1>5, <1>6

LEMMA TeardownRaisesStep ==
    ASSUME RegistryInv, NEW c \in Caller, TeardownRaises(c)
    PROVE  RegistryInv'
<1> USE DEF RegistryInv
<1>1. Idle \in Call
  BY DEF Call
<1>2. raised' \in SUBSET Version
  <2>1. call[c] \in Call
    BY DEF RegistryTypeOK
  <2>2. call[c].op = "version" => call[c].version \in Version
    BY <2>1 DEF Call, Idle, Probing, Removing, RemovingAll
  <2> QED
    BY <2>2 DEF TeardownRaises, RegistryTypeOK
<1>3. RegistryTypeOK'
  BY <1>1, <1>2 DEF TeardownRaises, RegistryTypeOK
<1>4. HealthyIsReachable'
  BY DEF TeardownRaises, HealthyIsReachable, HealthyIn
<1>5. DefaultIsRegistered'
  <2> SUFFICES ASSUME default' # None, registered'[default'] = 0, default' \notin raised'
               PROVE  \E e \in Caller :
                         call'[e].op = "version" /\ call'[e].version = default'
    BY DEF DefaultIsRegistered
  <2>1. UNCHANGED <<default, registered>> /\ raised \subseteq raised'
    BY DEF TeardownRaises
  <2>2. PICK e \in Caller : call[e].op = "version" /\ call[e].version = default
    BY <2>1 DEF DefaultIsRegistered
  <2>3. e # c
    BY <2>1, <2>2 DEF TeardownRaises
  <2>4. call'[e] = call[e]
    BY <2>3 DEF TeardownRaises, RegistryTypeOK
  <2> QED
    BY <2>1, <2>2, <2>4
<1> QED
  BY <1>3, <1>4, <1>5

(* A health verdict or a mark changes the status of what is routed only;   *)
(* then there is a default.                                                *)
LEMMA SetHealthWorks ==
    ASSUME RegistryInv, NEW h \in Health, SetHealth(h),
           UNCHANGED <<named, registered, default, last, raised>>, call' \in [Caller -> Call],
           \A e \in Caller : call[e].op = "version" => call'[e] = call[e]
    PROVE  RegistryInv'
<1> USE DEF RegistryInv
<1>1. status' \in [Registration -> Health]
  BY GetSkillType DEF SetHealth, RegistryTypeOK
<1>2. RegistryTypeOK'
  BY <1>1 DEF RegistryTypeOK
<1>3. HealthyIsReachable'
  BY GetSkillType DEF SetHealth, HealthyIsReachable, HealthyIn
<1>4. DefaultIsRegistered'
  BY DefaultKept
<1> QED
  BY <1>2, <1>3, <1>4

LEMMA HealthChecksStep ==
    ASSUME RegistryInv, HealthChecks
    PROVE  RegistryInv'
<1>1. PICK c \in Caller : HealthCheck(c) \/ HealthCheckReturns(c)
  BY DEF HealthChecks
<1>2. RegistryTypeOK
  BY DEF RegistryInv
<1>3. CASE HealthCheck(c)
  <2>1. Probing(GetSkill) \in Call
    BY <1>2, <1>3, GetSkillType DEF HealthCheck, Call
  <2>2. RegistryTypeOK'
    BY <1>2, <1>3, <2>1 DEF HealthCheck, RegistryTypeOK
  <2>3. HealthyIsReachable'
    BY <1>3 DEF RegistryInv, HealthCheck, HealthyIsReachable, HealthyIn
  <2>4. \A e \in Caller : call[e].op = "version" => call'[e] = call[e]
    BY <1>2, <1>3 DEF HealthCheck, RegistryTypeOK, Idle
  <2>5. DefaultIsRegistered'
    BY <1>3, <2>4, DefaultKept DEF HealthCheck, RegistryInv
  <2> QED
    BY <2>2, <2>3, <2>5 DEF RegistryInv
<1>4. CASE HealthCheckReturns(c)
  <2>1. PICK h \in Health : SetHealth(h)
    BY <1>4 DEF HealthCheckReturns
  <2>2. call' \in [Caller -> Call]
    BY <1>2, <1>4 DEF HealthCheckReturns, RegistryTypeOK, Call
  <2>3. \A e \in Caller : call[e].op = "version" => call'[e] = call[e]
    BY <1>2, <1>4 DEF HealthCheckReturns, RegistryTypeOK
  <2> QED
    BY <1>4, <2>1, <2>2, <2>3, SetHealthWorks DEF HealthCheckReturns
<1> QED
  BY <1>1, <1>3, <1>4

LEMMA MarksStep ==
    ASSUME RegistryInv, Marks
    PROVE  RegistryInv'
<1>1. PICK h \in Health : Mark(h)
  BY DEF Marks
<1>2. call' \in [Caller -> Call]
  BY <1>1 DEF Mark, RegistryInv, RegistryTypeOK
<1> QED
  BY <1>1, <1>2, SetHealthWorks DEF Mark

LEMMA RegistryInvStutter ==
    ASSUME RegistryInv, UNCHANGED registryVars
    PROVE  RegistryInv'
BY DEF registryVars, RegistryInv, RegistryTypeOK, HealthyIsReachable, HealthyIn,
       DefaultIsRegistered

LEMMA RegistryInvariant == RegistrySpec => []RegistryInv
<1>1. ASSUME RegistryInv, RegistryNext PROVE RegistryInv'
  <2>1. CASE Lifecycle
    BY <1>1, <2>1, RegisterStep, UnregisterVersionStep, UnregisterAllStep,
       VersionTornDownStep, OneTornDownStep, TeardownRaisesStep DEF Lifecycle
  <2> QED
    BY <1>1, <2>1, HealthChecksStep, MarksStep DEF RegistryNext
<1> QED
  BY <1>1, RegistryInvInit, RegistryInvStutter, PTL DEF RegistrySpec

-----------------------------------------------------------------------------
(* The theorems.                                                           *)

(* The types of the registry: the version calls are routed to is a version *)
(* or none, whatever hooks and health checks are under way.                *)
THEOREM RegistryTypeCorrect == RegistrySpec => []RegistryTypeOK
BY RegistryInvariant, PTL DEF RegistryInv

(* _update_default_version and register leave no healthy version behind:   *)
(* the registry has no default only when no version is healthy, even when  *)
(* hooks raise or callers interleave.                                      *)
THEOREM HealthyVersionsReachable == RegistrySpec => []HealthyIsReachable
BY RegistryInvariant, PTL DEF RegistryInv

(* A default that is gone is about to be repaired by the unregister that   *)
(* took it out, unless the hook of that unregister raised.                 *)
THEOREM DefaultVersionRegistered == RegistrySpec => []DefaultIsRegistered
BY RegistryInvariant, PTL DEF RegistryInv

-----------------------------------------------------------------------------
(* SkillHealth.                                                            *)

LEMMA HealthStepIsRegistryStep ==
    ASSUME HealthNext
    PROVE  RegistryNext \/ UNCHANGED registryVars
<1>1. CASE CallSucceeds
  BY <1>1 DEF CallSucceeds, RegistryNext, Marks, Health
<1>2. CASE MarkRuns
  BY <1>2 DEF MarkRuns, RegistryNext, Marks, Health
<1>3. CASE RegistryStep
  BY <1>3 DEF RegistryStep, RegistryNext
<1>4. CASE StartCall \/ CallNotFound \/ CallFails \/ Tick
  BY <1>4 DEF StartCall, CallNotFound, CallFails, Tick, registryVars
<1> QED
  BY <1>1, <1>2, <1>3, <1>4 DEF HealthNext

(* The orchestrator calls, fails and marks skills through the registry     *)
(* only: every behaviour of the monitoring is one of the registry, whose   *)
(* theorems hold of it.                                                    *)
THEOREM HealthUsesTheRegistry == HealthSpec => RegistrySpec
<1>1. HealthInit => RegistryInit
  BY DEF HealthInit
<1>2. ASSUME [HealthNext]_allVars PROVE [RegistryNext]_registryVars
  BY <1>2, HealthStepIsRegistryStep DEF allVars
<1> QED
  BY <1>1, <1>2, PTL DEF HealthSpec, RegistrySpec

(* A number is given once, so no two failures fall together in the set.    *)
FailuresNumbered ==
    /\ IsFiniteSet(log)
    /\ Cardinality(log) <= MaxFailures
    /\ \A f \in log : f.nth <= Cardinality(log)

(* What has been pruned is out of the window, for good: the clock does not *)
(* step back.                                                              *)
PrunedAreOld ==
    /\ failures \subseteq log
    /\ \A f \in log \ failures : ~ Kept(f.at)

HealthInv ==
    /\ HealthTypeOK
    /\ FailuresNumbered
    /\ PrunedAreOld

USE ThresholdAssumption, WindowAssumption, BoundsAssumption

(* A failure gets a number of its own, and the records then are the whole  *)
(* history within the window.                                              *)
LEMMA RecordFailureWorks ==
    ASSUME HealthInv, RecordFailure, now' = now, running' \in 0..MaxCalls
    PROVE  /\ HealthInv'
           /\ log' # log
           /\ failures' = Recent(log', now)
<1> DEFINE failure == [nth |-> Cardinality(log) + 1, at |-> now]
<1>1. /\ log' = log \cup {failure}
      /\ failures' = {f \in failures \cup {failure} : Kept(f.at)}
      /\ Cardinality(log) < MaxFailures
  BY DEF RecordFailure
<1>2. Cardinality(log) \in Nat /\ MaxFailures \in Nat
  BY FS_CardinalityType DEF HealthInv, FailuresNumbered
<1>3. failure \in Failure
  BY <1>1, <1>2 DEF Failure, HealthInv, HealthTypeOK
<1>4. failure \notin log
  <2>1. failure.nth > Cardinality(log)
    BY <1>2
  <2> QED
    BY <2>1, <1>2 DEF HealthInv, FailuresNumbered
<1>5. IsFiniteSet(log') /\ Cardinality(log') = Cardinality(log) + 1
  BY <1>1, <1>4, FS_AddElement DEF HealthInv, FailuresNumbered
<1>6. FailuresNumbered'
  <2>1. \A f \in log' : f.nth <= Cardinality(log) + 1
    <3> SUFFICES ASSUME NEW f \in log' PROVE f.nth <= Cardinality(log) + 1
      OBVIOUS
    <3>1. CASE f = failure
      BY <3>1, <1>2
    <3>2. CASE f \in log
      <4>1. f.nth \in Nat /\ f.nth <= Cardinality(log)
        BY <3>2, <1>2 DEF HealthInv, HealthTypeOK, FailuresNumbered, Failure
      <4> QED
        BY <4>1, <1>2
    <3> QED
      BY <1>1, <3>1, <3>2
  <2>2. Cardinality(log) + 1 <= MaxFailures
    BY <1>1, <1>2
  <2> HIDE DEF failure
  <2> QED
    BY <2>1, <2>2, <1>5, Zenon DEF FailuresNumbered
<1>7. failures' = Recent(log', now)
  <2>1. \A f \in log \ failures : ~ Kept(f.at)
    BY DEF HealthInv, PrunedAreOld
  <2>2. failures \subseteq log
    BY DEF HealthInv, PrunedAreOld
  <2>3. failures' = {f \in log' : Kept(f.at)}
    <3> HIDE DEF failure
    <3> QED
      BY <1>1, <2>1, <2>2
  <2> QED
    BY <2>3 DEF Recent, Kept
<1>8. PrunedAreOld'
  BY <1>7 DEF PrunedAreOld, Recent, Kept
<1>9. HealthTypeOK'
  BY <1>1, <1>3 DEF RecordFailure, HealthInv, HealthTypeOK
<1>10. log' # log
  BY <1>1, <1>4
<1> QED
  BY <1>6, <1>7, <1>8, <1>9, <1>10 DEF HealthInv

LEMMA CallsInFlight ==
    ASSUME HealthTypeOK, [HealthNext]_allVars
    PROVE  running' \in 0..MaxCalls
BY DEF HealthTypeOK, HealthNext, StartCall, CallNotFound, CallSucceeds, CallFails, MarkRuns,
       Tick, RegistryStep, allVars, healthVars

LEMMA HealthInvInit == HealthInit => HealthInv
<1> SUFFICES ASSUME HealthInit PROVE HealthInv
  OBVIOUS
<1>1. FailuresNumbered
  BY FS_EmptySet DEF HealthInit, FailuresNumbered
<1> QED
  BY <1>1 DEF HealthInit, HealthInv, HealthTypeOK, PrunedAreOld

LEMMA HealthInvStep ==
    ASSUME HealthInv, [HealthNext]_allVars
    PROVE  HealthInv'
<1>0. running' \in 0..MaxCalls
  BY CallsInFlight DEF HealthInv
<1>1. CASE CallNotFound \/ CallFails
  BY <1>0, <1>1, RecordFailureWorks DEF CallNotFound, CallFails
<1>2. CASE Tick
  <2>1. now' = now + 1 /\ now' \in 0..MaxTime
    BY <1>2 DEF Tick, HealthInv, HealthTypeOK
  <2>2. \A f \in log \ failures : ~ (f.at + Window > now + 1)
    <3> SUFFICES ASSUME NEW f \in log \ failures
                 PROVE  ~ (f.at + Window > now + 1)
      OBVIOUS
    <3>1. f.at \in Nat /\ ~ (f.at + Window > now) /\ now \in Nat
      BY DEF HealthInv, HealthTypeOK, PrunedAreOld, Failure, Kept
    <3> QED
      BY <3>1
  <2>3. PrunedAreOld'
    BY <1>2, <2>1, <2>2 DEF Tick, HealthInv, PrunedAreOld, Kept
  <2> QED
    BY <1>2, <2>1, <2>3 DEF Tick, HealthInv, HealthTypeOK, FailuresNumbered
<1>3. CASE MarkRuns
  BY <1>3 DEF MarkRuns, HealthInv, HealthTypeOK, FailuresNumbered, PrunedAreOld, Kept
<1>4. CASE StartCall \/ CallSucceeds \/ RegistryStep \/ UNCHANGED allVars
  BY <1>0, <1>4 DEF StartCall, CallSucceeds, RegistryStep, allVars, healthVars,
     HealthInv, HealthTypeOK, FailuresNumbered, PrunedAreOld, Kept
<1> QED
  BY <1>1, <1>2, <1>3, <1>4 DEF HealthNext

(* The types of the monitoring: what is kept are failures of the history's *)
(* kind, and never more calls are in flight than were started.             *)
THEOREM HealthTypesHold == HealthSpec => []HealthTypeOK
BY HealthInvInit, HealthInvStep, PTL DEF HealthSpec, HealthInv

(* _record_skill_failure marks a skill exactly on a burst: the failures it *)
(* prunes never count again, the others are all there.                     *)
THEOREM BurstsNoticed == HealthSpec => BurstsAreNoticed
<1> DEFINE Noticed ==
       log' # log =>
          (marks' > marks <=> Cardinality(Recent(log', now)) >= Threshold)
<1>1. ASSUME HealthInv, [HealthNext]_allVars
      PROVE  [Noticed]_allVars
  <2>1. CASE CallNotFound \/ CallFails
    <3>1. failures' = Recent(log', now)
      BY <1>1, <2>1, CallsInFlight, RecordFailureWorks
         DEF CallNotFound, CallFails, HealthNext, HealthInv
    <3>2. marks' = IF Cardinality(failures') >= Threshold THEN marks + 1 ELSE marks
      BY <2>1 DEF CallNotFound, CallFails, RecordFailure
    <3>3. marks \in Nat
      BY <1>1 DEF HealthInv, HealthTypeOK
    <3> QED
      BY <3>1, <3>2, <3>3
  <2>2. CASE StartCall \/ CallSucceeds \/ MarkRuns \/ Tick \/ RegistryStep
    BY <2>2 DEF StartCall, CallSucceeds, MarkRuns, Tick, RegistryStep, healthVars
  <2> QED
    BY <1>1, <2>1, <2>2 DEF HealthNext
<1> QED
  BY <1>1, HealthInvInit, HealthInvStep, PTL DEF HealthSpec, BurstsAreNoticed
=============================================================================
