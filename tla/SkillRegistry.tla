----------------------------- MODULE SkillRegistry -----------------------------
(***************************************************************************)
(* SkillRegistry (skills/registry.py): the versions registered under one   *)
(* skill name, the version calls are routed to, and the health of each.    *)
(* Skills are named apart in every dictionary of the registry, so one name *)
(* is the whole story.                                                     *)
(*                                                                         *)
(* The registry has no lock.  unregister awaits the on_unregister hook of  *)
(* the skill between taking a version out and repairing the default, and   *)
(* health_check awaits the skill between looking it up and writing the     *)
(* verdict: whatever the other callers do meanwhile is a step in between.  *)
(*                                                                         *)
(* A registration (a definition with its instance) is a number, counted in *)
(* the order of register: the dictionary of versions keeps that order.     *)
(***************************************************************************)
EXTENDS Naturals

CONSTANTS
    Version,           \* the versions of the skill
    Caller,            \* concurrent callers of the registry
    None,              \* no version
    MaxRegistrations,  \* bound: how often register succeeds
    TeardownMayFail    \* whether an on_unregister hook may raise

ASSUME NoneAssumption == None \notin Version
ASSUME MaxRegistrationsAssumption == MaxRegistrations \in Nat
ASSUME TeardownAssumption == TeardownMayFail \in BOOLEAN

VARIABLES
    named,       \* skill_name in self._skills
    registered,  \* self._skills[skill_name]: registration by version, 0 if absent
    default,     \* self._default_versions[skill_name], or None
    status,      \* definition.status by registration
    last,        \* the latest registration
    raised,      \* history: the versions whose removal ended in a hook that raised
    call         \* what each caller is suspended in

registryVars == <<named, registered, default, status, last, raised, call>>

Registration == 1..MaxRegistrations
Health == {"healthy", "unhealthy"}

Idle == [op |-> "idle"]
Removing(v, i) == [op |-> "version", version |-> v, instance |-> i]
RemovingAll(S) == [op |-> "all", left |-> S]
Probing(i) == [op |-> "health", instance |-> i]

Call == {Idle}
    \cup {Probing(i) : i \in Registration}
    \cup {Removing(v, i) : v \in Version, i \in Registration}
    \cup {RemovingAll(S) : S \in SUBSET Registration}

-----------------------------------------------------------------------------
(* Lookups.                                                                *)

\* get_skill and get_definition without a version: neither looks at the status.
GetSkill ==
    IF named /\ default # None /\ registered[default] # 0
    THEN registered[default] ELSE 0

HealthyIn(reg) == {v \in Version : reg[v] # 0 /\ status[reg[v]] = "healthy"}

\* Variant: the default is kept when no healthy version is left.
NewestHealthyOrKept(reg) ==
    IF HealthyIn(reg) = {} THEN default
    ELSE CHOOSE v \in HealthyIn(reg) : \A w \in HealthyIn(reg) : reg[w] <= reg[v]

\* _update_default_version: the healthy version registered last.
NewestHealthy(reg) ==
    IF HealthyIn(reg) = {} THEN None
    ELSE CHOOSE v \in HealthyIn(reg) : \A w \in HealthyIn(reg) : reg[w] <= reg[v]

-----------------------------------------------------------------------------
(* Operations.                                                             *)

\* Variant: the default follows only updates of a skill that is there.
DefaultIfNamed(v, s) == IF s = "healthy" /\ named THEN v ELSE default

DefaultAfterRegister(v, s) == IF s = "healthy" THEN v ELSE default

\* A version that is registered already is refused.  on_register is awaited
\* after the tables have been written and changes nothing here.
Register(v, s) ==
    /\ registered[v] = 0
    /\ last < MaxRegistrations
    /\ last' = last + 1
    /\ named' = TRUE
    /\ registered' = [registered EXCEPT ![v] = last + 1]
    /\ status' = [status EXCEPT ![last + 1] = s]
    /\ default' = DefaultAfterRegister(v, s)
    /\ UNCHANGED <<raised, call>>

\* The end of unregister(version): drop the name with its last version, or
\* find another default.
Repair(v) ==
    IF \A w \in Version : registered[w] = 0
    THEN named' = FALSE /\ default' = None
    ELSE /\ default' = IF default = v THEN NewestHealthy(registered) ELSE default
         /\ UNCHANGED named

UnregisterVersion(c, v) ==
    /\ call[c] = Idle
    /\ named
    /\ \/ /\ registered[v] # 0
          /\ registered' = [registered EXCEPT ![v] = 0]
          /\ call' = [call EXCEPT ![c] = Removing(v, registered[v])]
          /\ UNCHANGED <<named, default>>
       \/ /\ registered[v] = 0
          /\ Repair(v)
          /\ UNCHANGED <<registered, call>>
    /\ UNCHANGED <<status, last, raised>>

\* The hook of the removed version returned.
VersionTornDown(c) ==
    /\ call[c].op = "version"
    /\ Repair(call[c].version)
    /\ call' = [call EXCEPT ![c] = Idle]
    /\ UNCHANGED <<registered, status, last, raised>>

\* Removes the name with everything in it, also what was registered while the
\* hooks ran; when another caller has removed it, `del' raises a KeyError.
RemoveName ==
    IF named
    THEN /\ registered' = [v \in Version |-> 0]
         /\ named' = FALSE
         /\ default' = None
    ELSE UNCHANGED <<registered, named, default>>

UnregisterAll(c) ==
    /\ call[c] = Idle
    /\ named
    /\ LET S == {registered[v] : v \in Version} \ {0} IN
       IF S = {}
       THEN RemoveName /\ UNCHANGED call
       ELSE /\ call' = [call EXCEPT ![c] = RemovingAll(S)]
            /\ UNCHANGED <<registered, named, default>>
    /\ UNCHANGED <<status, last, raised>>

\* The versions that were there at the call are torn down one after the other.
OneTornDown(c) ==
    /\ call[c].op = "all"
    /\ \E i \in call[c].left :
          /\ \A j \in call[c].left : i <= j
          /\ IF call[c].left = {i}
             THEN RemoveName /\ call' = [call EXCEPT ![c] = Idle]
             ELSE /\ call' = [call EXCEPT ![c] = RemovingAll(call[c].left \ {i})]
                  /\ UNCHANGED <<registered, named, default>>
    /\ UNCHANGED <<status, last, raised>>

\* The hook raised: unregister ends there.
TeardownRaises(c) ==
    /\ TeardownMayFail
    /\ \/ call[c].op = "version" /\ raised' = raised \cup {call[c].version}
       \/ call[c].op = "all" /\ UNCHANGED raised
    /\ call' = [call EXCEPT ![c] = Idle]
    /\ UNCHANGED <<named, registered, default, status, last>>

HealthCheck(c) ==
    /\ call[c] = Idle
    /\ GetSkill # 0
    /\ call' = [call EXCEPT ![c] = Probing(GetSkill)]
    /\ UNCHANGED <<named, registered, default, status, last, raised>>

\* Writes the status of the definition calls are routed to now.
SetHealth(h) ==
    status' = IF GetSkill = 0 THEN status ELSE [status EXCEPT ![GetSkill] = h]

\* The verdict lands on the version that is the default when it arrives.
HealthCheckReturns(c) ==
    /\ call[c].op = "health"
    /\ \E h \in Health : SetHealth(h)
    /\ call' = [call EXCEPT ![c] = Idle]
    /\ UNCHANGED <<named, registered, default, last, raised>>

\* mark_healthy and mark_unhealthy, called by the orchestrator.
Mark(h) ==
    /\ SetHealth(h)
    /\ UNCHANGED <<named, registered, default, last, raised, call>>

-----------------------------------------------------------------------------
(* The specification.                                                      *)

RegistryInit ==
    /\ named = FALSE
    /\ registered = [v \in Version |-> 0]
    /\ default = None
    /\ status = [i \in Registration |-> "healthy"]
    /\ last = 0
    /\ raised = {}
    /\ call = [c \in Caller |-> Idle]

Lifecycle ==
    \/ \E v \in Version, s \in Health : Register(v, s)
    \/ \E c \in Caller, v \in Version : UnregisterVersion(c, v)
    \/ \E c \in Caller :
          UnregisterAll(c) \/ VersionTornDown(c) \/ OneTornDown(c) \/ TeardownRaises(c)

HealthChecks ==
    \E c \in Caller : HealthCheck(c) \/ HealthCheckReturns(c)

Marks == \E h \in Health : Mark(h)

RegistryNext == Lifecycle \/ HealthChecks \/ Marks

RegistrySpec == RegistryInit /\ [][RegistryNext]_registryVars

-----------------------------------------------------------------------------
(* Properties.                                                             *)

RegistryTypeOK ==
    /\ named \in BOOLEAN
    /\ registered \in [Version -> 0..last]
    /\ default \in Version \cup {None}
    /\ status \in [Registration -> Health]
    /\ last \in 0..MaxRegistrations
    /\ raised \in SUBSET Version
    /\ call \in [Caller -> Call]

\* The default is never left on a version that is gone, except while the
\* unregister that took it out still runs, or when its hook raised: else every
\* call would fail although other versions are there.
DefaultIsRegistered ==
    default # None =>
        \/ registered[default] # 0
        \/ \E c \in Caller :
              call[c].op = "version" /\ call[c].version = default
        \/ default \in raised

\* A healthy version is never out of reach: without a default there is none.
HealthyIsReachable ==
    default = None => HealthyIn(registered) = {}
=============================================================================
