------------------------------ MODULE SkillHealth ------------------------------
(***************************************************************************)
(* The health monitoring of the orchestrator (core/orchestrator.py) on top *)
(* of SkillRegistry: every call of a skill ends in mark_healthy or in      *)
(* _record_skill_failure, which keeps the times of the recent failures     *)
(* under the name of the skill and, past a threshold, creates a task that  *)
(* will mark the skill unhealthy.                                          *)
(*                                                                         *)
(* Time is a clock in units of the window's resolution.  The list of the   *)
(* failures is appended to, filtered and measured, never indexed: it is a  *)
(* set, and failures at one moment differ by their number.  `log' is every *)
(* failure so far; the actions only number and bound the failures by it.   *)
(***************************************************************************)
EXTENDS SkillRegistry, FiniteSets

CONSTANTS
    Threshold,    \* _FAILURE_THRESHOLD
    Window,       \* _HEALTH_CHECK_WINDOW_MINUTES
    MaxCalls,     \* bound: calls of the skill in flight
    MaxTime,      \* bound: the clock
    MaxFailures   \* bound: how many calls fail

ASSUME ThresholdAssumption == Threshold \in Nat \ {0}
ASSUME WindowAssumption == Window \in Nat \ {0}
ASSUME BoundsAssumption == {MaxCalls, MaxTime, MaxFailures} \subseteq Nat

VARIABLES
    now,       \* time.time()
    failures,  \* self._skill_failures[skill_name], pruned to the window
    marks,     \* tasks created for mark_unhealthy that have not run
    running,   \* how many calls of the skill are in flight
    log        \* history: every failure

healthVars == <<now, failures, marks, running, log>>
allVars == <<registryVars, healthVars>>

-----------------------------------------------------------------------------

\* Variant: the window one unit shorter.
KeptShorter(t) == t + Window > now + 1

\* ts > cutoff
Kept(t) == t + Window > now

Failure == [nth : 1..MaxFailures, at : 0..MaxTime]

\* _record_skill_failure.
RecordFailure ==
    /\ Cardinality(log) < MaxFailures
    /\ LET failure == [nth |-> Cardinality(log) + 1, at |-> now] IN
       /\ failures' = {f \in failures \cup {failure} : Kept(f.at)}
       /\ log' = log \cup {failure}
    /\ marks' = IF Cardinality(failures') >= Threshold THEN marks + 1 ELSE marks

\* get_skill found an instance; validate and execute are awaited.
StartCall ==
    /\ GetSkill # 0
    /\ running < MaxCalls
    /\ running' = running + 1
    /\ UNCHANGED <<registryVars, now, failures, marks, log>>

\* A task is routed to a skill the registry does not find.
CallNotFound ==
    /\ GetSkill = 0
    /\ RecordFailure
    /\ UNCHANGED <<registryVars, now, running>>

CallSucceeds ==
    /\ running > 0
    /\ running' = running - 1
    /\ Mark("healthy")
    /\ UNCHANGED <<now, failures, marks, log>>

CallFails ==
    /\ running > 0
    /\ running' = running - 1
    /\ RecordFailure
    /\ UNCHANGED <<registryVars, now>>

\* A task created by _record_skill_failure gets its turn.
MarkRuns ==
    /\ marks > 0
    /\ marks' = marks - 1
    /\ Mark("unhealthy")
    /\ UNCHANGED <<now, failures, running, log>>

Tick ==
    /\ now < MaxTime
    /\ now' = now + 1
    /\ UNCHANGED <<registryVars, failures, marks, running, log>>

RegistryStep ==
    /\ Lifecycle \/ HealthChecks
    /\ UNCHANGED healthVars

HealthInit ==
    /\ RegistryInit
    /\ now = 0
    /\ failures = {}
    /\ marks = 0
    /\ running = 0
    /\ log = {}

HealthNext ==
    \/ StartCall \/ CallNotFound \/ CallSucceeds \/ CallFails
    \/ MarkRuns \/ Tick \/ RegistryStep

HealthSpec == HealthInit /\ [][HealthNext]_allVars

-----------------------------------------------------------------------------
(* Properties.                                                             *)

HealthTypeOK ==
    /\ now \in 0..MaxTime
    /\ failures \in SUBSET Failure
    /\ marks \in Nat
    /\ running \in 0..MaxCalls
    /\ log \in SUBSET Failure

\* The failures younger than the window, counted over the whole history.
Recent(all, t) == {f \in all : f.at + Window > t}

\* The pruned records never lose a burst and never invent one: a failure has
\* the skill marked exactly when it is at least the Threshold-th within the
\* window, however the failures before it were spread.
BurstsAreNoticed ==
    [][log' # log =>
          (marks' > marks <=> Cardinality(Recent(log', now)) >= Threshold)]_allVars
=============================================================================
