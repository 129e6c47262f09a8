------------------------------ MODULE StsIdentity ------------------------------
(***************************************************************************)
(* WorkloadIdentityManager (security/identity.py) and the Alibaba Cloud    *)
(* part of CredentialManager (security/credential_manager.py): temporary   *)
(* credentials from STS, fetched on demand by concurrent callers, cached,  *)
(* and renewed by a background task shortly before they expire.            *)
(*                                                                         *)
(* Time is counted down: every credential, token and timer carries the     *)
(* ticks it has left, so a run may last for ever.  The event loop is       *)
(* prompt: a tick waits until everything that is due has been done.        *)
(*                                                                         *)
(* One cache key is modelled: the keys of different scopes are different   *)
(* entries of a dictionary.                                                *)
(***************************************************************************)
EXTENDS Integers

CONSTANTS
    Caller,         \* concurrent calls of get_aliyun_credential
    Task,           \* background tasks that may be alive at once
    None,           \* no credential, no task
    Duration,       \* ticks a credential is granted for
    RefreshBefore,  \* token_refresh_before_minutes, in ticks
    MaxDelay,       \* bound: ticks an answer of STS takes, or its failure
    Pause,          \* ticks before another attempt
    TokenLife,      \* ticks a service account token is valid for
    TokensExpire    \* whether tokens expire at all

MaxRetries == 3

ASSUME DurationAssumption ==
    /\ {Duration, RefreshBefore, MaxDelay, Pause, TokenLife} \subseteq Nat
    /\ RefreshBefore + MaxDelay < Duration
    /\ Pause > 0 /\ TokenLife > 0
ASSUME NoneAssumption == None \notin Caller \cup Task \cup Nat
ASSUME WorkerAssumption == Caller \cap Task = {}
ASSUME TokensAssumption == TokensExpire \in BOOLEAN

VARIABLES
    credential,  \* ticks left of self._credential, or None
    current,     \* self._refresh_task: the latest background task
    cached,      \* ticks left of the credential in the cache, or None
    pod,         \* ticks left of the token that is mounted in the pod
    job,         \* what each caller and each background task is doing
    handed,      \* ticks left of what each caller was given when it returned
    manager      \* "open", "closing" while close waits, "closed"

stsVars == <<credential, current, cached, pod, job, handed, manager>>

Worker == Caller \cup Task

Idle == [at |-> "idle", token |-> 0, left |-> 0, life |-> 0, tries |-> 0]
Live == {t \in Task : job[t] # Idle}

\* is_valid, and _is_credential_valid for the cache.
Valid(life) == life # None /\ life > RefreshBefore

-----------------------------------------------------------------------------
(* Asking STS.                                                             *)

\* assume_role up to the answer, with this token.
Asking(w, token) ==
    [job[w] EXCEPT !.at = "asking", !.token = token, !.left = MaxDelay]

\* STS accepts a token that has not expired.  The credential lives from now,
\* the answer is still on its way.
StsGrants(w) ==
    /\ job[w].at = "asking"
    /\ job[w].token > 0
    /\ job' = [job EXCEPT ![w].at = "answered", ![w].life = Duration]
    /\ UNCHANGED <<credential, current, cached, pod, handed, manager>>

\* Variant: the background task ends at the first failure.
Ends(w) ==
    /\ job[w].at = "asking"
    /\ job' = [job EXCEPT ![w] =
          IF w \in Task THEN Idle
          ELSE [@ EXCEPT !.at = "pausing", !.left = Pause, !.tries = @ + 1]]
    /\ UNCHANGED <<credential, current, cached, pod, handed, manager>>

\* assume_role raises.  A caller counts its attempts, the background task does
\* not, and both pause, the caller after its last attempt too.
StsFails(w) ==
    /\ job[w].at = "asking"
    /\ job' = [job EXCEPT ![w].at = "pausing", ![w].left = Pause,
                          ![w].tries = IF w \in Caller THEN @ + 1 ELSE @]
    /\ UNCHANGED <<credential, current, cached, pod, handed, manager>>

\* Variant: the task that is there is not cancelled.
NoneCancelled(w) == [job EXCEPT ![w] = Idle]

\* The worker w has its answer; the task that was there is cancelled, also when
\* it is the one that asked.
Cancelled(w) ==
    [u \in Worker |-> IF u = w \/ u = current THEN Idle ELSE job[u]]

\* The end of assume_role: the credential is kept whether or not it is newer
\* than the one there, and a new background task goes on with the same token.
\* A caller returns with it and caches it.
StsAnswers(w) ==
    /\ job[w].at = "answered"
    /\ credential' = job[w].life
    /\ \E t \in Task :
          /\ Cancelled(w)[t] = Idle
          /\ current' = t
          /\ job' = [Cancelled(w) EXCEPT ![t] =
                        [Idle EXCEPT !.at = "starting", !.token = job[w].token]]
    /\ IF w \in Caller
       THEN /\ cached' = job[w].life
            /\ handed' = [handed EXCEPT ![w] = job[w].life]
       ELSE UNCHANGED <<cached, handed>>
    /\ UNCHANGED <<pod, manager>>

-----------------------------------------------------------------------------
(* The background task.                                                    *)

\* One round of _auto_refresh_loop up to where it waits.
Round(t) ==
    IF credential = None THEN Idle
    ELSE IF credential > RefreshBefore
    THEN [job[t] EXCEPT !.at = "sleeping", !.left = credential - RefreshBefore]
    ELSE Asking(t, job[t].token)

TaskRuns(t) ==
    /\ \/ job[t].at = "starting"
       \/ job[t].at = "pausing" /\ job[t].left = 0
    /\ job' = [job EXCEPT ![t] = Round(t)]
    /\ UNCHANGED <<credential, current, cached, pod, handed, manager>>

\* Whatever happened while it slept, the task asks for a credential.
TaskWakes(t) ==
    /\ job[t].at = "sleeping" /\ job[t].left = 0
    /\ job' = [job EXCEPT ![t] = Asking(t, job[t].token)]
    /\ UNCHANGED <<credential, current, cached, pod, handed, manager>>

-----------------------------------------------------------------------------
(* The callers.                                                            *)

Give(c, life) ==
    /\ handed' = [handed EXCEPT ![c] = life]
    /\ job' = [job EXCEPT ![c] = Idle]

\* One attempt of _get_from_workload_identity: the credential that is there, or
\* a new one, with the token the pod has now.
Attempt(c) ==
    IF Valid(credential)
    THEN /\ Give(c, credential)
         /\ cached' = credential
    ELSE /\ job' = [job EXCEPT ![c] = Asking(c, pod)]
         /\ UNCHANGED <<cached, handed>>

\* Variant: a credential is served from the cache until it expires.
CacheUnexpired(life) == life # None /\ life > 0

CacheValid(life) == Valid(life)

GetCredential(c) ==
    /\ job[c] = Idle
    /\ IF CacheValid(cached)
       THEN Give(c, cached) /\ UNCHANGED cached
       ELSE Attempt(c)
    /\ UNCHANGED <<credential, current, pod, manager>>

\* The pause is over: another attempt, or the error is raised.
CallerRetries(c) ==
    /\ job[c].at = "pausing" /\ job[c].left = 0
    /\ IF job[c].tries = MaxRetries
       THEN job' = [job EXCEPT ![c] = Idle] /\ UNCHANGED <<cached, handed>>
       ELSE Attempt(c)
    /\ UNCHANGED <<credential, current, pod, manager>>

\* CredentialManager.clear_cache and close.
ClearCache ==
    /\ cached' = None
    /\ UNCHANGED <<credential, current, pod, job, handed, manager>>

-----------------------------------------------------------------------------
(* Closing, and time.                                                      *)

\* close cancels the background task and waits for it to end, when it is alive.
Close ==
    /\ manager = "open"
    /\ IF current # None /\ job[current] # Idle
       THEN /\ job' = [job EXCEPT ![current] = Idle]
            /\ manager' = "closing"
            /\ UNCHANGED credential
       ELSE /\ manager' = "closed"
            /\ credential' = None
            /\ UNCHANGED job
    /\ UNCHANGED <<current, cached, pod, handed>>

CloseReturns ==
    /\ manager = "closing"
    /\ manager' = "closed"
    /\ credential' = None
    /\ UNCHANGED <<current, cached, pod, job, handed>>

\* The kubelet replaces the token in the pod before it expires.
TokenRotated ==
    /\ TokensExpire
    /\ pod' = TokenLife
    /\ UNCHANGED <<credential, current, cached, job, handed, manager>>

Less(n) == IF n = None \/ n = 0 THEN n ELSE n - 1
LessToken(n) == IF TokensExpire THEN Less(n) ELSE n

Tick ==
    /\ manager # "closing"
    /\ \A w \in Worker : job[w] # Idle => job[w].at # "starting" /\ job[w].left > 0
    /\ TokensExpire => pod > 1
    /\ credential' = Less(credential)
    /\ cached' = Less(cached)
    /\ pod' = LessToken(pod)
    /\ job' = [w \in Worker |->
          [job[w] EXCEPT !.left = Less(@), !.life = Less(@), !.token = LessToken(@)]]
    /\ UNCHANGED <<current, handed, manager>>

-----------------------------------------------------------------------------
(* The specification.                                                      *)

StsInit ==
    /\ credential = None
    /\ current = None
    /\ cached = None
    /\ pod = TokenLife
    /\ job = [w \in Worker |-> Idle]
    /\ handed = [c \in Caller |-> None]
    /\ manager = "open"

StsNext ==
    \/ \E w \in Worker : StsGrants(w) \/ StsFails(w) \/ StsAnswers(w)
    \/ \E t \in Task : TaskRuns(t) \/ TaskWakes(t)
    \/ \E c \in Caller : GetCredential(c) \/ CallerRetries(c)
    \/ ClearCache \/ Close \/ CloseReturns \/ TokenRotated \/ Tick

\* The event loop runs what is due, time passes, the kubelet does its work,
\* every request to STS ends, and STS does not fail with a good token for ever.
\* Nobody has to call.
StsFairness ==
    /\ WF_stsVars(Tick) /\ WF_stsVars(CloseReturns)
    /\ WF_stsVars(TokenRotated /\ pod = 1)
    /\ \A t \in Task : WF_stsVars(TaskRuns(t)) /\ WF_stsVars(TaskWakes(t))
    /\ \A c \in Caller : WF_stsVars(CallerRetries(c))
    /\ \A w \in Worker :
          /\ WF_stsVars(StsGrants(w) \/ StsFails(w)) /\ WF_stsVars(StsAnswers(w))
          /\ SF_stsVars(StsGrants(w))

StsSpec == StsInit /\ [][StsNext]_stsVars /\ StsFairness

-----------------------------------------------------------------------------
(* Properties.                                                             *)

Job == [at : {"idle", "starting", "asking", "answered", "sleeping", "pausing"},
        token : 0..TokenLife,
        left : 0..(Duration + MaxDelay + Pause),
        life : 0..Duration,
        tries : 0..MaxRetries]

StsTypeOK ==
    /\ credential \in {None} \cup 0..Duration
    /\ current \in {None} \cup Task
    /\ cached \in {None} \cup 0..Duration
    /\ pod \in 0..TokenLife
    /\ job \in [Worker -> Job]
    /\ handed \in [Caller -> {None} \cup 0..Duration]
    /\ manager \in {"open", "closing", "closed"}

\* A caller is never given a credential that is due for renewal, from the
\* cache, from the manager or from STS.
HandedOutFresh == \A c \in Caller : handed[c] # None => handed[c] > RefreshBefore

\* However callers and the task itself renew the credential, one background
\* task is alive at most, and it is the one close would cancel; and as long as
\* nobody closes the manager there is one, failures of STS do not end it.
OneRefresher ==
    /\ Live \subseteq {current}
    /\ credential # None /\ manager = "open" => Live # {}

\* "Automatic renewal (5 minutes before expiry)": a credential that is due is
\* renewed, without any call, as long as STS works at times and the token of the
\* background task has not expired.  The task goes on with the token of the
\* request that started it, so its renewal ends with that token, although the
\* pod has had a newer one for long.
TokenSpent == \E t \in Live : job[t].token = 0
KeptFresh ==
    credential # None /\ ~Valid(credential) /\ manager = "open"
        ~> Valid(credential) \/ manager # "open" \/ TokenSpent
=============================================================================
