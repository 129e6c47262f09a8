-------------------------- MODULE StsIdentity_proofs --------------------------
(***************************************************************************)
(* Proofs about StsIdentity, for any callers, tasks and durations: its     *)
(* types; no caller is given a credential that is due for renewal; and one *)
(* background task is alive at most, and one as long as there is a         *)
(* credential and nobody closes the manager.                               *)
(***************************************************************************)
EXTENDS StsIdentity, TLAPS

USE DurationAssumption, NoneAssumption, WorkerAssumption, TokensAssumption

-----------------------------------------------------------------------------
(* What is done.                                                           *)

LEMMA Durations ==
    /\ Duration \in Nat /\ RefreshBefore \in Nat /\ MaxDelay \in Nat
    /\ Pause \in Nat /\ TokenLife \in Nat
    /\ MaxDelay < Duration /\ None \notin Nat
OBVIOUS

LEMMA JobFields ==
    ASSUME StsTypeOK, NEW w \in Worker
    PROVE  /\ job[w] \in Job
           /\ job[w].at \in {"idle", "starting", "asking", "answered", "sleeping", "pausing"}
           /\ job[w].token \in 0..TokenLife /\ job[w].left \in 0..(Duration + MaxDelay + Pause)
           /\ job[w].life \in 0..Duration /\ job[w].tries \in 0..MaxRetries
BY DEF StsTypeOK, Job

LEMMA IdleJob == Idle \in Job /\ Idle.at = "idle" /\ Idle.tries = 0
BY DEF Idle, Job, MaxRetries

LEMMA AskingJob ==
    ASSUME StsTypeOK, NEW w \in Worker, NEW token \in 0..TokenLife
    PROVE  /\ Asking(w, token) \in Job
           /\ Asking(w, token).at = "asking" /\ Asking(w, token).left = MaxDelay
           /\ Asking(w, token).tries = job[w].tries
<1>1. MaxDelay \in 0..(Duration + MaxDelay + Pause)
  OBVIOUS
<1> QED BY <1>1 DEF StsTypeOK, Asking, Job

(* Nothing is left of a job that ended; a caller that asks has attempts    *)
(* left; an answer has been on its way for what its credential has lost,   *)
(* and for no longer than MaxDelay.                                        *)
AskingInv ==
    \A w \in Worker :
        /\ job[w].at = "idle" => job[w] = Idle
        /\ w \in Caller /\ job[w].at \in {"asking", "answered"} => job[w].tries < MaxRetries
        /\ job[w].at \in {"asking", "answered"} => job[w].left <= MaxDelay
        /\ job[w].at = "answered" => job[w].life + MaxDelay >= Duration + job[w].left

StsInv ==
    /\ StsTypeOK
    /\ AskingInv
    /\ HandedOutFresh
    /\ OneRefresher

LEMMA StsInvInit == StsInit => StsInv
<1> SUFFICES ASSUME StsInit PROVE StsInv
  OBVIOUS
<1>1. \A w \in Worker : job[w] = Idle
  BY DEF StsInit
<1>2. job \in [Worker -> Job] /\ handed \in [Caller -> {None} \cup 0..Duration]
  BY IdleJob DEF StsInit
<1>3. StsTypeOK
  BY <1>2 DEF StsInit, StsTypeOK
<1>4. AskingInv
  BY <1>1, IdleJob DEF AskingInv
<1>5. HandedOutFresh /\ OneRefresher
  BY <1>1 DEF StsInit, HandedOutFresh, OneRefresher, Live, Worker
<1> QED BY <1>3, <1>4, <1>5 DEF StsInv

(* One worker goes on to j.                                                *)
Fits(w, j) ==
    /\ j \in Job
    /\ j.at = "idle" => j = Idle
    /\ w \in Caller /\ j.at \in {"asking", "answered"} => j.tries < MaxRetries
    /\ j.at \in {"asking", "answered"} => j.left <= MaxDelay
    /\ j.at = "answered" => j.life + MaxDelay >= Duration + j.left

LEMMA OneGoesOn ==
    ASSUME StsTypeOK, AskingInv, NEW w \in Worker, NEW j, Fits(w, j),
           job' = [job EXCEPT ![w] = j]
    PROVE  /\ job' \in [Worker -> Job]
           /\ AskingInv'
           /\ job'[w] = j /\ \A u \in Worker : u # w => job'[u] = job[u]
BY DEF StsTypeOK, AskingInv, Fits

(* The background task is still the only one when a caller goes on, and    *)
(* when it does itself; it may end when there is no credential.            *)
LEMMA RefresherStays ==
    ASSUME OneRefresher, NEW w \in Worker,
           \A u \in Worker : u # w => job'[u] = job[u],
           w \in Task => /\ job[w] # Idle
                         /\ job'[w] # Idle \/ credential = None,
           UNCHANGED <<credential, current, manager>>
    PROVE  OneRefresher'
<1>1. Live' \subseteq Live
  BY DEF Live, Worker
<1>2. credential # None => Live \subseteq Live'
  BY DEF Live, Worker
<1> QED BY <1>1, <1>2 DEF OneRefresher

LEMMA StsGrantsStep ==
    ASSUME StsInv, NEW w \in Worker, StsGrants(w)
    PROVE  StsInv'
<1> USE DEF StsInv
<1> DEFINE j == [job[w] EXCEPT !.at = "answered", !.life = Duration]
<1>1. job[w].at = "asking" /\ job[w] \in Job
  BY JobFields DEF StsGrants
<1>2. /\ j \in Job /\ j.at = "answered" /\ j.life = Duration
      /\ j.left = job[w].left /\ j.tries = job[w].tries
  <2>1. Duration \in 0..Duration
    BY Durations
  <2>2. j \in Job
    BY <1>1, <2>1 DEF Job
  <2> QED BY <1>1, <2>2 DEF Job
<1>3. job' = [job EXCEPT ![w] = j]
  BY <1>1 DEF StsGrants, StsTypeOK
<1> HIDE DEF j
<1>4. Fits(w, j)
  BY <1>1, <1>2, JobFields DEF Fits, AskingInv
<1>5. /\ job' \in [Worker -> Job] /\ AskingInv'
      /\ job'[w] = j /\ \A u \in Worker : u # w => job'[u] = job[u]
  BY <1>3, <1>4, OneGoesOn
<1>6. StsTypeOK' /\ HandedOutFresh'
  BY <1>5 DEF StsGrants, StsTypeOK, HandedOutFresh
<1>7. job[w] # Idle /\ job'[w] # Idle
  BY <1>1, <1>2, <1>5, IdleJob
<1>8. OneRefresher'
  BY <1>5, <1>7, RefresherStays DEF StsGrants
<1> QED BY <1>5, <1>6, <1>8

LEMMA StsFailsStep ==
    ASSUME StsInv, NEW w \in Worker, StsFails(w)
    PROVE  StsInv'
<1> USE DEF StsInv
<1> DEFINE tries == IF w \in Caller THEN job[w].tries + 1 ELSE job[w].tries
           j == [job[w] EXCEPT !.at = "pausing", !.left = Pause, !.tries = tries]
<1>1. job[w].at = "asking" /\ job[w] \in Job
  BY JobFields DEF StsFails
<1>2. tries \in 0..MaxRetries
  BY <1>1, JobFields DEF AskingInv, MaxRetries
<1>3. Pause \in 0..(Duration + MaxDelay + Pause)
  OBVIOUS
<1>4. job' = [job EXCEPT ![w] = j]
  <2>1. CASE w \in Caller
    BY <1>1, <2>1 DEF StsFails, StsTypeOK
  <2>2. CASE w \notin Caller
    BY <1>1, <2>2 DEF StsFails, StsTypeOK
  <2> QED BY <2>1, <2>2
<1> HIDE DEF tries
<1>5. j \in Job /\ j.at = "pausing"
  BY <1>1, <1>2, <1>3 DEF Job
<1> HIDE DEF j
<1>6. Fits(w, j)
  BY <1>5 DEF Fits
<1>7. /\ job' \in [Worker -> Job] /\ AskingInv'
      /\ job'[w] = j /\ \A u \in Worker : u # w => job'[u] = job[u]
  BY <1>4, <1>6, OneGoesOn
<1>8. StsTypeOK' /\ HandedOutFresh'
  BY <1>7 DEF StsFails, StsTypeOK, HandedOutFresh
<1>9. job[w] # Idle /\ job'[w] # Idle
  BY <1>1, <1>5, <1>7, IdleJob
<1>10. OneRefresher'
  BY <1>7, <1>9, RefresherStays DEF StsFails
<1> QED BY <1>7, <1>8, <1>10

LEMMA StsAnswersStep ==
    ASSUME StsInv, NEW w \in Worker, StsAnswers(w)
    PROVE  StsInv'
<1> USE DEF StsInv
<1> DEFINE started == [Idle EXCEPT !.at = "starting", !.token = job[w].token]
<1>1. /\ job[w].at = "answered" /\ job[w].life \in 0..Duration
      /\ job[w].life > RefreshBefore
  BY JobFields DEF StsAnswers, AskingInv
<1>2. PICK t \in Task :
         /\ current' = t
         /\ job' = [Cancelled(w) EXCEPT ![t] = started]
  BY DEF StsAnswers
<1>3. started \in Job /\ started.at = "starting"
  <2>1. Idle \in Job /\ job[w].token \in 0..TokenLife
    BY IdleJob, JobFields
  <2> QED BY <2>1 DEF Job
<1> HIDE DEF started
<1>4. /\ Cancelled(w) \in [Worker -> Job]
      /\ \A u \in Worker : Cancelled(w)[u] = Idle \/ Cancelled(w)[u] = job[u]
      /\ \A u \in Task : Cancelled(w)[u] = Idle
  <2>1. \A u \in Worker : Cancelled(w)[u] = IF u = w \/ u = current THEN Idle ELSE job[u]
    BY DEF Cancelled
  <2>2. \A u \in Task : u # current => job[u] = Idle
    BY DEF OneRefresher, Live
  <2>3. Cancelled(w) \in [Worker -> Job]
    BY IdleJob DEF Cancelled, StsTypeOK
  <2> QED BY <2>1, <2>2, <2>3 DEF Worker
<1>5. /\ job' \in [Worker -> Job] /\ job'[t] = started
      /\ \A u \in Worker : u # t => job'[u] = Cancelled(w)[u]
  BY <1>2, <1>3, <1>4 DEF Worker
<1>6. AskingInv'
  <2>1. ASSUME NEW u \in Worker
        PROVE  job'[u] = job[u] \/ job'[u] = Idle \/ job'[u].at = "starting"
    BY <1>3, <1>4, <1>5
  <2> QED BY <2>1, IdleJob DEF AskingInv
<1>7. StsTypeOK'
  BY <1>1, <1>2, <1>5 DEF StsAnswers, StsTypeOK
<1>8. HandedOutFresh'
  BY <1>1 DEF StsAnswers, StsTypeOK, HandedOutFresh
<1>9. OneRefresher'
  BY <1>2, <1>3, <1>4, <1>5, IdleJob DEF OneRefresher, Live, Worker
<1> QED BY <1>6, <1>7, <1>8, <1>9

LEMMA TaskStep ==
    ASSUME StsInv, NEW t \in Task, TaskRuns(t) \/ TaskWakes(t)
    PROVE  StsInv'
<1> USE DEF StsInv
<1>0. t \in Worker /\ t \notin Caller
  BY DEF Worker
<1>1. /\ job[t].at \in {"starting", "pausing", "sleeping"}
      /\ job[t] \in Job /\ job[t].token \in 0..TokenLife
  BY <1>0, JobFields DEF TaskRuns, TaskWakes
<1>2. /\ UNCHANGED <<credential, current, cached, pod, handed, manager>>
      /\ \/ job' = [job EXCEPT ![t] = Round(t)]
         \/ job' = [job EXCEPT ![t] = Asking(t, job[t].token)]
  BY DEF TaskRuns, TaskWakes
<1>3. /\ Fits(t, Round(t)) /\ (credential # None => Round(t) # Idle)
      /\ Fits(t, Asking(t, job[t].token)) /\ Asking(t, job[t].token) # Idle
  <2>1. Fits(t, Asking(t, job[t].token)) /\ Asking(t, job[t].token) # Idle
    BY <1>0, <1>1, AskingJob, IdleJob DEF Fits
  <2>2. CASE credential = None
    <3>1. Round(t) = Idle
      BY <2>2 DEF Round
    <3>2. Fits(t, Idle)
      BY IdleJob DEF Fits
    <3> QED BY <2>1, <2>2, <3>1, <3>2
  <2>3. CASE credential # None /\ credential > RefreshBefore
    <3> DEFINE j == [job[t] EXCEPT !.at = "sleeping", !.left = credential - RefreshBefore]
    <3>1. credential \in 0..Duration /\ credential - RefreshBefore \in 0..(Duration + MaxDelay + Pause)
      BY <2>3 DEF StsTypeOK
    <3>2. j \in Job /\ j.at = "sleeping"
      BY <1>1, <3>1 DEF Job
    <3>3. Round(t) = j
      BY <2>3 DEF Round
    <3> HIDE DEF j
    <3> QED BY <2>1, <3>2, <3>3, IdleJob DEF Fits
  <2>4. CASE credential # None /\ ~(credential > RefreshBefore)
    BY <2>1, <2>4 DEF Round
  <2> QED BY <2>1, <2>2, <2>3, <2>4
<1>4. PICK j : Fits(t, j) /\ job' = [job EXCEPT ![t] = j] /\ (credential # None => j # Idle)
  BY <1>2, <1>3
<1>5. /\ job' \in [Worker -> Job] /\ AskingInv'
      /\ job'[t] = j /\ \A u \in Worker : u # t => job'[u] = job[u]
  BY <1>0, <1>4, OneGoesOn
<1>6. StsTypeOK' /\ HandedOutFresh'
  BY <1>2, <1>5 DEF StsTypeOK, HandedOutFresh
<1>7. job[t] # Idle
  BY <1>1, IdleJob
<1>8. OneRefresher'
  BY <1>0, <1>2, <1>4, <1>5, <1>7, RefresherStays
<1> QED BY <1>5, <1>6, <1>8

LEMMA CallerStep ==
    ASSUME StsInv, NEW c \in Caller, GetCredential(c) \/ CallerRetries(c)
    PROVE  StsInv'
<1> USE DEF StsInv
<1>0. c \in Worker /\ c \notin Task
  BY DEF Worker
<1>1. UNCHANGED <<credential, current, pod, manager>>
  BY DEF GetCredential, CallerRetries
<1>2. CASE \E life \in 0..Duration : life > RefreshBefore /\ Give(c, life) /\ cached' \in {cached, life}
  <2>1. PICK life \in 0..Duration :
           life > RefreshBefore /\ Give(c, life) /\ cached' \in {cached, life}
    BY <1>2
  <2>2. Fits(c, Idle)
    BY IdleJob DEF Fits
  <2>3. /\ job' \in [Worker -> Job] /\ AskingInv'
        /\ \A u \in Worker : u # c => job'[u] = job[u]
    BY <1>0, <2>1, <2>2, OneGoesOn DEF Give
  <2>4. StsTypeOK' /\ HandedOutFresh'
    BY <1>1, <2>1, <2>3 DEF Give, StsTypeOK, HandedOutFresh
  <2>5. OneRefresher'
    BY <1>0, <1>1, <2>3, RefresherStays
  <2> QED BY <2>3, <2>4, <2>5
<1>3. CASE /\ UNCHANGED <<cached, handed>>
           /\ \E j : Fits(c, j) /\ job' = [job EXCEPT ![c] = j]
  <2>1. PICK j : Fits(c, j) /\ job' = [job EXCEPT ![c] = j]
    BY <1>3
  <2>2. /\ job' \in [Worker -> Job] /\ AskingInv'
        /\ \A u \in Worker : u # c => job'[u] = job[u]
    BY <1>0, <2>1, OneGoesOn
  <2>3. StsTypeOK' /\ HandedOutFresh'
    BY <1>1, <1>3, <2>2 DEF StsTypeOK, HandedOutFresh
  <2>4. OneRefresher'
    BY <1>0, <1>1, <2>2, RefresherStays
  <2> QED BY <2>2, <2>3, <2>4
<1>4. job[c].tries < MaxRetries /\ Attempt(c) =>
        \/ \E life \in 0..Duration :
              life > RefreshBefore /\ Give(c, life) /\ cached' \in {cached, life}
        \/ /\ UNCHANGED <<cached, handed>>
           /\ \E j : Fits(c, j) /\ job' = [job EXCEPT ![c] = j]
  <2>1. job[c].tries < MaxRetries => Fits(c, Asking(c, pod))
    BY <1>0, AskingJob DEF StsTypeOK, Fits
  <2>2. Valid(credential) => credential \in 0..Duration /\ credential > RefreshBefore
    BY DEF Valid, StsTypeOK
  <2> QED BY <2>1, <2>2 DEF Attempt
<1>5. CASE GetCredential(c)
  <2>1. job[c].tries < MaxRetries
    BY <1>5, IdleJob DEF GetCredential, MaxRetries
  <2>2. CacheValid(cached) => cached \in 0..Duration /\ cached > RefreshBefore
    BY DEF CacheValid, Valid, StsTypeOK
  <2> QED BY <1>2, <1>3, <1>4, <1>5, <2>1, <2>2 DEF GetCredential
<1>6. CASE CallerRetries(c)
  <2>1. job[c].tries # MaxRetries => job[c].tries < MaxRetries
    BY <1>0, JobFields DEF MaxRetries
  <2>2. Fits(c, Idle)
    BY IdleJob DEF Fits
  <2> QED BY <1>2, <1>3, <1>4, <1>6, <2>1, <2>2 DEF CallerRetries
<1> QED BY <1>5, <1>6

LEMMA CloseStep ==
    ASSUME StsInv, Close \/ CloseReturns \/ ClearCache \/ TokenRotated
    PROVE  StsInv'
<1> USE DEF StsInv
<1>1. CASE Close
  <2>1. CASE current # None /\ job[current] # Idle
    <3>1. current \in Task /\ current \in Worker /\ job' = [job EXCEPT ![current] = Idle]
      BY <1>1, <2>1 DEF Close, StsTypeOK, Worker
    <3>2. Fits(current, Idle)
      BY IdleJob DEF Fits
    <3>3. /\ job' \in [Worker -> Job] /\ AskingInv' /\ job'[current] = Idle
          /\ \A u \in Worker : u # current => job'[u] = job[u]
      BY <3>1, <3>2, OneGoesOn
    <3>4. Live' \subseteq {current} /\ current' = current /\ manager' = "closing"
      BY <1>1, <2>1, <3>3 DEF Close, OneRefresher, Live, Worker
    <3> QED BY <1>1, <2>1, <3>3, <3>4 DEF Close, StsTypeOK, HandedOutFresh, OneRefresher
  <2>2. CASE ~(current # None /\ job[current] # Idle)
    BY <1>1, <2>2 DEF Close, StsTypeOK, AskingInv, HandedOutFresh, OneRefresher, Live
  <2> QED BY <2>1, <2>2
<1>2. CASE CloseReturns
  BY <1>2 DEF CloseReturns, StsTypeOK, AskingInv, HandedOutFresh, OneRefresher, Live
<1>3. CASE ClearCache
  BY <1>3 DEF ClearCache, StsTypeOK, AskingInv, HandedOutFresh, OneRefresher, Live
<1>4. CASE TokenRotated
  BY <1>4 DEF TokenRotated, StsTypeOK, AskingInv, HandedOutFresh, OneRefresher, Live
<1> QED BY <1>1, <1>2, <1>3, <1>4

LEMMA IdleByFields ==
    ASSUME NEW x \in Job, x.at = "idle", x.token = 0, x.left = 0, x.life = 0, x.tries = 0
    PROVE  x = Idle
BY DEF Job, Idle

LEMMA TickStep ==
    ASSUME StsInv, Tick
    PROVE  StsInv'
<1> USE DEF StsInv
<1>1. /\ \A n \in Nat : Less(n) \in Nat /\ Less(n) <= n /\ LessToken(n) \in Nat /\ LessToken(n) <= n
      /\ \A n \in Nat : n > 0 => Less(n) = n - 1
      /\ Less(0) = 0 /\ LessToken(0) = 0 /\ Less(None) = None
  BY DEF Less, LessToken
<1> DEFINE later(w) == [job[w] EXCEPT !.left = Less(@), !.life = Less(@), !.token = LessToken(@)]
<1>2. ASSUME NEW w \in Worker
      PROVE  /\ later(w) \in Job /\ later(w).at = job[w].at /\ later(w).tries = job[w].tries
             /\ later(w).left = Less(job[w].left) /\ later(w).life = Less(job[w].life)
             /\ later(w).token = LessToken(job[w].token)
  <2>1. /\ Less(job[w].left) \in 0..(Duration + MaxDelay + Pause)
        /\ Less(job[w].life) \in 0..Duration /\ LessToken(job[w].token) \in 0..TokenLife
    BY <1>1, JobFields
  <2>2. job[w] \in Job
    BY JobFields
  <2> QED BY <2>1, <2>2 DEF Job
<1>3. \A w \in Worker : job'[w] = later(w)
  BY DEF Tick
<1>4. job' \in [Worker -> Job]
  <2>1. job' = [w \in Worker |-> later(w)]
    BY DEF Tick
  <2> HIDE DEF later
  <2> QED BY <1>2, <2>1
<1>5. \A w \in Worker : job[w] = Idle => job'[w] = Idle
  <2> SUFFICES ASSUME NEW w \in Worker, job[w] = Idle PROVE later(w) = Idle
    BY <1>3
  <2>1. /\ job[w].at = "idle" /\ job[w].token = 0 /\ job[w].left = 0
        /\ job[w].life = 0 /\ job[w].tries = 0
    BY DEF Idle
  <2> HIDE DEF later
  <2> QED BY <1>1, <1>2, <2>1, IdleByFields
<1> HIDE DEF later
<1>6. \A w \in Worker : job[w] # Idle => job'[w] # Idle
  BY <1>2, <1>3, IdleJob DEF AskingInv
<1>7. AskingInv'
  <2> SUFFICES ASSUME NEW w \in Worker
               PROVE  /\ job'[w].at = "idle" => job'[w] = Idle
                      /\ w \in Caller /\ job'[w].at \in {"asking", "answered"} =>
                            job'[w].tries < MaxRetries
                      /\ job'[w].at \in {"asking", "answered"} => job'[w].left <= MaxDelay
                      /\ job'[w].at = "answered" =>
                            job'[w].life + MaxDelay >= Duration + job'[w].left
    BY DEF AskingInv
  <2>1. /\ job'[w].at = job[w].at /\ job'[w].tries = job[w].tries
        /\ job'[w].left = Less(job[w].left) /\ job'[w].life = Less(job[w].life)
    BY <1>2, <1>3
  <2>2. job[w].at = "idle" => job'[w] = Idle
    BY <1>5 DEF AskingInv
  <2>3. CASE job[w].at \in {"asking", "answered"}
    <3>1. job[w].left > 0 /\ job[w].left \in Nat /\ job[w].life \in Nat
      <4>1. job[w] # Idle
        BY <2>3 DEF Idle
      <4>2. job[w].left > 0
        BY <4>1 DEF Tick
      <4>3. job[w].left \in 0..(Duration + MaxDelay + Pause) /\ job[w].life \in 0..Duration
        BY JobFields
      <4> QED BY <4>2, <4>3, Durations
    <3>2. job'[w].left = job[w].left - 1 /\ job[w].left <= MaxDelay
      BY <1>1, <2>1, <2>3, <3>1 DEF AskingInv
    <3>3. CASE job[w].at = "answered"
      <4>1. job[w].life + MaxDelay >= Duration + job[w].left
        BY <3>3 DEF AskingInv
      <4>2. job[w].life > 0
        BY <3>1, <4>1, Durations
      <4>3. job'[w].life = job[w].life - 1
        BY <1>1, <2>1, <3>1, <4>2
      <4>4. job'[w].life + MaxDelay >= Duration + job'[w].left
        BY <3>1, <3>2, <4>1, <4>3, Durations
      <4> QED BY <2>1, <2>2, <2>3, <3>1, <3>2, <4>4, Durations DEF AskingInv
    <3>4. CASE job[w].at = "asking"
      BY <2>1, <2>2, <2>3, <3>1, <3>2, <3>4, Durations DEF AskingInv
    <3> QED BY <2>3, <3>3, <3>4
  <2>4. CASE job[w].at \notin {"asking", "answered"}
    BY <2>1, <2>2, <2>4
  <2> QED BY <2>3, <2>4
<1>8. StsTypeOK'
  <2>1. \A n \in {None} \cup 0..Duration : Less(n) \in {None} \cup 0..Duration
    <3>1. \A n \in 0..Duration : n \in Nat /\ n <= Duration
      BY Durations
    <3> QED BY <1>1, <3>1, Durations
  <2>2. \A n \in 0..TokenLife : LessToken(n) \in 0..TokenLife
    <3>1. \A n \in 0..TokenLife : n \in Nat /\ n <= TokenLife
      BY Durations
    <3> QED BY <1>1, <3>1, Durations
  <2> QED BY <1>4, <2>1, <2>2 DEF Tick, StsTypeOK
<1>9. HandedOutFresh'
  BY DEF Tick, HandedOutFresh
<1>10. OneRefresher'
  <2>1. Live' = Live
    BY <1>5, <1>6 DEF Live, Worker
  <2>2. credential' # None => credential # None
    BY <1>1 DEF Tick
  <2> QED BY <2>1, <2>2 DEF Tick, OneRefresher
<1> QED BY <1>7, <1>8, <1>9, <1>10

LEMMA StsInvStep == StsInv /\ [StsNext]_stsVars => StsInv'
<1> SUFFICES ASSUME StsInv, [StsNext]_stsVars PROVE StsInv'
  OBVIOUS
<1>1. ASSUME NEW w \in Worker, StsGrants(w) \/ StsFails(w) \/ StsAnswers(w) PROVE StsInv'
  BY <1>1, StsGrantsStep, StsFailsStep, StsAnswersStep
<1>2. ASSUME NEW t \in Task, TaskRuns(t) \/ TaskWakes(t) PROVE StsInv'
  BY <1>2, TaskStep
<1>3. ASSUME NEW c \in Caller, GetCredential(c) \/ CallerRetries(c) PROVE StsInv'
  BY <1>3, CallerStep
<1>4. CASE ClearCache \/ Close \/ CloseReturns \/ TokenRotated
  BY <1>4, CloseStep
<1>5. CASE Tick
  BY <1>5, TickStep
<1>6. CASE UNCHANGED stsVars
  BY <1>6 DEF stsVars, StsInv, StsTypeOK, AskingInv, HandedOutFresh, OneRefresher, Live
<1> QED BY <1>1, <1>2, <1>3, <1>4, <1>5, <1>6 DEF StsNext

-----------------------------------------------------------------------------
(* The theorems.                                                           *)

LEMMA StsInvHolds == StsSpec => []StsInv
BY StsInvInit, StsInvStep, PTL DEF StsSpec

(* Every reachable state has the types the module states.                  *)
THEOREM StsTypesHold == StsSpec => []StsTypeOK
<1>1. StsInv => StsTypeOK
  BY DEF StsInv
<1> QED BY <1>1, StsInvHolds, PTL

(* No caller is given a credential that is due for renewal.                *)
THEOREM CredentialsAreFresh == StsSpec => []HandedOutFresh
<1>1. StsInv => HandedOutFresh
  BY DEF StsInv
<1> QED BY <1>1, StsInvHolds, PTL

(* At most one background task is alive, the one close cancels, and one is *)
(* while there is a credential and the manager is open.                    *)
THEOREM RefresherIsOne == StsSpec => []OneRefresher
<1>1. StsInv => OneRefresher
  BY DEF StsInv
<1> QED BY <1>1, StsInvHolds, PTL
=============================================================================
