---------------------------- MODULE Requests_proofs ----------------------------
(***************************************************************************)
(* Proofs about Requests, for any requests, sessions, agents and bounds:   *)
(* its types and every invariant the run checks.  All of them rest on      *)
(* BaseInv, which says who has an agent, who may await a provider, and     *)
(* which stores hold sessions; the modes and messages of sessions, the     *)
(* attempts of a call, the list of calls and the records each add a part   *)
(* of their own.                                                           *)
(*                                                                         *)
(* And about MetricsStore, which keeps what is recorded of the requests,   *)
(* for any size and any records: its types, and that its queries miss      *)
(* nothing.  A function defined by halving is proved to be what it should  *)
(* by a counterexample with the fewest places; no induction is needed.     *)
(***************************************************************************)
EXTENDS Requests, MetricsStore, FiniteSetTheorems, SequenceTheorems,
        WellFoundedInduction, TLAPS

USE ProviderAssumption, MaxCallsAssumption, AgentAssumption, MessageAssumption,
    CrashAssumption, MaxStoreOpsAssumption

-----------------------------------------------------------------------------
(* Types of the calls.                                                     *)

LEMMA StartCallTypes ==
    ASSUME LlmTypeOK, NEW r \in Request, StartCall(r)
    PROVE  LlmTypeOK'
BY DEF LlmTypeOK, StartCall, Outcome

LEMMA LoggedTypes ==
    ASSUME LlmTypeOK, NEW f \in Factory, NEW r \in Request, NEW ok \in BOOLEAN,
           asking[r] # None, Logged(f, r, ok)
    PROVE  /\ pending' \in [Factory -> Seq(Event)]
           /\ made' \in [Request -> Seq(Event)]
<1> DEFINE event == [request |-> r, call |-> calls[r], provider |-> asking[r], ok |-> ok]
<1>1. event \in Event
  BY DEF LlmTypeOK, Event
<1>2. /\ pending' = [pending EXCEPT ![f] = Append(@, event)]
      /\ made' = [made EXCEPT ![r] = Append(@, event)]
  BY DEF Logged
<1> QED
  <2> HIDE DEF event
  <2> QED BY <1>1, <1>2 DEF LlmTypeOK

LEMMA ProvideTypes ==
    ASSUME LlmTypeOK, NEW f \in Factory, NEW r \in Request,
           ProviderAnswers(f, r) \/ ProviderFails(f, r)
    PROVE  LlmTypeOK'
<1>1. CASE ProviderAnswers(f, r)
  BY <1>1, LoggedTypes DEF LlmTypeOK, ProviderAnswers, Outcome
<1>2. CASE ProviderFails(f, r)
  BY <1>2, LoggedTypes DEF LlmTypeOK, ProviderFails, Outcome, HasFallback
<1> QED BY <1>1, <1>2

LEMMA LeaveCallTypes ==
    ASSUME LlmTypeOK, NEW r \in Request, LeaveCall(r)
    PROVE  LlmTypeOK'
BY DEF LlmTypeOK, LeaveCall, Outcome

LEMMA RecordTypes ==
    ASSUME RequestsTypeOK, NEW r \in Request, agent[r] \in Factory, Record(r)
    PROVE  LlmTypeOK' /\ records' \in Seq([request : Request, calls : Seq(Event)])
<1> DEFINE f == agent[r]
           entry == [request |-> r, calls |-> pending[f]]
<1>1. pending[f] \in Seq(Event) /\ pending \in [Factory -> Seq(Event)]
  BY DEF RequestsTypeOK, LlmTypeOK
<1>2. entry \in [request : Request, calls : Seq(Event)]
  BY <1>1
<1>3. records' = Append(records, entry)
  BY DEF Record
<1>4. records' \in Seq([request : Request, calls : Seq(Event)])
  <2> HIDE DEF entry
  <2> QED BY <1>2, <1>3 DEF RequestsTypeOK
<1>5. <<>> \in Seq(Event)
  OBVIOUS
<1>6. pending' \in [Factory -> Seq(Event)]
  BY <1>1, <1>5 DEF Record, CallsAfterRecord
<1> QED BY <1>4, <1>6 DEF Record, RequestsTypeOK, LlmTypeOK

-----------------------------------------------------------------------------
(* What the operations on a session do to what Get finds in it.            *)

LEMMA Constants ==
    /\ Absent \notin State /\ Corrupt \notin State /\ NewSession \in State
    /\ Absent # Corrupt
    /\ Absent.mode = "absent" /\ Absent.messages = {} /\ Corrupt.messages = {}
    /\ NewSession.messages = {} /\ NewSession.mode = "CHAT"
<1>1. NewSession \in State
  BY DEF State, Progress, NewSession
<1>2. Absent \notin State /\ Corrupt \notin State
  BY DEF State, Absent, Corrupt
<1> QED BY <1>1, <1>2 DEF Absent, Corrupt, NewSession

LEMMA StateSteps ==
    ASSUME NEW st \in State
    PROVE  /\ st.mode \in {"CHAT", "TASK"} /\ st.messages \in SUBSET Message
           /\ InTask(st) \in State /\ InTask(st).messages = st.messages
           /\ InChat(st) \in State /\ InChat(st).messages = st.messages
           /\ InChat(st).mode = "CHAT"
           /\ Progressed(st) \in State /\ Progressed(st).messages = st.messages
           /\ Progressed(st).mode = st.mode
BY DEF State, Progress, InTask, InChat, Progressed

LEMMA MessageSteps ==
    ASSUME NEW st \in State, NEW r \in Message
    PROVE  /\ WithMessage(st, r) \in State
           /\ WithMessage(st, r).messages = st.messages \cup {r}
           /\ WithMessage(st, r).mode = st.mode
           /\ WithMessage(st, r).progress = st.progress
BY DEF State, WithMessage

LEMMA CancelSteps ==
    ASSUME NEW st \in State
    PROVE  LET next == [st EXCEPT !.mode = "CHAT", !.progress = "none"] IN
           next \in State /\ next.messages = st.messages /\ next.mode = "CHAT"
BY DEF State, Progress

LEMMA GetTypes ==
    ASSUME SessionTypeOK, NEW m \in Store, NEW s \in Session
    PROVE  /\ Get(m, s) \in State \cup {Absent}
           /\ GetOrCreate(m, s) \in State
           /\ GetOrCreate(m, s).messages = Get(m, s).messages
<1>1. Get(m, s) \in State \cup {Absent}
  BY DEF SessionTypeOK, Get
<1> QED BY <1>1, Constants DEF GetOrCreate

LEMMA HoldGets ==
    ASSUME SessionTypeOK, NEW m \in Store, NEW s \in Session, NEW st \in State \cup {Absent},
           Hold(m, s, st), st # Absent \/ Get(m, s) = Absent,
           UNCHANGED <<disk, storeOps, damaged>>
    PROVE  /\ SessionTypeOK'
           /\ Get(m, s)' = st
           /\ \A n \in Store, t \in Session : <<n, t>> # <<m, s>> => Get(n, t)' = Get(n, t)
           /\ \A n \in Store : n # m => sessions'[n] = sessions[n]
<1>1. sessions' \in [Store -> [Session -> State \cup {Absent}]]
  BY DEF SessionTypeOK, Hold
<1>2. sessions'[m][s] = st
  BY DEF SessionTypeOK, Hold
<1>3. \A n \in Store, t \in Session : <<n, t>> # <<m, s>> => sessions'[n][t] = sessions[n][t]
  BY DEF SessionTypeOK, Hold
<1>4. SessionTypeOK'
  BY <1>1 DEF SessionTypeOK
<1>5. Get(m, s)' = st
  <2>1. CASE st # Absent
    BY <1>2, <2>1 DEF Get
  <2>2. CASE st = Absent
    BY <1>2, <2>2 DEF Get
  <2> QED BY <2>1, <2>2
<1>6. \A n \in Store, t \in Session : <<n, t>> # <<m, s>> => Get(n, t)' = Get(n, t)
  BY <1>3 DEF Get
<1>7. \A n \in Store : n # m => sessions'[n] = sessions[n]
  BY DEF SessionTypeOK, Hold
<1> QED BY <1>4, <1>5, <1>6, <1>7

LEMMA OpenTaskGets ==
    ASSUME SessionTypeOK, NEW m \in Store, NEW s \in Session, NEW r \in Message,
           OpenTask(m, s, r)
    PROVE  /\ SessionTypeOK'
           /\ Get(m, s)'.messages = Get(m, s).messages \cup {r}
           /\ \A n \in Store, t \in Session : <<n, t>> # <<m, s>> => Get(n, t)' = Get(n, t)
           /\ \A n \in Store : n # m => sessions'[n] = sessions[n]
<1> DEFINE st == InTask(WithMessage(GetOrCreate(m, s), r))
<1>1. st \in State /\ st.messages = Get(m, s).messages \cup {r}
  BY GetTypes, MessageSteps, StateSteps
<1>2. Hold(m, s, st) /\ UNCHANGED <<disk, storeOps, damaged>>
  BY DEF OpenTask
<1> HIDE DEF st
<1> QED BY <1>1, <1>2, HoldGets, Constants

LEMMA ReportProgressGets ==
    ASSUME SessionTypeOK, NEW m \in Store, NEW s \in Session, ReportProgress(m, s)
    PROVE  /\ SessionTypeOK'
           /\ Get(m, s)'.messages = Get(m, s).messages
           /\ Get(m, s)'.mode = Get(m, s).mode
           /\ \A n \in Store, t \in Session : <<n, t>> # <<m, s>> => Get(n, t)' = Get(n, t)
           /\ \A n \in Store : n # m => sessions'[n] = sessions[n]
<1> DEFINE st == IF Get(m, s) = Absent THEN Absent ELSE Progressed(Get(m, s))
<1>1. /\ st \in State \cup {Absent} /\ st.messages = Get(m, s).messages
      /\ st.mode = Get(m, s).mode /\ (st # Absent \/ Get(m, s) = Absent)
  BY GetTypes, StateSteps, Constants
<1>2. Hold(m, s, st) /\ UNCHANGED <<disk, storeOps, damaged>>
  BY DEF ReportProgress
<1> HIDE DEF st
<1> QED BY <1>1, <1>2, HoldGets

LEMMA CloseTaskGets ==
    ASSUME SessionTypeOK, NEW m \in Store, NEW s \in Session, CloseTask(m, s)
    PROVE  /\ SessionTypeOK'
           /\ Get(m, s)'.messages = Get(m, s).messages
           /\ Get(m, s)'.mode # "TASK"
           /\ \A n \in Store, t \in Session : <<n, t>> # <<m, s>> => Get(n, t)' = Get(n, t)
           /\ \A n \in Store : n # m => sessions'[n] = sessions[n]
<1> DEFINE st == IF Get(m, s) = Absent THEN Absent ELSE InChat(Get(m, s))
<1>1. /\ st \in State \cup {Absent} /\ st.messages = Get(m, s).messages
      /\ st.mode # "TASK" /\ (st # Absent \/ Get(m, s) = Absent)
  BY GetTypes, StateSteps, Constants
<1>2. Hold(m, s, st) /\ UNCHANGED <<disk, storeOps, damaged>>
  BY DEF CloseTask
<1> HIDE DEF st
<1> QED BY <1>1, <1>2, HoldGets

(* A file that cannot be read is the file of a damaged session.            *)
CorruptIsDamaged == \A s \in Session : disk[s] = Corrupt => s \in damaged

LEMMA StoreStepTypes ==
    ASSUME SessionTypeOK, NEW m \in Store, StoreStep(m)
    PROVE  SessionTypeOK'
<1> DEFINE cancelled(s) == [Get(m, s) EXCEPT !.mode = "CHAT", !.progress = "none"]
<1>0. CountOp => storeOps' \in 0..MaxStoreOps
  BY DEF CountOp, SessionTypeOK
<1>1. ASSUME NEW s \in Session, CancelTask(m, s) PROVE SessionTypeOK'
  <2>1. cancelled(s) \in State
    BY <1>1, GetTypes, CancelSteps DEF CancelTask
  <2>2. sessions' = [sessions EXCEPT ![m][s] = cancelled(s)]
    BY <1>1 DEF CancelTask, Hold
  <2> HIDE DEF cancelled
  <2>3. sessions' \in [Store -> [Session -> State \cup {Absent}]]
    BY <2>1, <2>2 DEF SessionTypeOK
  <2> QED BY <1>0, <1>1, <2>3 DEF CancelTask, SessionTypeOK
<1>2. ASSUME NEW s \in Session, PauseTask(m, s) PROVE SessionTypeOK'
  <2>1. sessions' \in [Store -> [Session -> State \cup {Absent}]]
    BY <1>2, GetTypes DEF PauseTask, Hold, SessionTypeOK
  <2> QED BY <1>0, <1>2, <2>1 DEF PauseTask, SessionTypeOK
<1>3. ASSUME NEW s \in Session, Persist(m, s) PROVE SessionTypeOK'
  <2>1. PICK w \in Write : disk' = [disk EXCEPT ![s] = FileAfter(s, sessions[m][s], w)]
    BY <1>3 DEF Persist
  <2>2. FileAfter(s, sessions[m][s], w) \in State \cup {Absent, Corrupt}
    BY DEF FileAfter, SessionTypeOK
  <2>3. disk' \in [Session -> State \cup {Absent, Corrupt}]
    BY <2>1, <2>2 DEF SessionTypeOK
  <2> QED BY <1>0, <1>3, <2>3 DEF Persist, SessionTypeOK
<1>4. ASSUME NEW s \in Session, RemoveSession(m, s) PROVE SessionTypeOK'
  BY <1>0, <1>4 DEF RemoveSession, Hold, SessionTypeOK
<1>5. CASE CheckIdle(m)
  <2>1. PICK S \in SUBSET Session :
           /\ \E w \in [S -> Write] :
                /\ disk' = [s \in Session |->
                       IF s \in S THEN FileAfter(s, WrittenWhenIdle(m, s), w[s])
                       ELSE disk[s]]
                /\ damaged' = damaged \cup {s \in S : w[s] # "written"}
           /\ sessions' = [sessions EXCEPT ![m] =
                 [s \in Session |-> IF s \in S THEN Absent ELSE @[s]]]
    BY <1>5 DEF CheckIdle
  <2>2. \A s \in Session, x \in Write :
           FileAfter(s, WrittenWhenIdle(m, s), x) \in State \cup {Absent, Corrupt}
    BY DEF FileAfter, WrittenWhenIdle, SessionTypeOK
  <2>3. disk' \in [Session -> State \cup {Absent, Corrupt}]
    BY <2>1, <2>2 DEF SessionTypeOK
  <2>4. sessions' \in [Store -> [Session -> State \cup {Absent}]]
    BY <2>1 DEF SessionTypeOK
  <2>5. damaged' \in SUBSET Session
    BY <2>1 DEF SessionTypeOK
  <2> QED BY <1>0, <1>5, <2>3, <2>4, <2>5 DEF CheckIdle, SessionTypeOK
<1> QED BY <1>1, <1>2, <1>3, <1>4, <1>5 DEF StoreStep

LEMMA StoreStepGets ==
    ASSUME SessionTypeOK, CorruptIsDamaged, NEW m \in Store, StoreStep(m)
    PROVE  /\ CorruptIsDamaged' /\ damaged \subseteq damaged'
           /\ \A n \in Store : n # m => sessions'[n] = sessions[n]
           /\ \A t \in Session \ damaged' :
                 /\ Get(m, t)'.messages = Get(m, t).messages
                 /\ Get(m, t)'.mode = "TASK" => Get(m, t).mode = "TASK"
<1> DEFINE cancelled(s) == [Get(m, s) EXCEPT !.mode = "CHAT", !.progress = "none"]
           Goal == /\ CorruptIsDamaged' /\ damaged \subseteq damaged'
                   /\ \A n \in Store : n # m => sessions'[n] = sessions[n]
                   /\ \A t \in Session \ damaged' :
                         /\ Get(m, t)'.messages = Get(m, t).messages
                         /\ Get(m, t)'.mode = "TASK" => Get(m, t).mode = "TASK"
<1>1. ASSUME NEW s \in Session, CancelTask(m, s) PROVE Goal
  <2>1. /\ cancelled(s) \in State /\ cancelled(s).messages = Get(m, s).messages
        /\ cancelled(s).mode = "CHAT"
    BY <1>1, GetTypes, CancelSteps DEF CancelTask
  <2>2. sessions' = [sessions EXCEPT ![m][s] = cancelled(s)] /\ UNCHANGED <<disk, damaged>>
    BY <1>1 DEF CancelTask, Hold
  <2> HIDE DEF cancelled
  <2>3. /\ sessions'[m][s] = cancelled(s)
        /\ \A t \in Session : t # s => sessions'[m][t] = sessions[m][t]
        /\ \A n \in Store : n # m => sessions'[n] = sessions[n]
    BY <2>2 DEF SessionTypeOK
  <2>4. \A t \in Session : t # s => Get(m, t)' = Get(m, t)
    BY <2>2, <2>3 DEF Get
  <2>5. Get(m, s)' = cancelled(s)
    BY <2>1, <2>3, Constants DEF Get
  <2> QED BY <2>1, <2>2, <2>3, <2>4, <2>5 DEF CorruptIsDamaged
<1>2. ASSUME NEW s \in Session, PauseTask(m, s) PROVE Goal
  <2>1. sessions' = [sessions EXCEPT ![m][s] = Get(m, s)] /\ UNCHANGED <<disk, damaged>>
    BY <1>2 DEF PauseTask, Hold
  <2>2. /\ sessions'[m][s] = Get(m, s)
        /\ \A t \in Session : t # s => sessions'[m][t] = sessions[m][t]
        /\ \A n \in Store : n # m => sessions'[n] = sessions[n]
    BY <2>1 DEF SessionTypeOK
  <2>3. \A t \in Session : t # s => Get(m, t)' = Get(m, t)
    BY <2>1, <2>2 DEF Get
  <2>4. Get(m, s)' = Get(m, s)
    BY <1>2, <2>2 DEF Get, PauseTask
  <2> QED BY <2>1, <2>2, <2>3, <2>4 DEF CorruptIsDamaged
<1>3. ASSUME NEW s \in Session, Persist(m, s) PROVE Goal
  <2>1. PICK w \in Write :
           /\ disk' = [disk EXCEPT ![s] = FileAfter(s, sessions[m][s], w)]
           /\ damaged' = IF w = "written" THEN damaged ELSE damaged \cup {s}
    BY <1>3 DEF Persist
  <2>2. sessions' = sessions /\ sessions[m][s] # Absent
    BY <1>3 DEF Persist
  <2>3. disk'[s] = Corrupt => s \in damaged'
    BY <2>1, <2>2, Constants DEF FileAfter, SessionTypeOK
  <2>4. \A t \in Session : t # s => disk'[t] = disk[t]
    BY <2>1 DEF SessionTypeOK
  <2>5. CorruptIsDamaged' /\ damaged \subseteq damaged'
    BY <2>1, <2>3, <2>4 DEF CorruptIsDamaged
  <2>6. \A t \in Session : Get(m, t)' = Get(m, t)
    BY <2>2, <2>4 DEF Get
  <2> QED BY <2>2, <2>5, <2>6
<1>4. ASSUME NEW s \in Session, RemoveSession(m, s) PROVE Goal
  <2>1. /\ sessions' = [sessions EXCEPT ![m][s] = Absent]
        /\ disk' = [disk EXCEPT ![s] = Absent] /\ damaged' = damaged \cup {s}
    BY <1>4 DEF RemoveSession, Hold
  <2>2. /\ \A t \in Session : t # s => sessions'[m][t] = sessions[m][t] /\ disk'[t] = disk[t]
        /\ \A n \in Store : n # m => sessions'[n] = sessions[n]
    BY <2>1 DEF SessionTypeOK
  <2>3. \A t \in Session : t # s => Get(m, t)' = Get(m, t)
    BY <2>2 DEF Get
  <2> QED BY <2>1, <2>2, <2>3 DEF CorruptIsDamaged
<1>5. CASE CheckIdle(m)
  <2>0. PICK S \in SUBSET {s \in Session : sessions[m][s] # Absent} :
           /\ \E w \in [S -> Write] :
                 /\ disk' = [s \in Session |->
                        IF s \in S THEN FileAfter(s, WrittenWhenIdle(m, s), w[s]) ELSE disk[s]]
                 /\ damaged' = damaged \cup {s \in S : w[s] # "written"}
           /\ sessions' = [sessions EXCEPT ![m] =
                 [s \in Session |-> IF s \in S THEN Absent ELSE @[s]]]
    BY <1>5 DEF CheckIdle
  <2>1. PICK w \in [S -> Write] :
           /\ disk' = [s \in Session |->
                  IF s \in S THEN FileAfter(s, WrittenWhenIdle(m, s), w[s]) ELSE disk[s]]
           /\ damaged' = damaged \cup {s \in S : w[s] # "written"}
    BY <2>0
  <2>2. /\ \A t \in Session :
              sessions'[m][t] = IF t \in S THEN Absent ELSE sessions[m][t]
        /\ \A n \in Store : n # m => sessions'[n] = sessions[n]
    BY <2>0 DEF SessionTypeOK
  <2>3. \A t \in Session \ S : disk'[t] = disk[t] /\ Get(m, t)' = Get(m, t)
    BY <2>1, <2>2 DEF Get
  <2>4. \A t \in S : t \notin damaged' => disk'[t] = sessions[m][t]
    BY <2>1 DEF FileAfter, WrittenWhenIdle
  <2>5. \A t \in S : sessions[m][t] \in State /\ sessions[m][t] # Absent
    BY <2>1 DEF SessionTypeOK
  <2>6. \A t \in S : t \notin damaged' => disk'[t] \in State /\ Get(m, t)' = Get(m, t)
    BY <2>2, <2>4, <2>5 DEF Get
  <2>7. CorruptIsDamaged' /\ damaged \subseteq damaged'
    BY <2>1, <2>3, <2>6, Constants DEF CorruptIsDamaged
  <2> QED BY <2>2, <2>3, <2>6, <2>7
<1> QED BY <1>1, <1>2, <1>3, <1>4, <1>5 DEF StoreStep

-----------------------------------------------------------------------------
(* The agents.                                                             *)

(* A request has an agent exactly while it may use one; and as long as no  *)
(* request arrived during the creation of an agent, one agent is created,  *)
(* by the only request that waits for it.                                  *)
OneAgent ==
    /\ orchestrator <= created
    /\ orchestrator = NoAgent => created = 0
    /\ \A r \in Request :
          /\ agent[r] <= created
          /\ at[r] \in {"new", "creating"} => agent[r] = NoAgent
          /\ at[r] \notin {"new", "creating", "over"} => agent[r] # NoAgent
    /\ ~raced =>
          /\ created \in {0, 1}
          /\ \A r, q \in Request : at[r] = "creating" /\ at[q] = "creating" => r = q
          /\ \A r \in Request : at[r] = "creating" => created = 0

(* A request awaits a provider only at its three places for an LLM call,   *)
(* and has made no call before it began.                                   *)
AtWork == {"planning", "deciding", "summing"}
AskedAtWork ==
    \A r \in Request :
        /\ asking[r] # None <=> outcome[r] = "open"
        /\ asking[r] # None => at[r] \in AtWork
        /\ at[r] \in {"new", "creating", "ready"} => calls[r] = 0 /\ made[r] = <<>>

(* What a request does with its agent, and all else that leaves the agents *)
(* alone.                                                                  *)
Served(r) ==
    \/ Begin(r) \/ BeginRefused(r) \/ Ask(r) \/ Planned(r)
    \/ StreamRefused(r) \/ Answered(r) \/ StreamPartial(r) \/ Finish(r)
    \/ StreamFails(r) \/ Leave(r) \/ Close(r) \/ ListSkills(r)

InPlace ==
    \/ \E r \in Request : Provide(r) \/ LevelDone(r)
    \/ \E m \in 1..created : StoreStep(m) /\ UNCHANGED <<llmVars, agentVars, requestVars>>

Unserved == {"new", "creating", "over"}

LEMMA ServedMoves ==
    ASSUME RequestsTypeOK, NEW r \in Request, Served(r)
    PROVE  /\ UNCHANGED <<agentVars, streaming, session>>
           /\ at[r] \notin Unserved
           /\ at' \in [Request -> Step]
           /\ at'[r] \notin {"new", "creating", "ready"}
           /\ \A q \in Request : q # r => at'[q] = at[q]
<1>1. \E step \in Step \ {"new", "creating", "ready"} : Goto(r, step)
  BY DEF Served, Begin, BeginRefused, Ask, Planned, StreamRefused, Answered, StreamPartial,
         Finish, StreamFails, Leave, Close, ListSkills, Step
<1>2. at[r] \notin Unserved
  BY DEF Served, Begin, BeginRefused, Start, Ask, Planned, StreamRefused, Answered,
         StreamPartial, Finish, StreamFails, Leave, Close, ListSkills, Unserved, AtYield, Closing
<1>3. UNCHANGED <<agentVars, streaming, session>>
  BY DEF Served, Begin, BeginRefused, Ask, Planned, StreamRefused, Answered, StreamPartial,
         Finish, StreamFails, Leave, Close, ListSkills, requestVars
<1> QED BY <1>1, <1>2, <1>3 DEF Goto, RequestsTypeOK

LEMMA InPlaceMoves == InPlace => UNCHANGED <<agentVars, requestVars>>
BY DEF InPlace, Provide, LevelDone

(* The next step, by what it does to the agents.                           *)
LEMMA StepKinds ==
    ASSUME RequestsNext
    PROVE  \/ \E r \in Request : Arrive(r) \/ Created(r) \/ CreateFails(r) \/ Served(r)
           \/ InPlace
           \/ Crash
BY DEF RequestsNext, Served, InPlace

LEMMA GivenAgent ==
    ASSUME RequestsTypeOK, OneAgent, NEW r \in Request, at[r] \notin Unserved
    PROVE  agent[r] \in Agent /\ agent[r] \in Factory /\ agent[r] \in Store
BY DEF RequestsTypeOK, OneAgent, Unserved, NoAgent

-----------------------------------------------------------------------------
(* Types.                                                                  *)

LEMMA TypeInit == RequestsInit => RequestsTypeOK
<1> SUFFICES ASSUME RequestsInit PROVE RequestsTypeOK
  OBVIOUS
<1>1. LlmTypeOK
  BY DEF RequestsInit, LlmInit, LlmTypeOK, Provider, Outcome
<1>2. SessionTypeOK
  BY DEF RequestsInit, SessionInit, NothingHeld, SessionTypeOK
<1>3. records \in Seq([request : Request, calls : Seq(Event)])
  BY DEF RequestsInit
<1>4. at \in [Request -> Step] /\ agent \in [Request -> Agent \cup {NoAgent}]
  BY DEF RequestsInit, Step
<1>5. {orchestrator, created} \subseteq 0..MaxAgents /\ crashes \in 0..MaxCrashes
  BY DEF RequestsInit, NoAgent
<1>6. {overlapped, heard} \subseteq SUBSET Request /\ interrupted \in SUBSET Session
  BY DEF RequestsInit
<1> QED BY <1>1, <1>2, <1>3, <1>4, <1>5, <1>6 DEF RequestsInit, RequestsTypeOK

LEMMA ServedTypes ==
    ASSUME RequestsTypeOK, OneAgent, NEW r \in Request, Served(r)
    PROVE  RequestsTypeOK'
<1> DEFINE f == agent[r]
           Rec == Seq([request : Request, calls : Seq(Event)])
           others == {q \in UnderWay : agent[q] = agent[r]}
<1>1. f \in Factory /\ f \in Store /\ session[r] \in Session
  BY ServedMoves, GivenAgent DEF RequestsTypeOK
<1>2. LlmTypeOK /\ SessionTypeOK /\ records \in Rec
  BY DEF RequestsTypeOK
<1>3. SUFFICES /\ LlmTypeOK' /\ SessionTypeOK' /\ records' \in Rec
               /\ overlapped' \in SUBSET Request /\ heard' \in SUBSET Request
  BY ServedMoves DEF RequestsTypeOK, agentVars
<1>4. Start(r) => overlapped' \in SUBSET Request
  BY DEF Start, UnderWay, RequestsTypeOK
<1>5. UNCHANGED llmVars => LlmTypeOK'
  BY <1>2 DEF llmVars, LlmTypeOK
<1>6. UNCHANGED sessionVars => SessionTypeOK'
  BY <1>2 DEF sessionVars, SessionTypeOK
<1>7. CloseTask(f, session[r]) => SessionTypeOK'
  BY <1>1, <1>2, CloseTaskGets
<1>8. UNCHANGED <<records, overlapped, heard>> =>
        records' \in Rec /\ overlapped' \in SUBSET Request /\ heard' \in SUBSET Request
  BY DEF RequestsTypeOK
<1>9. CASE Begin(r)
  <2>1. LlmTypeOK'
    BY <1>1, <1>2, <1>9 DEF Begin, LlmTypeOK, CallsAtStart
  <2>2. SessionTypeOK'
    BY <1>1, <1>2, <1>9, OpenTaskGets DEF Begin
  <2> QED BY <1>4, <1>9, <2>1, <2>2 DEF Begin, RequestsTypeOK
<1>10. CASE BeginRefused(r)
  <2>1. LlmTypeOK'
    BY <1>1, <1>2, <1>10 DEF BeginRefused, LlmTypeOK, CallsAtStart, CallsAfterRecord
  <2>2. SessionTypeOK'
    BY <1>6, <1>7, <1>10 DEF BeginRefused
  <2>3. records' = Append(records, [request |-> r, calls |-> <<>>])
    BY <1>10 DEF BeginRefused, CallsAtStart
  <2>4. [request |-> r, calls |-> <<>>] \in [request : Request, calls : Seq(Event)]
    OBVIOUS
  <2>5. records' \in Rec
    BY <1>2, <2>3, <2>4
  <2> QED BY <1>4, <1>10, <2>1, <2>2, <2>5 DEF BeginRefused, RequestsTypeOK
<1>11. CASE Ask(r)
  BY <1>2, <1>6, <1>8, <1>11, StartCallTypes DEF Ask
<1>12. CASE Planned(r) \/ StreamRefused(r) \/ Answered(r) \/ StreamPartial(r) \/ ListSkills(r)
  BY <1>5, <1>6, <1>8, <1>12 DEF Planned, StreamRefused, Answered, StreamPartial, ListSkills
<1>13. CASE Finish(r)
  BY <1>1, <1>7, <1>13, RecordTypes DEF Finish, RequestsTypeOK
<1>14. CASE StreamFails(r)
  BY <1>1, <1>6, <1>14, RecordTypes DEF StreamFails, RequestsTypeOK
<1>15. CASE Leave(r)
  BY <1>2, <1>5, <1>6, <1>8, <1>15, LeaveCallTypes DEF Leave
<1>16. CASE Close(r)
  BY <1>5, <1>7, <1>8, <1>16 DEF Close
<1> QED
  BY <1>9, <1>10, <1>11, <1>12, <1>13, <1>14, <1>15, <1>16 DEF Served

LEMMA TypeStep ==
    ASSUME RequestsTypeOK, OneAgent, AskedAtWork, RequestsNext
    PROVE  RequestsTypeOK'
<1> DEFINE Rec == Seq([request : Request, calls : Seq(Event)])
<1>1. CASE \E r \in Request : Arrive(r)
  <2>1. PICK r \in Request : Arrive(r)
    BY <1>1
  <2>2. at' \in [Request -> Step] /\ agent' \in [Request -> Agent \cup {NoAgent}]
    BY <2>1 DEF Arrive, Goto, RequestsTypeOK, Step, Agent, NoAgent
  <2>3. LlmTypeOK' /\ SessionTypeOK'
    BY <2>1 DEF Arrive, llmVars, sessionVars, RequestsTypeOK, LlmTypeOK, SessionTypeOK
  <2>4. raced' \in BOOLEAN
    BY <2>1 DEF Arrive, RequestsTypeOK
  <2> QED BY <2>1, <2>2, <2>3, <2>4 DEF Arrive, RequestsTypeOK
<1>2. CASE \E r \in Request : Created(r)
  <2>1. PICK r \in Request : Created(r)
    BY <1>2
  <2>2. created + 1 \in Agent /\ created' = created + 1
    BY <2>1 DEF Created, RequestsTypeOK, Agent
  <2>3. /\ at' \in [Request -> Step] /\ agent' \in [Request -> Agent \cup {NoAgent}]
        /\ agent'[r] = created + 1
    BY <2>1, <2>2 DEF Created, Goto, RequestsTypeOK, Step
  <2>4. {orchestrator', created'} \subseteq 0..MaxAgents
    BY <2>1, <2>2, <2>3 DEF Created, Kept, Agent
  <2>5. LlmTypeOK' /\ SessionTypeOK'
    BY <2>1 DEF Created, llmVars, sessionVars, RequestsTypeOK, LlmTypeOK, SessionTypeOK
  <2> QED BY <2>1, <2>3, <2>4, <2>5 DEF Created, RequestsTypeOK
<1>3. CASE \E r \in Request : CreateFails(r)
  <2>1. PICK r \in Request : CreateFails(r)
    BY <1>3
  <2>2. at' \in [Request -> Step]
    BY <2>1 DEF CreateFails, Goto, RequestsTypeOK, Step
  <2>3. LlmTypeOK' /\ SessionTypeOK'
    BY <2>1 DEF CreateFails, llmVars, sessionVars, RequestsTypeOK, LlmTypeOK, SessionTypeOK
  <2> QED BY <2>1, <2>2, <2>3 DEF CreateFails, RequestsTypeOK, agentVars
<1>4. CASE \E r \in Request : Served(r)
  BY <1>4, ServedTypes
<1>5. CASE InPlace
  <2>1. SUFFICES LlmTypeOK' /\ SessionTypeOK'
    BY <1>5, InPlaceMoves DEF RequestsTypeOK, agentVars, requestVars
  <2>2. ASSUME NEW r \in Request, Provide(r) PROVE LlmTypeOK' /\ SessionTypeOK'
    <3>1. agent[r] \in Factory
      BY <2>2, GivenAgent
         DEF Provide, ProviderAnswers, ProviderFails, AskedAtWork, AtWork, Unserved
    <3>2. LlmTypeOK'
      BY <2>2, <3>1, ProvideTypes DEF Provide, RequestsTypeOK
    <3> QED BY <2>2, <3>2 DEF Provide, RequestsTypeOK, SessionTypeOK, sessionVars
  <2>3. ASSUME NEW r \in Request, LevelDone(r) PROVE LlmTypeOK' /\ SessionTypeOK'
    <3>1. agent[r] \in Store /\ session[r] \in Session
      BY <2>3, GivenAgent DEF LevelDone, Unserved, RequestsTypeOK
    <3>2. SessionTypeOK'
      BY <2>3, <3>1, ReportProgressGets DEF LevelDone, RequestsTypeOK
    <3> QED BY <2>3, <3>2 DEF LevelDone, RequestsTypeOK, LlmTypeOK, llmVars
  <2>4. ASSUME NEW m \in 1..created, StoreStep(m), UNCHANGED <<llmVars, agentVars, requestVars>>
        PROVE  LlmTypeOK' /\ SessionTypeOK'
    <3>1. m \in Store
      BY DEF RequestsTypeOK, Agent
    <3>2. SessionTypeOK'
      BY <2>4, <3>1, StoreStepTypes DEF RequestsTypeOK
    <3> QED BY <2>4, <3>2 DEF RequestsTypeOK, LlmTypeOK, llmVars
  <2> QED BY <1>5, <2>2, <2>3, <2>4 DEF InPlace
<1>6. CASE Crash
  <2>1. LlmTypeOK'
    BY <1>6 DEF Crash, RequestsTypeOK, LlmTypeOK, Outcome
  <2>2. SessionTypeOK'
    BY <1>6 DEF Crash, RequestsTypeOK, SessionTypeOK, NothingHeld
  <2>3. records' \in Rec
    BY <1>6 DEF Crash
  <2>4. at' \in [Request -> Step] /\ agent' \in [Request -> Agent \cup {NoAgent}]
    BY <1>6 DEF Crash, RequestsTypeOK, Step
  <2>5. {orchestrator', created'} \subseteq 0..MaxAgents /\ crashes' \in 0..MaxCrashes
    BY <1>6 DEF Crash, RequestsTypeOK, NoAgent
  <2>6. {overlapped', heard'} \subseteq SUBSET Request /\ interrupted' \in SUBSET Session
    BY <1>6 DEF Crash, RequestsTypeOK
  <2>7. streaming' \in SUBSET Request /\ session' \in [Request -> Session] /\ raced' \in BOOLEAN
    BY <1>6 DEF Crash, RequestsTypeOK
  <2> QED BY <2>1, <2>2, <2>3, <2>4, <2>5, <2>6, <2>7 DEF RequestsTypeOK
<1> QED
  BY <1>1, <1>2, <1>3, <1>4, <1>5, <1>6, StepKinds

-----------------------------------------------------------------------------
(* The invariant all others rest on.                                       *)

(* Only agents that were created hold sessions.                            *)
OwnStores ==
    \A m \in Store : m > created => sessions[m] = [s \in Session |-> Absent]

BaseInv ==
    /\ RequestsTypeOK
    /\ OneAgent
    /\ AskedAtWork
    /\ CorruptIsDamaged
    /\ OwnStores

LEMMA OneAgentStep ==
    ASSUME RequestsTypeOK, OneAgent, RequestsNext
    PROVE  OneAgent'
<1> USE DEF NoAgent
<1>1. CASE \E r \in Request : Arrive(r)
  <2>1. PICK r \in Request : Arrive(r)
    BY <1>1
  <2>2. /\ \A q \in Request : q # r => at'[q] = at[q] /\ agent'[q] = agent[q]
        /\ at'[r] = (IF orchestrator = NoAgent THEN "creating" ELSE "ready")
        /\ agent'[r] = orchestrator
    BY <2>1 DEF Arrive, Goto, RequestsTypeOK
  <2>3. UNCHANGED <<orchestrator, created>>
    BY <2>1 DEF Arrive
  <2>4. raced' = (raced \/ (orchestrator = NoAgent /\ \E q \in Request : at[q] = "creating"))
    BY <2>1 DEF Arrive, RequestsTypeOK
  <2> QED BY <2>2, <2>3, <2>4 DEF OneAgent, RequestsTypeOK
<1>2. CASE \E r \in Request : Created(r)
  <2>1. PICK r \in Request : Created(r)
    BY <1>2
  <2>2. /\ \A q \in Request : q # r => at'[q] = at[q] /\ agent'[q] = agent[q]
        /\ at[r] = "creating" /\ at'[r] = "ready"
        /\ agent'[r] = created + 1
    BY <2>1 DEF Created, Goto, RequestsTypeOK
  <2>3. orchestrator' = created + 1 /\ created' = created + 1 /\ raced' = raced
    BY <2>1, <2>2 DEF Created, Kept
  <2>4. created \in Nat /\ \A q \in Request : agent[q] \in Nat
    BY DEF RequestsTypeOK, Agent
  <2>5. /\ orchestrator' <= created' /\ orchestrator' # NoAgent
        /\ \A q \in Request : /\ agent'[q] <= created'
                              /\ at'[q] \in {"new", "creating"} => agent'[q] = NoAgent
                              /\ at'[q] \notin {"new", "creating", "over"} => agent'[q] # NoAgent
    BY <2>2, <2>3, <2>4 DEF OneAgent
  <2>6. ~raced' => /\ created' \in {0, 1}
                   /\ \A q \in Request : at'[q] # "creating"
    BY <2>2, <2>3, <2>4 DEF OneAgent
  <2> QED BY <2>5, <2>6 DEF OneAgent
<1>3. CASE \E r \in Request : CreateFails(r)
  <2>1. PICK r \in Request : CreateFails(r)
    BY <1>3
  <2>2. /\ \A q \in Request : q # r => at'[q] = at[q]
        /\ at'[r] = "over"
    BY <2>1 DEF CreateFails, Goto, RequestsTypeOK
  <2> QED BY <2>1, <2>2 DEF CreateFails, OneAgent, agentVars
<1>4. CASE \E r \in Request : Served(r)
  BY <1>4, ServedMoves DEF OneAgent, agentVars, Unserved
<1>5. CASE InPlace
  BY <1>5, InPlaceMoves DEF OneAgent, agentVars, requestVars
<1>6. CASE Crash
  BY <1>6 DEF Crash, OneAgent
<1> QED
  BY <1>1, <1>2, <1>3, <1>4, <1>5, <1>6, StepKinds

LEMMA AskedAtWorkStep ==
    ASSUME RequestsTypeOK, AskedAtWork, RequestsNext
    PROVE  AskedAtWork'
<1> USE DEF AtWork
<1>1. ASSUME NEW r \in Request, Arrive(r) \/ Created(r) \/ CreateFails(r)
      PROVE  AskedAtWork'
  <2>1. /\ \A q \in Request : q # r => at'[q] = at[q]
        /\ at[r] \in {"new", "creating"} /\ at'[r] \in {"creating", "ready", "over"}
    BY <1>1 DEF Arrive, Created, CreateFails, Goto, RequestsTypeOK
  <2>2. UNCHANGED llmVars
    BY <1>1 DEF Arrive, Created, CreateFails
  <2> QED BY <2>1, <2>2 DEF AskedAtWork, llmVars
<1>2. ASSUME NEW r \in Request, Served(r)
      PROVE  AskedAtWork'
  <2>1. /\ \A q \in Request : q # r => at'[q] = at[q]
        /\ at'[r] \notin {"new", "creating", "ready"}
    BY <1>2, ServedMoves
  <2>2. /\ \A q \in Request : q # r => UNCHANGED <<asking[q], outcome[q], calls[q], made[q]>>
        /\ asking'[r] # None <=> outcome'[r] = "open"
        /\ asking'[r] # None => at'[r] \in AtWork
    <3>1. CASE Ask(r)
      <4>1. /\ \A q \in Request : q # r => UNCHANGED <<asking[q], outcome[q], calls[q], made[q]>>
            /\ asking'[r] = primary /\ outcome'[r] = "open"
        BY <3>1 DEF Ask, StartCall, RequestsTypeOK, LlmTypeOK
      <4>2. at'[r] \in AtWork /\ primary # None
        BY <3>1 DEF Ask, Goto, RequestsTypeOK, LlmTypeOK
      <4> QED BY <4>1, <4>2
    <3>2. CASE Leave(r)
      <4>1. CASE at[r] \in AtYield /\ UNCHANGED llmVars
        BY <4>1 DEF AskedAtWork, AtYield, llmVars
      <4>2. CASE LeaveCall(r)
        BY <4>2 DEF LeaveCall, RequestsTypeOK, LlmTypeOK
      <4> QED BY <3>2, <4>1, <4>2 DEF Leave
    <3>3. CASE ~Ask(r) /\ ~Leave(r)
      <4>1. UNCHANGED <<asking, outcome, calls, made>>
        BY <1>2, <3>3 DEF Served, Begin, BeginRefused, Planned, StreamRefused, Answered,
           StreamPartial, Finish, StreamFails, Close, ListSkills, Record, llmVars
      <4>2. asking[r] = None
        BY <1>2, <3>3 DEF Served, Begin, BeginRefused, Start, Planned, StreamRefused, Answered,
           StreamPartial, Finish, StreamFails, Close, ListSkills, Closing, AskedAtWork
      <4> QED BY <4>1, <4>2 DEF AskedAtWork
    <3> QED BY <3>1, <3>2, <3>3
  <2> QED BY <2>1, <2>2 DEF AskedAtWork
<1>3. ASSUME NEW r \in Request, Provide(r)
      PROVE  AskedAtWork'
  <2>1. /\ at' = at /\ calls' = calls
        /\ \A q \in Request : q # r => UNCHANGED <<asking[q], outcome[q], made[q]>>
    BY <1>3 DEF Provide, ProviderAnswers, ProviderFails, Logged, RequestsTypeOK, LlmTypeOK,
       requestVars
  <2>2. asking[r] # None /\ (asking'[r] # None <=> outcome'[r] = "open")
    BY <1>3 DEF Provide, ProviderAnswers, ProviderFails, HasFallback, RequestsTypeOK, LlmTypeOK,
       AskedAtWork
  <2> QED BY <2>1, <2>2 DEF AskedAtWork
<1>4. CASE InPlace /\ ~\E r \in Request : Provide(r)
  BY <1>4 DEF InPlace, LevelDone, AskedAtWork, llmVars, requestVars
<1>5. CASE Crash
  BY <1>5 DEF Crash, AskedAtWork
<1> QED
  BY <1>1, <1>2, <1>3, <1>4, <1>5, StepKinds

(* What a step does to the sessions: it puts a message into one, reports,  *)
(* closes, or is an operation on the store of an agent.                    *)
SessionStep ==
    \/ \E r \in Request :
          /\ at[r] \notin Unserved
          /\ \/ Begin(r) /\ OpenTask(agent[r], session[r], r)
             \/ ReportProgress(agent[r], session[r])
             \/ CloseTask(agent[r], session[r])
    \/ \E m \in 1..created : StoreStep(m)
    \/ UNCHANGED sessionVars

LEMMA SessionSteps ==
    ASSUME RequestsTypeOK, RequestsNext
    PROVE  Crash \/ SessionStep
<1>1. ASSUME NEW r \in Request, Arrive(r) \/ Created(r) \/ CreateFails(r)
      PROVE  UNCHANGED sessionVars
  BY <1>1 DEF Arrive, Created, CreateFails, sessionVars
<1>2. ASSUME NEW r \in Request, Served(r)
      PROVE  \/ Begin(r) /\ OpenTask(agent[r], session[r], r)
             \/ CloseTask(agent[r], session[r])
             \/ UNCHANGED sessionVars
  BY <1>2 DEF Served, Begin, BeginRefused, Ask, Planned, StreamRefused, Answered,
     StreamPartial, Finish, StreamFails, Leave, Close, ListSkills
<1>3. CASE InPlace
  BY <1>3 DEF InPlace, Provide, LevelDone, SessionStep, Unserved
<1> QED BY <1>1, <1>2, <1>3, StepKinds, ServedMoves DEF SessionStep

LEMMA SessionsStep ==
    ASSUME BaseInv, RequestsNext
    PROVE  CorruptIsDamaged' /\ OwnStores'
<1> USE DEF BaseInv
<1>1. CASE Crash
  BY <1>1 DEF Crash, CorruptIsDamaged, OwnStores, NothingHeld
<1>2. CASE SessionStep /\ ~Crash
  <2>1. created <= created' /\ created \in Nat /\ created' \in Nat
    BY <1>2, StepKinds, ServedMoves, InPlaceMoves
       DEF Arrive, Created, CreateFails, agentVars, RequestsTypeOK
  <2>2. ASSUME NEW r \in Request, at[r] \notin Unserved,
               \/ OpenTask(agent[r], session[r], r)
               \/ ReportProgress(agent[r], session[r])
               \/ CloseTask(agent[r], session[r])
        PROVE  CorruptIsDamaged' /\ OwnStores'
    <3>1. /\ agent[r] \in Store /\ agent[r] \in 1..created
          /\ session[r] \in Session /\ r \in Message /\ SessionTypeOK
      BY <2>1, <2>2, GivenAgent DEF OneAgent, RequestsTypeOK, Agent
    <3>2. \A n \in Store : n # agent[r] => sessions'[n] = sessions[n]
      BY <2>2, <3>1, OpenTaskGets, ReportProgressGets, CloseTaskGets
    <3>3. UNCHANGED <<disk, damaged>>
      BY <2>2 DEF OpenTask, ReportProgress, CloseTask
    <3> QED BY <2>1, <3>1, <3>2, <3>3 DEF CorruptIsDamaged, OwnStores, Agent
  <2>3. ASSUME NEW m \in 1..created, StoreStep(m)
        PROVE  CorruptIsDamaged' /\ OwnStores'
    <3>1. m \in Store /\ SessionTypeOK
      BY DEF RequestsTypeOK, Agent
    <3>2. CorruptIsDamaged' /\ \A n \in Store : n # m => sessions'[n] = sessions[n]
      BY <2>3, <3>1, StoreStepGets
    <3> QED BY <2>1, <3>1, <3>2 DEF OwnStores, Agent
  <2>4. CASE UNCHANGED sessionVars
    BY <2>1, <2>4 DEF sessionVars, CorruptIsDamaged, OwnStores, Agent
  <2> QED BY <1>2, <2>2, <2>3, <2>4 DEF SessionStep
<1> QED BY <1>1, <1>2, SessionSteps

LEMMA BaseInvInit == RequestsInit => BaseInv
<1> SUFFICES ASSUME RequestsInit PROVE BaseInv
  OBVIOUS
<1>1. OneAgent
  BY DEF RequestsInit, OneAgent, NoAgent
<1>2. AskedAtWork
  BY DEF RequestsInit, LlmInit, AskedAtWork
<1>3. CorruptIsDamaged
  BY Constants DEF RequestsInit, SessionInit, CorruptIsDamaged
<1>4. OwnStores
  BY DEF RequestsInit, SessionInit, NothingHeld, OwnStores
<1> QED BY <1>1, <1>2, <1>3, <1>4, TypeInit DEF BaseInv

LEMMA BaseInvStep == BaseInv /\ [RequestsNext]_allVars => BaseInv'
<1> SUFFICES ASSUME BaseInv, [RequestsNext]_allVars PROVE BaseInv'
  OBVIOUS
<1>1. CASE RequestsNext
  BY <1>1, TypeStep, OneAgentStep, AskedAtWorkStep, SessionsStep DEF BaseInv
<1>2. CASE UNCHANGED allVars
  <2> USE DEF BaseInv, allVars, llmVars, sessionVars, agentVars, requestVars
  <2>1. LlmTypeOK' /\ SessionTypeOK'
    BY <1>2 DEF RequestsTypeOK, LlmTypeOK, SessionTypeOK
  <2>2. RequestsTypeOK'
    BY <1>2, <2>1 DEF RequestsTypeOK
  <2>3. OneAgent' /\ AskedAtWork' /\ CorruptIsDamaged' /\ OwnStores'
    BY <1>2 DEF OneAgent, AskedAtWork, CorruptIsDamaged, OwnStores
  <2> QED BY <2>2, <2>3
<1> QED BY <1>1, <1>2

(* Every reachable state has the types the module states.                  *)
THEOREM RequestsTypesHold == RequestsSpec => []RequestsTypeOK
<1>1. BaseInv => RequestsTypeOK
  BY DEF BaseInv
<1> QED BY <1>1, BaseInvInit, BaseInvStep, PTL DEF RequestsSpec

(* Requests share one agent unless they arrived while one was created.     *)
THEOREM AgentIsShared == RequestsSpec => []ServedByOneAgent
<1>1. BaseInv => ServedByOneAgent
  BY DEF BaseInv, OneAgent, ServedByOneAgent, RequestsTypeOK, Agent
<1> QED BY <1>1, BaseInvInit, BaseInvStep, PTL DEF RequestsSpec

-----------------------------------------------------------------------------
(* Progress and mode.                                                      *)

Fits(state) == state \in State => (state.mode = "TASK" <=> state.progress # "none")

LEMMA FittingSteps ==
    /\ Fits(Absent) /\ Fits(Corrupt) /\ Fits(NewSession)
    /\ \A st \in State : Fits(InTask(st))
    /\ \A st \in State : Fits(st) => Fits(InChat(st)) /\ Fits(Progressed(st))
    /\ \A st \in State : Fits([st EXCEPT !.mode = "CHAT", !.progress = "none"])
<1>1. Fits(Absent) /\ Fits(Corrupt) /\ Fits(NewSession)
  BY Constants DEF Fits, NewSession
<1>2. \A st \in State : Fits(InTask(st))
  BY DEF Fits, State, Progress, InTask
<1>3. \A st \in State : Fits(st) => Fits(InChat(st)) /\ Fits(Progressed(st))
  BY DEF Fits, State, Progress, InChat, Progressed
<1>4. \A st \in State : Fits([st EXCEPT !.mode = "CHAT", !.progress = "none"])
  BY DEF Fits, State, Progress
<1> QED BY <1>1, <1>2, <1>3, <1>4

AllFit ==
    /\ \A m \in Store, s \in Session : Fits(sessions[m][s])
    /\ \A s \in Session : Fits(disk[s])

LEMMA HoldFits ==
    ASSUME SessionTypeOK, AllFit, NEW m \in Store, NEW s \in Session, NEW st,
           Fits(st), Hold(m, s, st), UNCHANGED disk
    PROVE  AllFit'
<1>1. \A n \in Store, t \in Session :
        sessions'[n][t] = IF <<n, t>> = <<m, s>> THEN st ELSE sessions[n][t]
  BY DEF Hold, SessionTypeOK
<1> QED BY <1>1 DEF AllFit

LEMMA AllFitStep ==
    ASSUME BaseInv, AllFit, RequestsNext
    PROVE  AllFit'
<1>0. SessionTypeOK /\ RequestsTypeOK
  BY DEF BaseInv, RequestsTypeOK
<1>1. \A m \in Store, s \in Session :
        Get(m, s) \in State \cup {Absent} /\ Fits(Get(m, s)) /\ GetOrCreate(m, s) \in State
  BY <1>0, GetTypes, FittingSteps DEF AllFit, Get
<1>2. CASE Crash
  <2>1. \A m \in Store, s \in Session : sessions'[m][s] = Absent
    BY <1>2 DEF Crash, NothingHeld
  <2>2. disk' = disk
    BY <1>2 DEF Crash
  <2> QED BY <2>1, <2>2, FittingSteps DEF AllFit
<1>3. ASSUME NEW r \in Request, at[r] \notin Unserved,
             \/ OpenTask(agent[r], session[r], r)
             \/ ReportProgress(agent[r], session[r])
             \/ CloseTask(agent[r], session[r])
      PROVE  AllFit'
  <2> DEFINE m == agent[r]
             s == session[r]
  <2>1. m \in Store /\ s \in Session /\ r \in Message
    BY <1>3, GivenAgent DEF BaseInv, RequestsTypeOK
  <2>2. PICK st : Hold(m, s, st) /\ Fits(st)
    <3>1. Fits(InTask(WithMessage(GetOrCreate(m, s), r)))
      BY <1>1, <2>1, MessageSteps, FittingSteps
    <3>2. Fits(IF Get(m, s) = Absent THEN Absent ELSE Progressed(Get(m, s)))
      BY <1>1, <2>1, FittingSteps
    <3>3. Fits(IF Get(m, s) = Absent THEN Absent ELSE InChat(Get(m, s)))
      BY <1>1, <2>1, FittingSteps
    <3> QED BY <1>3, <3>1, <3>2, <3>3 DEF OpenTask, ReportProgress, CloseTask
  <2>3. disk' = disk
    BY <1>3 DEF OpenTask, ReportProgress, CloseTask
  <2> HIDE DEF m, s
  <2> QED BY <1>0, <2>1, <2>2, <2>3, HoldFits
<1>4. ASSUME NEW m \in 1..created, StoreStep(m)
      PROVE  AllFit'
  <2>1. m \in Store
    BY <1>0 DEF RequestsTypeOK, Agent
  <2>2. ASSUME NEW s \in Session, CancelTask(m, s) PROVE AllFit'
    <3> DEFINE st == [Get(m, s) EXCEPT !.mode = "CHAT", !.progress = "none"]
    <3>1. Fits(st)
      BY <1>1, <2>1, <2>2, FittingSteps DEF CancelTask
    <3>2. Hold(m, s, st) /\ disk' = disk
      BY <2>2 DEF CancelTask
    <3> HIDE DEF st
    <3> QED BY <1>0, <2>1, <3>1, <3>2, HoldFits
  <2>3. ASSUME NEW s \in Session, PauseTask(m, s) PROVE AllFit'
    BY <1>0, <1>1, <2>1, <2>3, HoldFits DEF PauseTask
  <2>4. \A s \in Session, x \in Write : Fits(FileAfter(s, sessions[m][s], x))
    BY <2>1, FittingSteps DEF FileAfter, AllFit
  <2>5. ASSUME NEW s \in Session, Persist(m, s) PROVE AllFit'
    <3>1. PICK w \in Write : disk' = [disk EXCEPT ![s] = FileAfter(s, sessions[m][s], w)]
      BY <2>5 DEF Persist
    <3>2. \A t \in Session : Fits(disk'[t])
      BY <1>0, <2>4, <3>1 DEF SessionTypeOK, AllFit
    <3> QED BY <2>5, <3>2 DEF Persist, AllFit
  <2>6. ASSUME NEW s \in Session, RemoveSession(m, s) PROVE AllFit'
    <3>1. /\ sessions' = [sessions EXCEPT ![m][s] = Absent]
          /\ disk' = [disk EXCEPT ![s] = Absent]
      BY <2>6 DEF RemoveSession, Hold
    <3> QED BY <1>0, <3>1, FittingSteps DEF SessionTypeOK, AllFit
  <2>7. CASE CheckIdle(m)
    <3>1. PICK S \in SUBSET {s \in Session : sessions[m][s] # Absent} :
             /\ \E w \in [S -> Write] :
                   /\ disk' = [s \in Session |->
                          IF s \in S THEN FileAfter(s, WrittenWhenIdle(m, s), w[s]) ELSE disk[s]]
                   /\ damaged' = damaged \cup {s \in S : w[s] # "written"}
             /\ sessions' = [sessions EXCEPT ![m] =
                   [s \in Session |-> IF s \in S THEN Absent ELSE @[s]]]
      BY <2>7 DEF CheckIdle
    <3>2. \A s \in Session : Fits(disk'[s])
      BY <2>4, <3>1 DEF AllFit, WrittenWhenIdle
    <3>3. \A n \in Store, s \in Session : sessions'[n][s] \in {Absent, sessions[n][s]}
      BY <1>0, <3>1 DEF SessionTypeOK
    <3> QED BY <3>2, <3>3, FittingSteps DEF AllFit
  <2> QED BY <1>4, <2>2, <2>3, <2>5, <2>6, <2>7 DEF StoreStep
<1>5. CASE UNCHANGED sessionVars
  BY <1>5 DEF sessionVars, AllFit
<1> QED BY <1>0, <1>2, <1>3, <1>4, <1>5, SessionSteps DEF SessionStep

(* A session has a progress exactly in task mode, in memory and in files.  *)
THEOREM ProgressFollowsMode == RequestsSpec => []ProgressOnlyInTask
<1>1. RequestsInit => AllFit
  BY FittingSteps DEF RequestsInit, SessionInit, NothingHeld, AllFit
<1>2. BaseInv /\ AllFit /\ [RequestsNext]_allVars => AllFit'
  <2>1. AllFit /\ UNCHANGED allVars => AllFit'
    BY DEF AllFit, allVars, sessionVars
  <2> QED BY <2>1, AllFitStep
<1>3. AllFit => ProgressOnlyInTask
  BY DEF AllFit, Fits, ProgressOnlyInTask
<1> QED BY <1>1, <1>2, <1>3, BaseInvInit, BaseInvStep, PTL DEF RequestsSpec

-----------------------------------------------------------------------------
(* Modes and messages, while one agent serves all requests.                *)

(* A session found in task mode has a request under way.                   *)
TaskIsUnderWay ==
    ~raced => \A s \in Session \ (damaged \cup interrupted) :
                 Get(1, s).mode = "TASK" => \E r \in UnderWay : session[r] = s

(* The message of a request is in its session.                             *)
HeardIsFound ==
    ~raced => \A r \in heard : session[r] \notin damaged => r \in Get(1, session[r]).messages

(* What stays as it is.                                                    *)
LEMMA Lasting ==
    ASSUME RequestsTypeOK, RequestsNext
    PROVE  /\ session' = session
           /\ ~Crash => /\ interrupted' = interrupted
                        /\ \A r \in heard' : r \in heard \/ Begin(r)
<1>1. ASSUME NEW r \in Request, Arrive(r) \/ Created(r) \/ CreateFails(r)
      PROVE  session' = session /\ interrupted' = interrupted /\ heard' = heard
  BY <1>1 DEF Arrive, Created, CreateFails, agentVars
<1>2. ASSUME NEW r \in Request, Served(r)
      PROVE  /\ session' = session /\ interrupted' = interrupted
             /\ heard' = heard \/ (Begin(r) /\ heard' = heard \cup {r})
  <2>1. heard' = heard \/ (Begin(r) /\ heard' = heard \cup {r})
    BY <1>2 DEF Served, Begin, BeginRefused, Ask, Planned, StreamRefused, Answered,
       StreamPartial, Finish, StreamFails, Leave, Close, ListSkills
  <2> QED BY <1>2, <2>1, ServedMoves DEF agentVars
<1>3. InPlace => session' = session /\ interrupted' = interrupted /\ heard' = heard
  BY InPlaceMoves DEF agentVars, requestVars
<1>4. Crash => session' = session
  BY DEF Crash
<1> QED BY <1>1, <1>2, <1>3, <1>4, StepKinds

(* A request that is no longer under way has switched its session back.    *)
LEMMA EndsInChat ==
    ASSUME RequestsTypeOK, RequestsNext, ~Crash, NEW q \in UnderWay, q \notin UnderWay'
    PROVE  CloseTask(agent[q], session[q])
<1>1. q \in Request /\ at[q] \notin {"new", "creating", "ready", "over"}
  BY DEF UnderWay
<1>2. at'[q] \in {"new", "creating", "ready", "over"}
  BY <1>1 DEF UnderWay
<1>3. ASSUME NEW r \in Request, Arrive(r) \/ Created(r) \/ CreateFails(r)
      PROVE  FALSE
  BY <1>1, <1>2, <1>3 DEF Arrive, Created, CreateFails, Goto, RequestsTypeOK
<1>4. ASSUME NEW r \in Request, Served(r)
      PROVE  CloseTask(agent[q], session[q])
  <2>1. r = q
    BY <1>1, <1>2, <1>4, ServedMoves
  <2>2. ~BeginRefused(r) /\ ~Begin(r) /\ ~ListSkills(r)
    BY <1>1, <2>1 DEF BeginRefused, Begin, Start, ListSkills
  <2>3. ~(Ask(r) \/ Planned(r) \/ StreamRefused(r) \/ Answered(r) \/ StreamPartial(r)
          \/ StreamFails(r) \/ Leave(r))
    BY <1>1, <1>2, <2>1 DEF Ask, Planned, StreamRefused, Answered, StreamPartial,
       StreamFails, Leave, Goto, RequestsTypeOK
  <2> QED BY <1>4, <2>1, <2>2, <2>3 DEF Served, Finish, Close
<1>5. CASE InPlace
  BY <1>1, <1>2, <1>5, InPlaceMoves DEF requestVars
<1> QED BY <1>3, <1>4, <1>5, StepKinds

(* What a step may do to the sessions of the only agent.                   *)
LEMMA SessionEffects ==
    ASSUME BaseInv, RequestsNext, ~Crash, ~raced', NEW s \in Session \ damaged'
    PROVE  /\ ~raced /\ damaged \subseteq damaged'
           /\ Get(1, s).messages \subseteq Get(1, s)'.messages
           /\ \A r \in Request : Begin(r) /\ session[r] = s => r \in Get(1, s)'.messages
           /\ Get(1, s)'.mode = "TASK" =>
                 \/ Get(1, s).mode = "TASK"
                 \/ \E r \in Request : Begin(r) /\ session[r] = s
<1>0. /\ SessionTypeOK /\ RequestsTypeOK /\ OneAgent /\ CorruptIsDamaged
      /\ 1 \in Store
  BY DEF BaseInv, RequestsTypeOK, Agent
<1>1. ~raced
  <2>1. ASSUME NEW r \in Request, Arrive(r) PROVE ~raced
    BY <2>1, <1>0 DEF Arrive, RequestsTypeOK
  <2> QED
    BY <2>1, StepKinds, ServedMoves, InPlaceMoves, <1>0 DEF Created, CreateFails, agentVars
<1>2. ASSUME NEW r \in Request, at[r] \notin Unserved
      PROVE  agent[r] = 1 /\ session[r] \in Session /\ r \in Message
  <2>1. agent[r] \in Nat /\ agent[r] # 0 /\ agent[r] <= created
    BY <1>0, <1>2, GivenAgent DEF OneAgent, Agent
  <2>2. created \in {0, 1}
    BY <1>0, <1>1 DEF OneAgent
  <2> QED BY <1>0, <2>1, <2>2 DEF RequestsTypeOK
<1>3. ASSUME NEW r \in Request, Begin(r)
      PROVE  at[r] \notin Unserved /\ OpenTask(agent[r], session[r], r)
  BY <1>3 DEF Begin, Start, Unserved
<1>4. ASSUME NEW r \in Request, Begin(r)
      PROVE  /\ damaged' = damaged
             /\ s = session[r] => Get(1, s)'.messages = Get(1, s).messages \cup {r}
             /\ s # session[r] => Get(1, s)' = Get(1, s)
  <2>1. PICK t \in Session : t = session[r]
    BY <1>2, <1>3, <1>4
  <2>2. r \in Message /\ OpenTask(1, t, r)
    BY <1>2, <1>3, <1>4, <2>1
  <2>3. damaged' = damaged
    BY <2>2 DEF OpenTask
  <2> QED BY <1>0, <2>1, <2>2, <2>3, OpenTaskGets
<1>5. ASSUME NEW r \in Request, at[r] \notin Unserved,
             ReportProgress(agent[r], session[r]) \/ CloseTask(agent[r], session[r])
      PROVE  /\ damaged' = damaged
             /\ Get(1, s)'.messages = Get(1, s).messages
             /\ Get(1, s)'.mode = "TASK" => Get(1, s).mode = "TASK"
  <2>1. /\ agent[r] = 1 /\ session[r] \in Session
        /\ ReportProgress(1, session[r]) \/ CloseTask(1, session[r])
    BY <1>2, <1>5
  <2>2. damaged' = damaged
    BY <2>1 DEF ReportProgress, CloseTask
  <2>3. CASE s = session[r]
    BY <1>0, <2>1, <2>2, <2>3, ReportProgressGets, CloseTaskGets
  <2>4. CASE s # session[r]
    BY <1>0, <2>1, <2>2, <2>4, ReportProgressGets, CloseTaskGets
  <2> QED BY <2>3, <2>4
<1>6. ASSUME NEW m \in 1..created, StoreStep(m)
      PROVE  /\ damaged \subseteq damaged'
             /\ Get(1, s)'.messages = Get(1, s).messages
             /\ Get(1, s)'.mode = "TASK" => Get(1, s).mode = "TASK"
  <2>1. m = 1
    BY <1>0, <1>1 DEF OneAgent
  <2> QED BY <1>0, <1>6, <2>1, StoreStepGets
<1>7. UNCHANGED sessionVars => damaged' = damaged /\ Get(1, s)' = Get(1, s)
  BY DEF sessionVars, Get
<1>8. \A r \in Request : Begin(r) /\ session[r] = s => r \in Get(1, s)'.messages
  BY <1>4
<1>9. SessionStep
  BY <1>0, SessionSteps
<1> QED
  BY <1>1, <1>4, <1>5, <1>6, <1>7, <1>8, <1>9 DEF SessionStep

(* After a crash a session is what its file says.                          *)
LEMMA CrashEffects ==
    ASSUME BaseInv, Crash, NEW s \in Session
    PROVE  /\ damaged' = damaged
           /\ Get(1, s)'.messages = disk[s].messages
           /\ Get(1, s)'.mode = "TASK" => s \in interrupted'
<1>1. 1 \in Store /\ disk[s] \in State \cup {Absent, Corrupt}
  BY DEF BaseInv, RequestsTypeOK, SessionTypeOK, Agent
<1>2. sessions'[1][s] = Absent /\ UNCHANGED <<disk, damaged>>
  BY <1>1 DEF Crash, NothingHeld
<1>3. Get(1, s)' = IF disk[s] \in State THEN disk[s] ELSE Absent
  BY <1>2 DEF Get
<1>4. interrupted' = {t \in Session : disk[t].mode = "TASK"}
  BY DEF Crash
<1> QED BY <1>1, <1>2, <1>3, <1>4, Constants

LEMMA TaskIsUnderWayStep ==
    ASSUME BaseInv, TaskIsUnderWay, RequestsNext
    PROVE  TaskIsUnderWay'
<1> SUFFICES ASSUME ~raced', NEW s \in Session, s \notin damaged', s \notin interrupted',
                    Get(1, s)'.mode = "TASK"
             PROVE  \E r \in UnderWay' : session'[r] = s
  BY DEF TaskIsUnderWay
<1>1. CASE Crash
  BY <1>1, CrashEffects
<1>2. CASE ~Crash
  <2>1. session' = session /\ interrupted' = interrupted
    BY <1>2, Lasting DEF BaseInv
  <2>2. CASE \E r \in Request : Begin(r) /\ session[r] = s
    <3>1. PICK r \in Request : Begin(r) /\ session[r] = s
      BY <2>2
    <3>2. at'[r] = "begun"
      BY <3>1 DEF Begin, Goto, BaseInv, RequestsTypeOK
    <3> QED BY <2>1, <3>1, <3>2 DEF UnderWay
  <2>3. CASE Get(1, s).mode = "TASK"
    <3>1. ~raced /\ s \notin damaged
      BY <1>2, SessionEffects
    <3>2. PICK q \in UnderWay : session[q] = s
      BY <2>1, <2>3, <3>1 DEF TaskIsUnderWay
    <3>3. CASE q \in UnderWay'
      BY <2>1, <3>2, <3>3
    <3>4. CASE q \notin UnderWay'
      <4>1. /\ RequestsTypeOK /\ OneAgent /\ SessionTypeOK
            /\ q \in Request /\ at[q] \notin Unserved
        BY DEF BaseInv, RequestsTypeOK, UnderWay, Unserved
      <4>2. CloseTask(agent[q], s)
        BY <1>2, <3>2, <3>4, <4>1, EndsInChat
      <4>3. agent[q] \in Store /\ agent[q] = 1
        BY <3>1, <4>1, GivenAgent DEF OneAgent, RequestsTypeOK, Agent
      <4>4. CloseTask(1, s) /\ 1 \in Store
        BY <4>2, <4>3
      <4> QED BY <4>1, <4>4, CloseTaskGets
    <3> QED BY <3>3, <3>4
  <2> QED BY <1>2, <2>2, <2>3, SessionEffects
<1> QED BY <1>1, <1>2

LEMMA HeardIsFoundStep ==
    ASSUME BaseInv, HeardIsFound, RequestsNext
    PROVE  HeardIsFound'
<1> SUFFICES ASSUME ~raced', NEW r \in heard', session'[r] \notin damaged'
             PROVE  \E s \in Session : s = session'[r] /\ r \in Get(1, s)'.messages
  BY DEF HeardIsFound
<1>0. session' = session /\ r \in Request /\ session[r] \in Session
  <2>1. session' = session
    BY Lasting DEF BaseInv
  <2>2. heard' \in SUBSET Request
    BY TypeStep DEF BaseInv, RequestsTypeOK
  <2> QED BY <2>1, <2>2 DEF BaseInv, RequestsTypeOK
<1>1. PICK s \in Session : s = session[r] /\ s \notin damaged'
  BY <1>0
<1>2. CASE Crash
  <2>1. r \in disk[s].messages
    BY <1>1, <1>2 DEF Crash
  <2> QED BY <1>0, <1>1, <1>2, <2>1, CrashEffects
<1>3. CASE ~Crash
  <2>1. CASE Begin(r)
    BY <1>0, <1>1, <1>3, <2>1, SessionEffects
  <2>2. CASE ~Begin(r)
    <3>1. r \in heard
      BY <1>3, <2>2, Lasting DEF BaseInv
    <3>2. ~raced /\ s \notin damaged /\ Get(1, s).messages \subseteq Get(1, s)'.messages
      BY <1>1, <1>3, SessionEffects
    <3> QED BY <1>0, <1>1, <3>1, <3>2 DEF HeardIsFound
  <2> QED BY <2>1, <2>2
<1> QED BY <1>2, <1>3

LEMMA OneStore ==
    ASSUME BaseInv, ~raced, NEW m \in Store, NEW s \in Session, sessions[m][s] # Absent
    PROVE  m = 1
<1>1. m \in 1..MaxAgents /\ created \in {0, 1}
  BY DEF BaseInv, OneAgent, Agent
<1>2. ~(m > created)
  BY DEF BaseInv, OwnStores
<1> QED BY <1>1, <1>2

(* A session without a request under way is in chat mode.                  *)
THEOREM SessionsEndInChat == RequestsSpec => []QuietInChat
<1>1. RequestsInit => TaskIsUnderWay
  <2> SUFFICES ASSUME RequestsInit PROVE TaskIsUnderWay
    OBVIOUS
  <2>1. 1 \in Store
    BY DEF Agent
  <2>2. \A s \in Session : Get(1, s) = Absent
    BY <2>1, Constants DEF RequestsInit, SessionInit, NothingHeld, Get
  <2> QED BY <2>2, Constants DEF TaskIsUnderWay
<1>2. BaseInv /\ TaskIsUnderWay /\ [RequestsNext]_allVars => TaskIsUnderWay'
  <2>1. TaskIsUnderWay /\ UNCHANGED allVars => TaskIsUnderWay'
    BY DEF TaskIsUnderWay, Get, UnderWay, allVars, sessionVars, agentVars, requestVars
  <2> QED BY <2>1, TaskIsUnderWayStep
<1>3. BaseInv /\ TaskIsUnderWay => QuietInChat
  <2> SUFFICES ASSUME BaseInv, TaskIsUnderWay,
                      NEW m \in Store, NEW s \in Session \ (damaged \cup interrupted),
                      ~raced, sessions[m][s] # Absent,
                      \A r \in UnderWay : session[r] # s
               PROVE  sessions[m][s].mode = "CHAT"
    BY DEF QuietInChat
  <2>1. m = 1 /\ sessions[m][s] \in State
    BY OneStore DEF BaseInv, RequestsTypeOK, SessionTypeOK
  <2>2. Get(1, s) = sessions[m][s]
    BY <2>1 DEF Get
  <2> QED BY <2>1, <2>2, StateSteps DEF TaskIsUnderWay
<1> QED BY <1>1, <1>2, <1>3, BaseInvInit, BaseInvStep, PTL DEF RequestsSpec

(* No message of a request is lost.                                        *)
THEOREM MessagesAreKept == RequestsSpec => []NothingForgotten
<1>1. RequestsInit => HeardIsFound
  BY DEF RequestsInit, HeardIsFound
<1>2. BaseInv /\ HeardIsFound /\ [RequestsNext]_allVars => HeardIsFound'
  <2>1. HeardIsFound /\ UNCHANGED allVars => HeardIsFound'
    BY DEF HeardIsFound, Get, allVars, sessionVars, agentVars, requestVars
  <2> QED BY <2>1, HeardIsFoundStep
<1>3. BaseInv /\ HeardIsFound => NothingForgotten
  <2> SUFFICES ASSUME BaseInv, HeardIsFound, ~raced,
                      NEW r \in heard, session[r] \notin damaged
               PROVE  r \in Found(session[r])
    BY DEF NothingForgotten
  <2>1. r \in Get(1, session[r]).messages /\ session[r] \in Session /\ 1 \in Store
    BY DEF HeardIsFound, BaseInv, RequestsTypeOK, Agent
  <2>2. CASE orchestrator = NoAgent
    <3>1. sessions[1][session[r]] = Absent
      BY <2>1, <2>2 DEF BaseInv, OneAgent, OwnStores
    <3> QED BY <2>1, <2>2, <3>1, Constants DEF Get, Found
  <2>3. CASE orchestrator # NoAgent
    <3>1. orchestrator = 1
      BY <2>3 DEF BaseInv, OneAgent, RequestsTypeOK, NoAgent
    <3> QED BY <2>1, <2>3, <3>1 DEF Found
  <2> QED BY <2>2, <2>3
<1> QED BY <1>1, <1>2, <1>3, BaseInvInit, BaseInvStep, PTL DEF RequestsSpec

-----------------------------------------------------------------------------
(* The attempts of a call.                                                 *)

SameCall(r) ==
    /\ asking'[r] = asking[r] /\ outcome'[r] = outcome[r]
    /\ calls'[r] = calls[r] /\ made'[r] = made[r]

(* The providers are those of the start.                                   *)
LEMMA ProvidersStay ==
    ASSUME RequestsNext
    PROVE  UNCHANGED <<primary, fallback>>
<1>1. ASSUME NEW r \in Request, Arrive(r) \/ Created(r) \/ CreateFails(r)
      PROVE  UNCHANGED <<primary, fallback>>
  BY <1>1 DEF Arrive, Created, CreateFails, llmVars
<1>2. ASSUME NEW r \in Request, Served(r)
      PROVE  UNCHANGED <<primary, fallback>>
  BY <1>2 DEF Served, Begin, BeginRefused, Ask, StartCall, Planned, StreamRefused, Answered,
     StreamPartial, Finish, StreamFails, Leave, LeaveCall, Close, ListSkills, Record, llmVars
<1>3. InPlace => UNCHANGED <<primary, fallback>>
  BY DEF InPlace, Provide, ProviderAnswers, ProviderFails, LevelDone, llmVars
<1>4. Crash => UNCHANGED <<primary, fallback>>
  BY DEF Crash
<1> QED BY <1>1, <1>2, <1>3, <1>4, StepKinds

(* What a step does to the calls of each request.                          *)
LEMMA CallSteps ==
    ASSUME BaseInv, RequestsNext, ~Crash, NEW r \in Request
    PROVE  \/ SameCall(r)
           \/ StartCall(r) /\ asking[r] = None
           \/ ProviderAnswers(agent[r], r)
           \/ ProviderFails(agent[r], r)
           \/ LeaveCall(r)
<1> USE DEF BaseInv
<1>1. ASSUME NEW q \in Request, Arrive(q) \/ Created(q) \/ CreateFails(q)
      PROVE  UNCHANGED llmVars
  BY <1>1 DEF Arrive, Created, CreateFails
<1>2. ASSUME NEW q \in Request, Served(q)
      PROVE  \/ SameCall(r)
             \/ q = r /\ StartCall(r) /\ asking[r] = None
             \/ q = r /\ LeaveCall(r)
  <2>1. CASE Ask(q)
    <3>1. q # r => SameCall(r)
      BY <2>1 DEF Ask, StartCall, SameCall, RequestsTypeOK, LlmTypeOK
    <3>2. StartCall(q) /\ asking[q] = None
      BY <2>1 DEF Ask, AskedAtWork, AtWork
    <3> QED BY <3>1, <3>2
  <2>2. CASE Leave(q)
    <3>1. q # r => SameCall(r)
      BY <2>2 DEF Leave, LeaveCall, llmVars, SameCall, RequestsTypeOK, LlmTypeOK
    <3>2. UNCHANGED llmVars \/ LeaveCall(q)
      BY <2>2 DEF Leave
    <3> QED BY <3>1, <3>2 DEF llmVars, SameCall
  <2>3. CASE ~Ask(q) /\ ~Leave(q)
    BY <1>2, <2>3 DEF Served, Begin, BeginRefused, Planned, StreamRefused, Answered,
       StreamPartial, Finish, StreamFails, Close, ListSkills, Record, llmVars, SameCall
  <2> QED BY <2>1, <2>2, <2>3
<1>3. ASSUME NEW q \in Request, Provide(q)
      PROVE  /\ q # r => SameCall(r)
             /\ ProviderAnswers(agent[q], q) \/ ProviderFails(agent[q], q)
  BY <1>3 DEF Provide, ProviderAnswers, ProviderFails, Logged, SameCall, RequestsTypeOK, LlmTypeOK
<1>4. InPlace /\ ~(\E q \in Request : Provide(q)) => UNCHANGED llmVars
  BY DEF InPlace, LevelDone
<1>5. UNCHANGED llmVars => SameCall(r)
  BY DEF llmVars, SameCall
<1> QED BY <1>1, <1>2, <1>3, <1>4, <1>5, StepKinds

(* The attempts of the call a request awaits: none when it awaits the      *)
(* primary provider, the failed one of the primary when it awaits the      *)
(* fallback.                                                               *)
Awaited(r) ==
    /\ asking[r] \in {None, primary, fallback}
    /\ \A k \in DOMAIN made[r] : made[r][k].request = r /\ made[r][k].call <= calls[r]
    /\ asking[r] = primary => Attempts(r) = {}
    /\ asking[r] \notin {None, primary} =>
          /\ Attempts(r) # {}
          /\ \A k \in Attempts(r) : made[r][k].provider = primary /\ ~made[r][k].ok

Ended(r) ==
    /\ \A k, l \in Attempts(r) : made[r][k].provider = made[r][l].provider => k = l
    /\ \A k \in Attempts(r) : made[r][k].ok => \A l \in Attempts(r) : l <= k
    /\ outcome[r] = "answered" => \E k \in Attempts(r) : made[r][k].ok
    /\ outcome[r] = "unavailable" =>
          \A p \in {primary, fallback} \ {None} :
              \E k \in Attempts(r) : made[r][k].provider = p /\ ~made[r][k].ok

CallInv ==
    /\ fallback # primary
    /\ \A r \in Request : Awaited(r) /\ Ended(r)

(* An attempt that ends is the latest one of its call, and the only one    *)
(* with its provider.                                                      *)
LEMMA LoggedAttempts ==
    ASSUME BaseInv, CallInv, NEW f \in Factory, NEW r \in Request, NEW ok \in BOOLEAN,
           asking[r] # None, Logged(f, r, ok), UNCHANGED calls
    PROVE  LET n == Len(made[r]) + 1 IN
           /\ n \in Nat /\ DOMAIN made[r] = 1..(n - 1) /\ DOMAIN made'[r] = 1..n
           /\ \A k \in 1..(n - 1) : made'[r][k] = made[r][k]
           /\ made'[r][n].request = r /\ made'[r][n].call = calls[r]
           /\ made'[r][n].provider = asking[r] /\ made'[r][n].ok = ok
           /\ Attempts(r)' = Attempts(r) \cup {n}
           /\ Attempts(r) \subseteq 1..(n - 1)
           /\ \A k \in Attempts(r) : made[r][k].provider # asking[r] /\ ~made[r][k].ok
<1> DEFINE n == Len(made[r]) + 1
           event == [request |-> r, call |-> calls[r], provider |-> asking[r], ok |-> ok]
<1>1. made[r] \in Seq(Event) /\ made \in [Request -> Seq(Event)]
  BY DEF BaseInv, RequestsTypeOK, LlmTypeOK
<1>2. made'[r] = Append(made[r], event)
  BY <1>1 DEF Logged
<1>3. /\ event.request = r /\ event.call = calls[r]
      /\ event.provider = asking[r] /\ event.ok = ok
  OBVIOUS
<1>4. event \in Event
  BY DEF BaseInv, RequestsTypeOK, LlmTypeOK, Event
<1> HIDE DEF event
<1>5. /\ n \in Nat /\ DOMAIN made[r] = 1..(n - 1) /\ DOMAIN made'[r] = 1..n
      /\ \A k \in 1..(n - 1) : made'[r][k] = made[r][k]
      /\ made'[r][n] = event
  BY <1>1, <1>2, <1>4
<1>6. Attempts(r)' = Attempts(r) \cup {n} /\ Attempts(r) \subseteq 1..(n - 1)
  BY <1>3, <1>5 DEF Attempts
<1>7. \A k \in Attempts(r) : made[r][k].provider # asking[r] /\ ~made[r][k].ok
  BY DEF CallInv, Awaited
<1> QED BY <1>3, <1>5, <1>6, <1>7

LEMMA CallInvStep ==
    ASSUME BaseInv, CallInv, RequestsNext
    PROVE  CallInv'
<1>0. RequestsTypeOK /\ LlmTypeOK /\ OneAgent
  BY DEF BaseInv, RequestsTypeOK
<1>1. CASE Crash
  <2>1. /\ UNCHANGED <<primary, fallback>>
        /\ \A r \in Request : /\ asking'[r] = None /\ outcome'[r] = "none"
                              /\ made'[r] = <<>>
    BY <1>1 DEF Crash
  <2> QED BY <2>1 DEF CallInv, Awaited, Ended, Attempts
<1>2. ASSUME ~Crash, NEW r \in Request
      PROVE  Awaited(r)' /\ Ended(r)'
  <2>0. /\ UNCHANGED <<primary, fallback>> /\ fallback # primary /\ Awaited(r) /\ Ended(r)
        /\ made[r] \in Seq(Event) /\ calls[r] \in Nat /\ primary # None
    BY <1>0, ProvidersStay DEF CallInv, LlmTypeOK
  <2>1. CASE SameCall(r)
    BY <2>0, <2>1 DEF SameCall, Awaited, Ended, Attempts
  <2>2. CASE StartCall(r) /\ asking[r] = None
    <3>1. /\ asking'[r] = primary /\ outcome'[r] = "open"
          /\ calls'[r] = calls[r] + 1 /\ made'[r] = made[r]
      BY <1>0, <2>2 DEF StartCall, LlmTypeOK
    <3>2. \A k \in DOMAIN made[r] : made[r][k].call \in Nat
      <4>1. \A e \in Event : e.call \in Nat
        BY DEF Event
      <4>2. \A k \in DOMAIN made[r] : made[r][k] \in Event
        BY <2>0
      <4> QED BY <4>1, <4>2
    <3>3. Attempts(r)' = {}
      BY <2>0, <3>1, <3>2 DEF Attempts, Awaited
    <3> QED BY <2>0, <3>1, <3>2, <3>3 DEF Awaited, Ended
  <2>3. CASE ProviderAnswers(agent[r], r)
    <3> DEFINE n == Len(made[r]) + 1
    <3>1. /\ asking[r] # None /\ agent[r] \in Factory
          /\ Logged(agent[r], r, TRUE) /\ UNCHANGED calls
          /\ asking'[r] = None /\ outcome'[r] = "answered"
      BY <1>0, <2>3, GivenAgent DEF ProviderAnswers, LlmTypeOK, BaseInv, AskedAtWork, AtWork, Unserved
    <3>2. /\ n \in Nat /\ DOMAIN made[r] = 1..(n - 1) /\ DOMAIN made'[r] = 1..n
          /\ \A k \in 1..(n - 1) : made'[r][k] = made[r][k]
          /\ made'[r][n].request = r /\ made'[r][n].call = calls[r]
          /\ made'[r][n].provider = asking[r] /\ made'[r][n].ok = TRUE
          /\ Attempts(r)' = Attempts(r) \cup {n}
          /\ Attempts(r) \subseteq 1..(n - 1)
          /\ \A k \in Attempts(r) : made[r][k].provider # asking[r] /\ ~made[r][k].ok
      BY <3>1, LoggedAttempts
    <3> HIDE DEF n
    <3>3. Awaited(r)'
      BY <2>0, <3>1, <3>2 DEF Awaited
    <3>4. Ended(r)'
      BY <2>0, <3>1, <3>2 DEF Ended
    <3> QED BY <3>3, <3>4
  <2>4. CASE ProviderFails(agent[r], r)
    <3> DEFINE n == Len(made[r]) + 1
    <3>1. /\ asking[r] # None /\ agent[r] \in Factory
          /\ Logged(agent[r], r, FALSE) /\ UNCHANGED calls
          /\ \/ /\ asking[r] = primary /\ fallback # None
                /\ asking'[r] = fallback /\ outcome'[r] = outcome[r]
             \/ /\ asking[r] # primary \/ fallback = None
                /\ asking'[r] = None /\ outcome'[r] = "unavailable"
      BY <1>0, <2>0, <2>4, GivenAgent
         DEF ProviderFails, HasFallback, LlmTypeOK, BaseInv, AskedAtWork, AtWork, Unserved
    <3>2. /\ n \in Nat /\ DOMAIN made[r] = 1..(n - 1) /\ DOMAIN made'[r] = 1..n
          /\ \A k \in 1..(n - 1) : made'[r][k] = made[r][k]
          /\ made'[r][n].request = r /\ made'[r][n].call = calls[r]
          /\ made'[r][n].provider = asking[r] /\ made'[r][n].ok = FALSE
          /\ Attempts(r)' = Attempts(r) \cup {n}
          /\ Attempts(r) \subseteq 1..(n - 1)
          /\ \A k \in Attempts(r) : made[r][k].provider # asking[r] /\ ~made[r][k].ok
      BY <3>1, LoggedAttempts
    <3>3. outcome[r] = "open"
      BY <3>1 DEF BaseInv, AskedAtWork
    <3> HIDE DEF n
    <3>4. Awaited(r)'
      BY <2>0, <3>1, <3>2 DEF Awaited
    <3>5. Ended(r)'
      <4>1. /\ \A k, l \in Attempts(r)' : made'[r][k].provider = made'[r][l].provider => k = l
            /\ \A k \in Attempts(r)' : ~made'[r][k].ok
            /\ outcome'[r] # "answered"
        BY <2>0, <3>1, <3>2, <3>3 DEF Ended
      <4>2. CASE asking[r] = primary /\ fallback # None
        BY <2>0, <3>1, <3>3, <4>1, <4>2 DEF Ended
      <4>3. CASE asking[r] = primary /\ fallback = None
        BY <2>0, <3>2, <4>1, <4>3 DEF Ended
      <4>4. CASE asking[r] # primary
        <5>1. asking[r] = fallback /\ \E k \in Attempts(r) : made[r][k].provider = primary
          BY <2>0, <3>1, <4>4 DEF Awaited
        <5> QED BY <2>0, <3>2, <4>1, <5>1 DEF Ended
      <4> QED BY <4>2, <4>3, <4>4
    <3> QED BY <3>4, <3>5
  <2>5. CASE LeaveCall(r)
    <3>1. /\ asking'[r] = None /\ outcome'[r] = "none"
          /\ calls'[r] = calls[r] /\ made'[r] = made[r]
      BY <1>0, <2>5 DEF LeaveCall, LlmTypeOK
    <3> QED BY <2>0, <3>1 DEF Awaited, Ended, Attempts
  <2>6. \/ SameCall(r)
        \/ StartCall(r) /\ asking[r] = None
        \/ ProviderAnswers(agent[r], r)
        \/ ProviderFails(agent[r], r)
        \/ LeaveCall(r)
    BY <1>2, CallSteps
  <2> QED BY <2>1, <2>2, <2>3, <2>4, <2>5, <2>6
<1> QED BY <1>1, <1>2, ProvidersStay DEF CallInv

LEMMA CallInvInit == RequestsInit => CallInv
<1> SUFFICES ASSUME RequestsInit PROVE CallInv
  OBVIOUS
<1>1. /\ fallback \in {None, "claude"} /\ primary \in {"demo", "qwen"}
      /\ \A r \in Request : made[r] = <<>> /\ asking[r] = None /\ outcome[r] = "none"
  BY DEF RequestsInit, LlmInit
<1>2. primary # None
  BY <1>1 DEF Provider
<1>3. fallback # primary
  BY <1>1, <1>2
<1> QED BY <1>1, <1>3 DEF CallInv, Awaited, Ended, Attempts

LEMMA CallInvHolds == RequestsSpec => [](BaseInv /\ CallInv)
<1>1. BaseInv /\ CallInv /\ [RequestsNext]_allVars => BaseInv' /\ CallInv'
  <2>1. CallInv /\ UNCHANGED allVars => CallInv'
    BY DEF CallInv, Awaited, Ended, Attempts, allVars, llmVars
  <2> QED BY <2>1, CallInvStep, BaseInvStep
<1> QED BY <1>1, BaseInvInit, CallInvInit, PTL DEF RequestsSpec

(* A call that fails with one provider is tried with the other.            *)
THEOREM CallsFallBack == RequestsSpec => []CallFallsBack
<1>1. CallInv => CallFallsBack
  BY DEF CallInv, Ended, CallFallsBack
<1> QED BY <1>1, CallInvHolds, PTL

-----------------------------------------------------------------------------
(* The list of calls and the records.                                      *)

Entry == [request : Request, calls : Seq(Event)]

LEMMA EntriesHaveCalls ==
    ASSUME RequestsTypeOK
    PROVE  /\ records \in Seq(Entry)
           /\ \A i \in DOMAIN records :
                 records[i].request \in Request /\ records[i].calls \in Seq(Event)
<1>1. records \in Seq(Entry)
  BY DEF RequestsTypeOK, Entry
<1>2. \A i \in DOMAIN records : records[i] \in Entry
  BY <1>1
<1> QED BY <1>1, <1>2 DEF Entry

LEMMA CallsOfLists ==
    /\ CallsOf(<<>>) = {}
    /\ \A s \in Seq(Event), e \in Event : CallsOf(Append(s, e)) = CallsOf(s) \cup {e}
<1>1. CallsOf(<<>>) = {}
  BY DEF CallsOf
<1>2. ASSUME NEW s \in Seq(Event), NEW e \in Event
      PROVE  CallsOf(Append(s, e)) = CallsOf(s) \cup {e}
  <2>1. /\ DOMAIN s = 1..Len(s) /\ DOMAIN Append(s, e) = 1..(Len(s) + 1) /\ Len(s) \in Nat
        /\ \A k \in 1..Len(s) : Append(s, e)[k] = s[k]
        /\ Append(s, e)[Len(s) + 1] = e
    OBVIOUS
  <2> QED BY <2>1 DEF CallsOf
<1> QED BY <1>1, <1>2

(* An attempt that ends: it was not made before.                           *)
Attempted(r, e) ==
    /\ e \in Event /\ e.request = r
    /\ agent[r] \in Factory /\ r \in UnderWay
    /\ pending' = [pending EXCEPT ![agent[r]] = Append(@, e)]
    /\ made' = [made EXCEPT ![r] = Append(@, e)]
    /\ e \notin CallsOf(made[r])

LEMMA AttemptsAreNew ==
    ASSUME BaseInv, CallInv, NEW r \in Request, Provide(r)
    PROVE  /\ \E e : Attempted(r, e)
           /\ UNCHANGED requestVars /\ UNCHANGED agentVars
<1>0. made[r] \in Seq(Event)
  BY DEF BaseInv, RequestsTypeOK, LlmTypeOK
<1>1. PICK ok \in BOOLEAN : asking[r] # None /\ Logged(agent[r], r, ok)
  BY DEF Provide, ProviderAnswers, ProviderFails
<1> DEFINE e == [request |-> r, call |-> calls[r], provider |-> asking[r], ok |-> ok]
<1>2. at[r] \in AtWork
  BY <1>1 DEF BaseInv, AskedAtWork
<1>3. agent[r] \in Factory /\ r \in UnderWay
  BY <1>2, GivenAgent DEF BaseInv, AtWork, Unserved, UnderWay
<1>4. e \in Event /\ e.request = r /\ e.call = calls[r] /\ e.provider = asking[r]
  BY <1>1 DEF BaseInv, RequestsTypeOK, LlmTypeOK, Event
<1>5. \A k \in Attempts(r) : made[r][k].provider # asking[r]
  BY <1>1 DEF CallInv, Awaited
<1> HIDE DEF e
<1>6. e \notin CallsOf(made[r])
  BY <1>0, <1>4, <1>5 DEF CallsOf, Attempts
<1>7. /\ pending' = [pending EXCEPT ![agent[r]] = Append(@, e)]
      /\ made' = [made EXCEPT ![r] = Append(@, e)]
  BY <1>1 DEF Logged, e
<1> QED BY <1>3, <1>4, <1>6, <1>7 DEF Attempted, Provide

(* The list of an agent is emptied, and what it held may go into a record. *)
Emptied(f) ==
    /\ f \in Factory
    /\ pending' = [pending EXCEPT ![f] = <<>>]
    /\ \/ records' = records
       \/ \E q \in Request, list \in {<<>>, pending[f]} :
             records' = Append(records, [request |-> q, calls |-> list])

LEMMA ListSteps ==
    ASSUME BaseInv, CallInv, RequestsNext, ~Crash
    PROVE  \/ \E f : Emptied(f) /\ UNCHANGED made
           \/ \E r \in Request : \E e : Attempted(r, e) /\ records' = records
           \/ UNCHANGED <<pending, made, records>>
<1>1. ASSUME NEW r \in Request, Arrive(r) \/ Created(r) \/ CreateFails(r)
      PROVE  UNCHANGED <<pending, made, records>>
  BY <1>1 DEF Arrive, Created, CreateFails, llmVars
<1>2. ASSUME NEW r \in Request, Served(r)
      PROVE  (Emptied(agent[r]) /\ UNCHANGED made) \/ UNCHANGED <<pending, made, records>>
  <2>1. agent[r] \in Factory /\ pending \in [Factory -> Seq(Event)]
    BY <1>2, ServedMoves, GivenAgent DEF BaseInv, RequestsTypeOK, LlmTypeOK
  <2>2. CASE Begin(r)
    BY <2>1, <2>2 DEF Begin, Emptied, CallsAtStart
  <2>3. CASE BeginRefused(r)
    BY <2>1, <2>3 DEF BeginRefused, Emptied, CallsAtStart, CallsAfterRecord
  <2>4. CASE Finish(r) \/ StreamFails(r)
    BY <2>1, <2>4 DEF Finish, StreamFails, Record, Emptied, CallsAfterRecord
  <2>5. CASE ~(Begin(r) \/ BeginRefused(r) \/ Finish(r) \/ StreamFails(r))
    BY <1>2, <2>5 DEF Served, Ask, StartCall, Planned, StreamRefused, Answered, StreamPartial,
       Leave, LeaveCall, Close, ListSkills, llmVars
  <2> QED BY <2>2, <2>3, <2>4, <2>5
<1>3. ASSUME NEW r \in Request, Provide(r)
      PROVE  \E e : Attempted(r, e) /\ records' = records
  BY <1>3, AttemptsAreNew DEF requestVars
<1>4. InPlace /\ ~(\E r \in Request : Provide(r)) => UNCHANGED <<pending, made, records>>
  BY DEF InPlace, LevelDone, llmVars, requestVars
<1> QED BY <1>1, <1>2, <1>3, <1>4, StepKinds

(* Every event of a list or a record is an attempt its request made, and   *)
(* is in one of them only.                                                 *)
Listed ==
    /\ \A f \in Factory : \A e \in CallsOf(pending[f]) : e \in CallsOf(made[e.request])
    /\ \A i \in DOMAIN records : \A e \in CallsOf(records[i].calls) :
          e \in CallsOf(made[e.request])
    /\ \A f, g \in Factory : f # g => CallsOf(pending[f]) \cap CallsOf(pending[g]) = {}

LEMMA EmptiedKeeps ==
    ASSUME BaseInv, Listed, RecordedOnce, NEW f, Emptied(f), UNCHANGED made
    PROVE  Listed' /\ RecordedOnce'
<1>1. /\ pending \in [Factory -> Seq(Event)] /\ records \in Seq(Entry)
      /\ f \in Factory
  BY EntriesHaveCalls DEF BaseInv, RequestsTypeOK, LlmTypeOK, Emptied
<1>2. /\ \A g \in Factory : g # f => pending'[g] = pending[g]
      /\ pending'[f] = <<>>
  BY <1>1 DEF Emptied
<1>3. /\ \A g \in Factory : g # f => CallsOf(pending'[g]) = CallsOf(pending[g])
      /\ CallsOf(pending'[f]) = {}
  BY <1>2, CallsOfLists
<1>4. CASE records' = records
  BY <1>3, <1>4 DEF Listed, RecordedOnce
<1>5. ASSUME NEW q \in Request, NEW list \in {<<>>, pending[f]},
             records' = Append(records, [request |-> q, calls |-> list])
      PROVE  Listed' /\ RecordedOnce'
  <2> DEFINE n == Len(records) + 1
  <2>1. [request |-> q, calls |-> list] \in Entry
    <3>1. <<>> \in Seq(Event) /\ pending[f] \in Seq(Event)
      BY <1>1
    <3> QED BY <3>1 DEF Entry
  <2>2. /\ DOMAIN records = 1..(n - 1) /\ DOMAIN records' = 1..n /\ n \in Nat
        /\ \A i \in 1..(n - 1) : records'[i] = records[i]
        /\ records'[n].calls = list
    BY <1>1, <1>5, <2>1
  <2>3. CallsOf(list) \subseteq CallsOf(pending[f])
    BY CallsOfLists
  <2> HIDE DEF n
  <2>4. \A i \in 1..n : /\ i # n => CallsOf(records'[i].calls) = CallsOf(records[i].calls)
                        /\ i = n => CallsOf(records'[i].calls) = CallsOf(list)
                        /\ i # n => i \in DOMAIN records
    BY <2>2
  <2>5. Listed'
    <3>1. \A g \in Factory : \A e \in CallsOf(pending'[g]) : e \in CallsOf(made'[e.request])
      BY <1>1, <1>3 DEF Listed
    <3>2. \A i \in 1..n : \A e \in CallsOf(records'[i].calls) :
             e \in CallsOf(made'[e.request])
      BY <1>1, <2>3, <2>4 DEF Listed
    <3>3. \A g, h \in Factory : g # h => CallsOf(pending'[g]) \cap CallsOf(pending'[h]) = {}
      BY <1>1, <1>3 DEF Listed
    <3> QED BY <2>2, <3>1, <3>2, <3>3 DEF Listed
  <2>6. RecordedOnce'
    <3>1. \A i \in 1..n, g \in Factory :
             CallsOf(records'[i].calls) \cap CallsOf(pending'[g]) = {}
      <4> SUFFICES ASSUME NEW i \in 1..n, NEW g \in Factory
                   PROVE  CallsOf(records'[i].calls) \cap CallsOf(pending'[g]) = {}
        OBVIOUS
      <4>1. CASE g = f
        BY <1>3, <4>1
      <4>2. CASE g # f /\ i = n
        BY <1>1, <1>3, <2>3, <2>4, <4>2 DEF Listed
      <4>3. CASE g # f /\ i # n
        BY <1>3, <2>4, <4>3 DEF RecordedOnce
      <4> QED BY <4>1, <4>2, <4>3
    <3>2. \A i \in 1..n, j \in 1..n : i # j =>
             CallsOf(records'[i].calls) \cap CallsOf(records'[j].calls) = {}
      <4> SUFFICES ASSUME NEW i \in 1..n, NEW j \in 1..n, i # j
                   PROVE  CallsOf(records'[i].calls) \cap CallsOf(records'[j].calls) = {}
        OBVIOUS
      <4>1. CASE i = n
        BY <1>1, <2>3, <2>4, <4>1 DEF RecordedOnce
      <4>2. CASE j = n
        BY <1>1, <2>3, <2>4, <4>2 DEF RecordedOnce
      <4>3. CASE i # n /\ j # n
        BY <2>4, <4>3 DEF RecordedOnce
      <4> QED BY <4>1, <4>2, <4>3
    <3> QED BY <2>2, <3>1, <3>2 DEF RecordedOnce
  <2> QED BY <2>5, <2>6
<1> QED BY <1>4, <1>5 DEF Emptied

LEMMA AttemptedKeeps ==
    ASSUME BaseInv, Listed, RecordedOnce, NEW r \in Request, NEW e, Attempted(r, e),
           records' = records
    PROVE  Listed' /\ RecordedOnce'
<1>1. /\ pending \in [Factory -> Seq(Event)] /\ made \in [Request -> Seq(Event)]
      /\ e \in Event /\ e.request = r /\ agent[r] \in Factory
  BY DEF BaseInv, RequestsTypeOK, LlmTypeOK, Attempted
<1>2. /\ \A g \in Factory : g # agent[r] => pending'[g] = pending[g]
      /\ pending'[agent[r]] = Append(pending[agent[r]], e)
      /\ \A q \in Request : q # r => made'[q] = made[q]
      /\ made'[r] = Append(made[r], e)
  BY <1>1 DEF Attempted
<1>3. /\ CallsOf(pending'[agent[r]]) = CallsOf(pending[agent[r]]) \cup {e}
      /\ CallsOf(made'[r]) = CallsOf(made[r]) \cup {e}
  BY <1>1, <1>2, CallsOfLists
<1>4. /\ \A g \in Factory : g # agent[r] => CallsOf(pending'[g]) = CallsOf(pending[g])
      /\ \A q \in Request : q # r => CallsOf(made'[q]) = CallsOf(made[q])
  BY <1>2
<1>5. e \notin CallsOf(made[r])
  BY DEF Attempted
<1>6. /\ \A g \in Factory : e \notin CallsOf(pending[g])
      /\ \A i \in DOMAIN records : e \notin CallsOf(records[i].calls)
  BY <1>1, <1>5 DEF Listed
<1>7. /\ \A g \in Factory : \A d \in CallsOf(pending[g]) : d.request \in Request
      /\ \A i \in DOMAIN records : \A d \in CallsOf(records[i].calls) : d.request \in Request
  <2>1. \A d \in Event : d.request \in Request
    BY DEF Event
  <2>2. \A s \in Seq(Event) : CallsOf(s) \subseteq Event
    BY DEF CallsOf
  <2>3. \A i \in DOMAIN records : records[i].calls \in Seq(Event)
    BY EntriesHaveCalls DEF BaseInv
  <2> QED BY <1>1, <2>1, <2>2, <2>3
<1>8. Listed'
  <2>1. \A q \in Request : CallsOf(made[q]) \subseteq CallsOf(made'[q])
    BY <1>3, <1>4
  <2>2. \A g \in Factory : \A d \in CallsOf(pending'[g]) : d \in CallsOf(made'[d.request])
    <3> SUFFICES ASSUME NEW g \in Factory, NEW d \in CallsOf(pending'[g])
                 PROVE  d \in CallsOf(made'[d.request])
      OBVIOUS
    <3>1. d \in CallsOf(pending[g]) \/ d = e
      BY <1>3, <1>4
    <3>2. CASE d = e
      BY <1>1, <1>3, <3>2
    <3>3. CASE d \in CallsOf(pending[g])
      <4>1. d.request \in Request
        BY <1>7, <3>3
      <4>2. d \in CallsOf(made[d.request])
        BY <3>3 DEF Listed
      <4> QED
        BY <2>1, <4>1, <4>2
    <3> QED
      BY <3>1, <3>2, <3>3
  <2>3. \A i \in DOMAIN records : \A d \in CallsOf(records[i].calls) :
           d \in CallsOf(made'[d.request])
    BY <1>7, <2>1 DEF Listed
  <2>4. \A f, g \in Factory : f # g => CallsOf(pending'[f]) \cap CallsOf(pending'[g]) = {}
    BY <1>3, <1>4, <1>6 DEF Listed
  <2> QED BY <2>2, <2>3, <2>4 DEF Listed
<1>9. RecordedOnce'
  <2>1. \A i \in DOMAIN records, g \in Factory :
           CallsOf(records[i].calls) \cap CallsOf(pending'[g]) = {}
    <3> SUFFICES ASSUME NEW i \in DOMAIN records, NEW g \in Factory
                 PROVE  CallsOf(records[i].calls) \cap CallsOf(pending'[g]) = {}
      OBVIOUS
    <3>1. /\ CallsOf(records[i].calls) \cap CallsOf(pending[g]) = {}
          /\ e \notin CallsOf(records[i].calls)
      BY <1>6 DEF RecordedOnce
    <3>2. CallsOf(pending'[g]) \subseteq CallsOf(pending[g]) \cup {e}
      BY <1>3, <1>4
    <3> QED BY <3>1, <3>2
  <2> QED BY <2>1 DEF RecordedOnce
<1> QED BY <1>8, <1>9

LEMMA ListedStep ==
    ASSUME BaseInv, CallInv, Listed, RecordedOnce, RequestsNext
    PROVE  Listed' /\ RecordedOnce'
<1>1. CASE Crash
  <2>1. records' = <<>> /\ \A f \in Factory : pending'[f] = <<>>
    BY <1>1 DEF Crash
  <2> QED BY <2>1, CallsOfLists DEF Listed, RecordedOnce
<1>2. CASE UNCHANGED <<pending, made, records>>
  BY <1>2 DEF Listed, RecordedOnce
<1> QED BY <1>1, <1>2, ListSteps, EmptiedKeeps, AttemptedKeeps

(* No LLM call is counted twice.                                           *)
THEOREM CallsAreRecordedOnce == RequestsSpec => []RecordedOnce
<1>1. RequestsInit => Listed /\ RecordedOnce
  BY CallsOfLists DEF RequestsInit, LlmInit, Listed, RecordedOnce
<1>2. BaseInv /\ CallInv /\ Listed /\ RecordedOnce /\ [RequestsNext]_allVars
        => Listed' /\ RecordedOnce'
  <2>1. Listed /\ RecordedOnce /\ UNCHANGED allVars => Listed' /\ RecordedOnce'
    BY DEF Listed, RecordedOnce, allVars, llmVars, requestVars
  <2> QED BY <2>1, ListedStep
<1> QED BY <1>1, <1>2, CallInvHolds, PTL DEF RequestsSpec

-----------------------------------------------------------------------------
(* Whose calls a record has.                                               *)

(* Requests under way with one agent overlap; a recorded request makes no  *)
(* more calls; and the list of the agent of a request that has it for      *)
(* itself is what the request made, until it is recorded or left.          *)
Overlap ==
    \A r, q \in UnderWay : r # q /\ agent[r] = agent[q] => r \in overlapped

RecordedIsDone == \A i \in DOMAIN records : at[records[i].request] \in {"reported", "over"}

ListIsOwn ==
    \A r \in UnderWay \ overlapped : at[r] \notin Closing => pending[agent[r]] = made[r]

OwnInv == Overlap /\ RecordedIsDone /\ ListIsOwn /\ RecordsOwnCalls

(* A request begins: it and all that share its agent overlap from now on.  *)
LEMMA StartOverlaps ==
    ASSUME NEW r \in Request, Start(r), NEW q \in UnderWay, agent[q] = agent[r]
    PROVE  q \in overlapped' /\ r \in overlapped'
BY DEF Start

(* What a step of a request does to the overlap.                           *)
LEMMA OverlapSteps ==
    ASSUME BaseInv, RequestsNext, ~Crash
    PROVE  /\ overlapped \subseteq overlapped'
           /\ \A r \in UnderWay' :
                 /\ agent'[r] = agent[r] /\ agent[r] \in Factory
                 /\ r \in UnderWay \/ Start(r)
<1> USE DEF BaseInv
<1>1. ASSUME NEW q \in Request, Arrive(q) \/ Created(q) \/ CreateFails(q)
      PROVE  /\ overlapped' = overlapped
             /\ \A r \in UnderWay' : agent'[r] = agent[r] /\ r \in UnderWay
  <2>1. /\ \A r \in Request : r # q => at'[r] = at[r] /\ agent'[r] = agent[r]
        /\ at'[q] \in {"creating", "ready", "over"}
    BY <1>1 DEF Arrive, Created, CreateFails, Goto, RequestsTypeOK, agentVars
  <2>2. overlapped' = overlapped
    BY <1>1 DEF Arrive, Created, CreateFails
  <2> QED BY <2>1, <2>2 DEF UnderWay
<1>2. ASSUME NEW q \in Request, Served(q)
      PROVE  /\ overlapped \subseteq overlapped'
             /\ \A r \in UnderWay' : agent'[r] = agent[r] /\ (r \in UnderWay \/ Start(r))
  <2>1. \A r \in Request : r # q => at'[r] = at[r]
    BY <1>2, ServedMoves
  <2>2. agent' = agent
    BY <1>2, ServedMoves DEF agentVars
  <2>3. CASE Begin(q) \/ BeginRefused(q)
    BY <2>1, <2>2, <2>3 DEF Begin, BeginRefused, Start, UnderWay
  <2>4. CASE ~(Begin(q) \/ BeginRefused(q))
    <3>1. overlapped' = overlapped
      BY <1>2, <2>4 DEF Served, Ask, Planned, StreamRefused, Answered, StreamPartial, Finish,
         StreamFails, Leave, Close, ListSkills
    <3>2. at[q] \notin {"new", "creating", "ready", "over"} \/ at'[q] = "over"
      BY <1>2, <2>4 DEF Served, Ask, Planned, StreamRefused, Answered, StreamPartial, Finish,
         StreamFails, Leave, Close, ListSkills, Goto, AtYield, Closing, RequestsTypeOK
    <3> QED BY <2>1, <2>2, <3>1, <3>2 DEF UnderWay
  <2> QED BY <2>3, <2>4
<1>3. ASSUME InPlace
      PROVE  /\ overlapped' = overlapped
             /\ \A r \in UnderWay' : agent'[r] = agent[r] /\ r \in UnderWay
  <2>1. at' = at /\ agent' = agent /\ overlapped' = overlapped
    BY <1>3, InPlaceMoves DEF agentVars, requestVars
  <2>2. UnderWay' = UnderWay
    BY <2>1 DEF UnderWay
  <2> QED BY <2>1, <2>2
<1>4. \A r \in Request : r \in UnderWay \/ Start(r) => agent[r] \in Factory
  BY GivenAgent DEF UnderWay, Start, Unserved
<1>5. UnderWay' \subseteq Request
  BY DEF UnderWay
<1> QED BY <1>1, <1>2, <1>3, <1>4, <1>5, StepKinds

LEMMA OverlapStep ==
    ASSUME BaseInv, Overlap, RequestsNext
    PROVE  Overlap'
<1> SUFFICES ASSUME NEW r \in UnderWay', NEW q \in UnderWay', r # q, agent'[r] = agent'[q]
             PROVE  r \in overlapped'
  BY DEF Overlap
<1>1. CASE Crash
  BY <1>1 DEF Crash, UnderWay
<1>2. CASE ~Crash
  <2>1. /\ agent[r] = agent[q] /\ overlapped \subseteq overlapped'
        /\ r \in UnderWay \/ Start(r)
        /\ q \in UnderWay \/ Start(q)
        /\ r \in Request /\ q \in Request
    BY <1>2, OverlapSteps DEF UnderWay
  <2>2. ~(Start(r) /\ Start(q)) \/ r \in UnderWay \/ q \in UnderWay
    <3>1. ASSUME Start(r), Start(q), r \notin UnderWay, q \notin UnderWay
          PROVE  FALSE
      <4>1. at[r] = "ready" /\ at[q] = "ready"
        BY <3>1 DEF Start
      <4>2. at'[r] # "ready" /\ at'[q] # "ready"
        BY DEF UnderWay
      <4>3. UNCHANGED at \/ \E p \in Request : \A t \in Request : t # p => at'[t] = at[t]
        BY <1>2, StepKinds, ServedMoves, InPlaceMoves
           DEF Arrive, Created, CreateFails, Goto, BaseInv, RequestsTypeOK, requestVars
      <4> QED BY <2>1, <4>1, <4>2, <4>3
    <3> QED BY <3>1
  <2> QED BY <2>1, <2>2, StartOverlaps DEF Overlap
<1> QED BY <1>1, <1>2

LEMMA EndStays ==
    ASSUME BaseInv, RequestsNext, ~Crash, NEW q \in Request
    PROVE  /\ at[q] \in {"reported", "over"} =>
                 at'[q] \in {"reported", "over"} /\ made'[q] = made[q]
           /\ at[q] \in Closing => at'[q] \in Closing \cup {"over"}
<1>1. at[q] \in {"reported", "over"} \cup Closing =>
        at'[q] = at[q] \/ at'[q] = "over"
  <2> SUFFICES ASSUME at[q] \in {"reported", "over"} \cup Closing
               PROVE  at'[q] = at[q] \/ at'[q] = "over"
    OBVIOUS
  <2>1. ASSUME NEW r \in Request, Arrive(r) \/ Created(r) \/ CreateFails(r)
        PROVE  at'[q] = at[q]
    BY <2>1 DEF Arrive, Created, CreateFails, Goto, Closing, BaseInv, RequestsTypeOK
  <2>2. ASSUME NEW r \in Request, Served(r), r # q PROVE at'[q] = at[q]
    BY <2>2, ServedMoves DEF BaseInv
  <2>3. CASE Served(q)
    BY <2>3 DEF Served, Begin, BeginRefused, Start, Ask, Planned, StreamRefused, Answered,
       StreamPartial, Finish, StreamFails, Leave, Close, ListSkills, Goto, AtYield, Closing,
       BaseInv, RequestsTypeOK
  <2>4. CASE InPlace
    BY <2>4, InPlaceMoves DEF requestVars
  <2> QED BY <2>1, <2>2, <2>3, <2>4, StepKinds
<1>2. at[q] \in {"reported", "over"} => asking[q] = None
  BY DEF BaseInv, AskedAtWork, AtWork
<1>3. asking[q] = None => made'[q] = made[q]
  BY CallSteps DEF SameCall, StartCall, LeaveCall, ProviderAnswers, ProviderFails
<1> QED BY <1>1, <1>2, <1>3

(* A request under way is recorded.                                        *)
Recorded(q) ==
    /\ Record(q)
    /\ q \in UnderWay /\ at[q] \notin Closing
    /\ at'[q] \in {"reported", "over"}

LEMMA OwnSteps ==
    ASSUME BaseInv, CallInv, RequestsNext, ~Crash
    PROVE  \/ \E q \in Request : Begin(q) \/ BeginRefused(q) \/ Recorded(q)
           \/ \E q \in Request : \E e : Attempted(q, e) /\ records' = records
           \/ UNCHANGED <<pending, made, records>>
<1>1. ASSUME NEW q \in Request, Arrive(q) \/ Created(q) \/ CreateFails(q)
      PROVE  UNCHANGED <<pending, made, records>>
  BY <1>1 DEF Arrive, Created, CreateFails, llmVars
<1>2. ASSUME NEW q \in Request, Served(q)
      PROVE  Begin(q) \/ BeginRefused(q) \/ Recorded(q) \/ UNCHANGED <<pending, made, records>>
  <2>1. CASE Finish(q) \/ StreamFails(q)
    <3>1. at[q] \in {"begun", "running", "planning", "told"}
      BY <2>1 DEF Finish, StreamFails
    <3>2. at'[q] \in {"reported", "over"} /\ Record(q)
      BY <2>1 DEF Finish, StreamFails, Goto, BaseInv, RequestsTypeOK
    <3> QED BY <3>1, <3>2 DEF Recorded, UnderWay, Closing
  <2>2. CASE ~(Begin(q) \/ BeginRefused(q) \/ Finish(q) \/ StreamFails(q))
    BY <1>2, <2>2 DEF Served, Ask, StartCall, Planned, StreamRefused, Answered, StreamPartial,
       Leave, LeaveCall, Close, ListSkills, llmVars
  <2> QED BY <2>1, <2>2
<1>3. ASSUME NEW q \in Request, Provide(q)
      PROVE  \E e : Attempted(q, e) /\ records' = records
  BY <1>3, AttemptsAreNew DEF requestVars
<1>4. InPlace /\ ~(\E q \in Request : Provide(q)) => UNCHANGED <<pending, made, records>>
  BY DEF InPlace, LevelDone, llmVars, requestVars
<1> QED BY <1>1, <1>2, <1>3, <1>4, StepKinds

(* What a record is made of.                                               *)
LEMMA NewRecord ==
    ASSUME BaseInv, NEW q \in Request, BeginRefused(q) \/ Recorded(q)
    PROVE  /\ agent[q] \in Factory
           /\ pending' = [pending EXCEPT ![agent[q]] = <<>>]
           /\ at'[q] \in {"reported", "over"} /\ made' = made
           /\ \E list \in Seq(Event) :
                 /\ records' = Append(records, [request |-> q, calls |-> list])
                 /\ \/ Recorded(q) /\ list = pending[agent[q]]
                    \/ list = made[q]
<1>1. agent[q] \in Factory /\ pending[agent[q]] \in Seq(Event)
  <2>1. at[q] \notin Unserved
    BY DEF BeginRefused, Start, Recorded, UnderWay, Unserved
  <2> QED BY <2>1, GivenAgent DEF BaseInv, RequestsTypeOK, LlmTypeOK
<1>2. CASE BeginRefused(q)
  <2>1. made[q] = <<>> /\ made[q] \in Seq(Event)
    BY <1>2 DEF BeginRefused, Start, BaseInv, AskedAtWork, RequestsTypeOK, LlmTypeOK
  <2>2. records' = Append(records, [request |-> q, calls |-> made[q]])
    BY <1>2, <2>1 DEF BeginRefused, CallsAtStart
  <2>3. pending' = [pending EXCEPT ![agent[q]] = <<>>] /\ made' = made
    BY <1>2 DEF BeginRefused, CallsAfterRecord
  <2>4. at'[q] \in {"reported", "over"}
    BY <1>2 DEF BeginRefused, Goto, BaseInv, RequestsTypeOK
  <2> QED BY <1>1, <2>1, <2>2, <2>3, <2>4
<1>3. CASE Recorded(q)
  <2>1. /\ pending' = [pending EXCEPT ![agent[q]] = <<>>] /\ made' = made
        /\ records' = Append(records, [request |-> q, calls |-> pending[agent[q]]])
    BY <1>3 DEF Recorded, Record, CallsAfterRecord
  <2> QED BY <1>1, <1>3, <2>1 DEF Recorded
<1> QED BY <1>2, <1>3

LEMMA RecordsStep ==
    ASSUME BaseInv, CallInv, OwnInv, RequestsNext
    PROVE  RecordedIsDone' /\ RecordsOwnCalls'
<1> USE DEF OwnInv
<1>0. /\ records \in Seq(Entry)
      /\ \A i \in DOMAIN records : records[i].request \in Request
  BY EntriesHaveCalls DEF BaseInv
<1>1. CASE Crash
  BY <1>1 DEF Crash, RecordedIsDone, RecordsOwnCalls
<1>2. CASE ~Crash
  <2>0. overlapped \subseteq overlapped'
    BY <1>2, OverlapSteps
  <2>1. \A i \in DOMAIN records :
           /\ at'[records[i].request] \in {"reported", "over"}
           /\ records[i].request \notin overlapped' =>
                 records[i].calls = made'[records[i].request]
    BY <1>0, <1>2, <2>0, EndStays DEF RecordedIsDone, RecordsOwnCalls
  <2>2. CASE records' = records
    BY <2>1, <2>2 DEF RecordedIsDone, RecordsOwnCalls
  <2>3. ASSUME NEW q \in Request, BeginRefused(q) \/ Recorded(q)
        PROVE  RecordedIsDone' /\ RecordsOwnCalls'
    <3>1. PICK list \in Seq(Event) :
             /\ records' = Append(records, [request |-> q, calls |-> list])
             /\ \/ Recorded(q) /\ list = pending[agent[q]]
                \/ list = made[q]
      BY <2>3, NewRecord
    <3>2. at'[q] \in {"reported", "over"} /\ made' = made
      BY <2>3, NewRecord
    <3> DEFINE n == Len(records) + 1
    <3>3. [request |-> q, calls |-> list] \in Entry
      BY DEF Entry
    <3>4. /\ DOMAIN records = 1..(n - 1) /\ DOMAIN records' = 1..n /\ n \in Nat
          /\ \A i \in 1..(n - 1) : records'[i] = records[i]
          /\ records'[n].calls = list /\ records'[n].request = q
      BY <1>0, <3>1, <3>3
    <3>5. q \notin overlapped' => list = made'[q]
      BY <2>0, <3>1, <3>2 DEF Recorded, ListIsOwn
    <3> HIDE DEF n
    <3>6. RecordedIsDone'
      BY <2>1, <3>2, <3>4 DEF RecordedIsDone
    <3>7. RecordsOwnCalls'
      BY <2>1, <3>2, <3>4, <3>5 DEF RecordsOwnCalls
    <3> QED BY <3>6, <3>7
  <2> QED BY <1>2, <2>2, <2>3, OwnSteps DEF Begin
<1> QED BY <1>1, <1>2

LEMMA ListIsOwnStep ==
    ASSUME BaseInv, CallInv, OwnInv, RequestsNext
    PROVE  ListIsOwn'
<1> USE DEF OwnInv
<1> SUFFICES ASSUME NEW r \in UnderWay', r \notin overlapped', at'[r] \notin Closing
             PROVE  pending'[agent'[r]] = made'[r]
  BY DEF ListIsOwn
<1>1. ~Crash
  BY DEF Crash, UnderWay
<1>2. /\ r \in Request /\ agent'[r] = agent[r] /\ agent[r] \in Factory
      /\ r \in UnderWay \/ Start(r)
      /\ r \notin overlapped /\ at[r] \notin Closing
      /\ pending \in [Factory -> Seq(Event)] /\ made \in [Request -> Seq(Event)]
  <2>1. r \in Request /\ at'[r] # "over"
    BY DEF UnderWay
  <2> QED BY <1>1, <2>1, OverlapSteps, EndStays DEF BaseInv, RequestsTypeOK, LlmTypeOK
<1>3. CASE r \notin UnderWay
  <2>1. Start(r) /\ at[r] = "ready" /\ made[r] = <<>>
    BY <1>2, <1>3 DEF Start, BaseInv, AskedAtWork
  <2>2. at'[r] \notin {"ready", "over"}
    BY DEF UnderWay
  <2>3. Served(r)
    <3>1. ASSUME NEW q \in Request, Arrive(q) \/ Created(q) \/ CreateFails(q) PROVE FALSE
      <4>1. at[q] \in {"new", "creating"}
        BY <3>1 DEF Arrive, Created, CreateFails
      <4>2. q # r /\ at'[r] = at[r]
        BY <1>2, <2>1, <3>1, <4>1
           DEF Arrive, Created, CreateFails, Goto, BaseInv, RequestsTypeOK
      <4> QED BY <2>1, <2>2, <4>2
    <3>2. ASSUME NEW q \in Request, q # r, Served(q) PROVE FALSE
      BY <2>1, <2>2, <3>2, ServedMoves, <1>2 DEF BaseInv
    <3>3. ~InPlace
      BY <2>1, <2>2, InPlaceMoves DEF requestVars
    <3> QED BY <1>1, <3>1, <3>2, <3>3, StepKinds
  <2>4. ~BeginRefused(r) /\ ~ListSkills(r)
    BY <1>2, <2>2 DEF BeginRefused, ListSkills, Goto, Closing, BaseInv, RequestsTypeOK
  <2>5. Begin(r)
    BY <2>1, <2>3, <2>4 DEF Served, Ask, Planned, StreamRefused, Answered, StreamPartial,
       Finish, StreamFails, Leave, Close, AtYield, Closing
  <2> QED BY <1>2, <2>1, <2>5 DEF Begin, CallsAtStart
<1>4. CASE r \in UnderWay
  <2>1. pending[agent[r]] = made[r]
    BY <1>2, <1>4 DEF ListIsOwn
  <2>2. \A q \in UnderWay : agent[q] = agent[r] => q = r
    BY <1>2, <1>4 DEF Overlap
  <2>3. \A q \in Request : Start(q) => agent[q] # agent[r]
    BY <1>4, StartOverlaps
  <2>4. ASSUME NEW q \in Request, Begin(q)
        PROVE  pending'[agent[r]] = made'[r]
    BY <1>2, <2>1, <2>3, <2>4 DEF Begin
  <2>5. ASSUME NEW q \in Request, BeginRefused(q) \/ Recorded(q)
        PROVE  pending'[agent[r]] = made'[r]
    <3>1. agent[q] # agent[r]
      <4>1. CASE BeginRefused(q)
        BY <2>3, <4>1 DEF BeginRefused
      <4>2. CASE Recorded(q)
        <5>1. at'[q] \in {"reported", "over"}
          BY <4>2 DEF Recorded
        <5>2. q # r
          BY <5>1 DEF UnderWay, Closing
        <5> QED BY <2>2, <4>2, <5>2 DEF Recorded
      <4> QED BY <2>5, <4>1, <4>2
    <3> QED BY <1>2, <2>1, <2>5, <3>1, NewRecord
  <2>6. ASSUME NEW q \in Request, NEW e, Attempted(q, e)
        PROVE  pending'[agent[r]] = made'[r]
    <3>1. agent[q] = agent[r] => q = r
      BY <2>2, <2>6 DEF Attempted
    <3> QED BY <1>2, <2>1, <2>6, <3>1 DEF Attempted
  <2> QED BY <1>1, <1>2, <2>1, <2>4, <2>5, <2>6, OwnSteps
<1> QED BY <1>3, <1>4

(* A request that had its agent for itself is recorded with its own calls. *)
THEOREM RecordsAreOwn == RequestsSpec => []RecordsOwnCalls
<1>1. RequestsInit => OwnInv
  BY DEF RequestsInit, OwnInv, Overlap, RecordedIsDone, ListIsOwn, RecordsOwnCalls, UnderWay
<1>2. BaseInv /\ CallInv /\ OwnInv /\ [RequestsNext]_allVars => OwnInv'
  <2>1. OwnInv /\ UNCHANGED allVars => OwnInv'
    BY DEF OwnInv, Overlap, RecordedIsDone, ListIsOwn, RecordsOwnCalls, UnderWay,
           allVars, llmVars, agentVars, requestVars
  <2>2. BaseInv /\ CallInv /\ OwnInv /\ RequestsNext => OwnInv'
    BY OverlapStep, RecordsStep, ListIsOwnStep DEF OwnInv
  <2> QED BY <2>1, <2>2
<1>3. OwnInv => RecordsOwnCalls
  BY DEF OwnInv
<1> QED BY <1>1, <1>2, <1>3, CallInvHolds, PTL DEF RequestsSpec

-----------------------------------------------------------------------------
(* MetricsStore: the halving search.                                       *)

Half(lo, hi) == (lo + hi) \div 2

(* What the halving search leads to from a range of places: the end of the *)
(* first part, or the end of the range nearest to it.                      *)
Clamp(range, c) ==
    IF range[1] >= range[2] \/ c <= range[1] THEN range[1]
    ELSE IF c >= range[2] THEN range[2] ELSE c

Halving(before, n, place) ==
    [range \in (0..n) \X (0..n) |->
        IF range[1] >= range[2] THEN range[1]
        ELSE IF before[Half(range[1], range[2]) + 1]
             THEN place[<<Half(range[1], range[2]) + 1, range[2]>>]
        ELSE place[<<range[1], Half(range[1], range[2])>>]]

LEMMA HalfWithin ==
    ASSUME NEW lo \in Int, NEW hi \in Int, lo < hi
    PROVE  Half(lo, hi) \in Int /\ lo <= Half(lo, hi) /\ Half(lo, hi) < hi
BY DEF Half

LEMMA ClampSearches ==
    ASSUME NEW n \in Nat, NEW c \in 0..n, NEW before \in [1..n -> BOOLEAN],
           \A k \in 1..n : before[k] <=> k <= c
    PROVE  LET clamp == [range \in (0..n) \X (0..n) |-> Clamp(range, c)]
           IN  clamp = Halving(before, n, clamp)
<1> DEFINE clamp == [range \in (0..n) \X (0..n) |-> Clamp(range, c)]
<1>1. ASSUME NEW range \in (0..n) \X (0..n)
      PROVE  Clamp(range, c) = Halving(before, n, clamp)[range]
  <2> DEFINE lo == range[1]  hi == range[2]  mid == Half(lo, hi)
  <2>1. lo \in 0..n /\ hi \in 0..n
    OBVIOUS
  <2>2. CASE lo >= hi
    BY <2>2 DEF Halving, Clamp
  <2>3. CASE lo < hi
    <3>1. mid \in Int /\ lo <= mid /\ mid < hi
      BY <2>1, <2>3, HalfWithin
    <3>2. mid + 1 \in 1..n /\ mid \in 0..n /\ mid + 1 \in 0..n
      BY <2>1, <3>1
    <3>3. clamp[<<mid + 1, hi>>] = Clamp(<<mid + 1, hi>>, c)
      BY <2>1, <3>2
    <3>4. clamp[<<lo, mid>>] = Clamp(<<lo, mid>>, c)
      BY <2>1, <3>2
    <3>5. Halving(before, n, clamp)[range] =
             IF before[mid + 1] THEN clamp[<<mid + 1, hi>>] ELSE clamp[<<lo, mid>>]
      BY <2>1, <2>3 DEF Halving
    <3>6. before[mid + 1] <=> mid + 1 <= c
      BY <3>2
    <3>7. CASE mid + 1 <= c
      <4>1. Clamp(range, c) = Clamp(<<mid + 1, hi>>, c)
        <5> HIDE DEF mid
        <5> QED BY <2>1, <2>3, <3>1, <3>7 DEF Clamp
      <4> QED
        BY <3>3, <3>5, <3>6, <3>7, <4>1
    <3>8. CASE ~ (mid + 1 <= c)
      <4>1. Clamp(range, c) = Clamp(<<lo, mid>>, c)
        <5> HIDE DEF mid
        <5> QED BY <2>1, <2>3, <3>1, <3>8 DEF Clamp
      <4> QED
        BY <3>4, <3>5, <3>6, <3>8, <4>1
    <3> QED
      BY <3>7, <3>8
  <2> QED
    BY <2>1, <2>2, <2>3
<1> QED
  BY <1>1 DEF Halving

(* Whatever function makes its way by halving finds that place: else take  *)
(* a range where it does not with the fewest places in it.                 *)
LEMMA HalvingFinds ==
    ASSUME NEW n \in Nat, NEW c \in 0..n, NEW before \in [1..n -> BOOLEAN],
           \A k \in 1..n : before[k] <=> k <= c,
           NEW place, place = Halving(before, n, place)
    PROVE  \A range \in (0..n) \X (0..n) : place[range] = Clamp(range, c)
<1> DEFINE Ranges == (0..n) \X (0..n)
           Places(range) == range[1] + 1 .. range[2]
           Missed == {range \in Ranges : place[range] # Clamp(range, c)}
           Sizes == {Places(range) : range \in Missed}
           clamp == [range \in Ranges |-> Clamp(range, c)]
<1> SUFFICES ASSUME Missed # {} PROVE FALSE
  OBVIOUS
<1>0. \A range \in Ranges : Places(range) \in SUBSET (1..n)
  OBVIOUS
<1>1. Sizes \subseteq FiniteSubsetsOf(1..n) /\ Sizes # {}
  <2>2. \A range \in Ranges : IsFiniteSet(Places(range))
    BY FS_Interval
  <2> QED
    BY <1>0, <2>2 DEF FiniteSubsetsOf
<1>2. PICK x \in Sizes : \A y \in Sizes : ~ (<<y, x>> \in StrictSubsetOrdering(1..n))
  BY <1>1, FS_StrictSubsetOrderingWellFounded, WFMin
<1>3. PICK range \in Missed : x = Places(range)
  BY <1>2
<1> DEFINE lo == range[1]  hi == range[2]  mid == Half(lo, hi)
<1>4. lo \in 0..n /\ hi \in 0..n /\ range \in Ranges
  BY <1>3
<1>5. ASSUME NEW less \in Ranges, Places(less) \subseteq Places(range),
             Places(range) \ Places(less) # {}
      PROVE  place[less] = clamp[less]
  <2> SUFFICES ASSUME less \in Missed PROVE FALSE
    OBVIOUS
  <2>1. Places(less) \in Sizes
    OBVIOUS
  <2>2. Places(range) \in SUBSET (1..n) /\ Places(less) \in SUBSET (1..n)
    BY <1>0, <1>4
  <2> HIDE DEF Places
  <2>3. <<Places(less), Places(range)>> \in StrictSubsetOrdering(1..n)
    BY <1>5, <2>2 DEF StrictSubsetOrdering
  <2> QED
    BY <1>2, <1>3, <2>1, <2>3
<1>6. clamp = Halving(before, n, clamp)
  BY ClampSearches
<1>7. place[range] = Halving(before, n, place)[range]
  OBVIOUS
<1>8. clamp[range] = Halving(before, n, clamp)[range]
  BY <1>6
<1>9. Halving(before, n, place)[range] = Halving(before, n, clamp)[range]
  <2>1. CASE lo >= hi
    BY <1>4, <2>1 DEF Halving
  <2>2. CASE lo < hi
    <3>1. mid \in Int /\ lo <= mid /\ mid < hi
      BY <1>4, <2>2, HalfWithin
    <3>2. mid \in 0..n /\ mid + 1 \in 0..n
      BY <1>4, <3>1
    <3>3. place[<<mid + 1, hi>>] = clamp[<<mid + 1, hi>>]
      <4>1. <<mid + 1, hi>> \in Ranges
        BY <1>4, <3>2
      <4>2. Places(<<mid + 1, hi>>) = mid + 2 .. hi
        BY <3>1
      <4>3. mid + 2 .. hi \subseteq lo + 1 .. hi
        <5> HIDE DEF mid, lo, hi
        <5> QED BY <1>4, <3>1
      <4>4. lo + 1 \in (lo + 1 .. hi) \ (mid + 2 .. hi)
        <5> HIDE DEF mid, lo, hi
        <5> QED BY <1>4, <3>1, <2>2
      <4> QED
        BY <1>5, <4>1, <4>2, <4>3, <4>4
    <3>4. place[<<lo, mid>>] = clamp[<<lo, mid>>]
      <4>1. <<lo, mid>> \in Ranges
        BY <1>4, <3>2
      <4>2. Places(<<lo, mid>>) = lo + 1 .. mid
        OBVIOUS
      <4>3. lo + 1 .. mid \subseteq lo + 1 .. hi
        <5> HIDE DEF mid, lo, hi
        <5> QED BY <1>4, <3>1
      <4>4. hi \in (lo + 1 .. hi) \ (lo + 1 .. mid)
        <5> HIDE DEF mid, lo, hi
        <5> QED BY <1>4, <3>1, <2>2
      <4> QED
        BY <1>5, <4>1, <4>2, <4>3, <4>4
    <3>5. ASSUME NEW f
          PROVE  Halving(before, n, f)[range] =
                    IF before[mid + 1] THEN f[<<mid + 1, hi>>] ELSE f[<<lo, mid>>]
      BY <1>4, <2>2 DEF Halving
    <3> HIDE DEF clamp
    <3> QED
      BY <3>3, <3>4, <3>5
  <2> QED
    BY <1>4, <2>1, <2>2
<1> QED
  BY <1>3, <1>4, <1>7, <1>8, <1>9

LEMMA BisectFinds ==
    ASSUME NEW n \in Nat, NEW c \in 0..n, NEW before \in [1..n -> BOOLEAN],
           \A k \in 1..n : before[k] <=> k <= c
    PROVE  Bisect(before) = c
<1>1. Len(before) = n
  OBVIOUS
<1> DEFINE P == CHOOSE place : place = Halving(before, n, place)
<1>2. Bisect(before) = P[<<0, n>>]
  BY <1>1 DEF Bisect, Halving, Half
<1>3. P = Halving(before, n, P)
  BY ClampSearches
<1>4. <<0, n>> \in (0..n) \X (0..n)
  OBVIOUS
<1>5. P[<<0, n>>] = Clamp(<<0, n>>, c)
  <2> HIDE DEF P
  <2> QED BY <1>3, <1>4, HalvingFinds
<1>6. Clamp(<<0, n>>, c) = c
  BY DEF Clamp
<1> QED
  BY <1>2, <1>5, <1>6

(* A first part that ends somewhere ends at the least place behind which   *)
(* nothing belongs to it.                                                  *)
LEMMA FirstPartEnds ==
    ASSUME NEW n \in Nat, NEW before \in [1..n -> BOOLEAN],
           \A i, j \in 1..n : i <= j /\ before[j] => before[i]
    PROVE  \E c \in 0..n : \A k \in 1..n : before[k] <=> k <= c
<1> DEFINE Ends == {c \in 0..n : \A k \in 1..n : before[k] => k <= c}
           Parts == {1..c : c \in Ends}
<1>1. Parts \subseteq FiniteSubsetsOf(1..n)
  <2>1. \A c \in Ends : 1..c \in SUBSET (1..n)
    OBVIOUS
  <2>2. \A c \in Ends : IsFiniteSet(1..c)
    BY FS_Interval
  <2> QED
    BY <2>1, <2>2 DEF FiniteSubsetsOf
<1>2. Parts # {}
  <2>1. n \in Ends
    OBVIOUS
  <2> QED
    BY <2>1
<1>3. PICK x \in Parts : \A y \in Parts : ~ (<<y, x>> \in StrictSubsetOrdering(1..n))
  BY <1>1, <1>2, FS_StrictSubsetOrderingWellFounded, WFMin
<1>4. PICK c \in Ends : x = 1..c
  BY <1>3
<1>5. ASSUME c # 0, ~ before[c] PROVE FALSE
  <2>1. c - 1 \in Ends
    <3>1. c - 1 \in 0..n
      BY <1>5
    <3>2. ASSUME NEW k \in 1..n, before[k] PROVE k <= c - 1
      <4>1. k <= c /\ k # c
        BY <1>5, <3>2
      <4> QED
        BY <4>1
    <3> QED
      BY <3>1, <3>2
  <2>2. 1..(c - 1) \in Parts
    BY <2>1
  <2>3. 1..(c - 1) \subseteq 1..c /\ c \in 1..c /\ c \notin 1..(c - 1)
    BY <1>5
  <2>4. 1..c \in SUBSET (1..n) /\ 1..(c - 1) \in SUBSET (1..n)
    BY <2>1
  <2>5. <<1..(c - 1), 1..c>> \in StrictSubsetOrdering(1..n)
    BY <2>3, <2>4, Zenon DEF StrictSubsetOrdering
  <2> QED
    BY <1>3, <1>4, <2>2, <2>5
<1>6. \A k \in 1..n : before[k] <=> k <= c
  <2> SUFFICES ASSUME NEW k \in 1..n, k <= c PROVE before[k]
    OBVIOUS
  <2>1. c \in 1..n
    OBVIOUS
  <2>2. before[c]
    BY <1>5, <2>1
  <2> QED
    BY <2>1, <2>2
<1> QED
  BY <1>6

LEMMA BisectSplits ==
    ASSUME NEW n \in Nat, NEW before \in [1..n -> BOOLEAN],
           \A i, j \in 1..n : i <= j /\ before[j] => before[i]
    PROVE  /\ Bisect(before) \in 0..n
           /\ \A k \in 1..n : before[k] <=> k <= Bisect(before)
<1>1. PICK c \in 0..n : \A k \in 1..n : before[k] <=> k <= c
  BY FirstPartEnds
<1>2. Bisect(before) = c
  BY <1>1, BisectFinds
<1> QED
  BY <1>1, <1>2

-----------------------------------------------------------------------------
(* The records that are kept.                                              *)

Discarded(n) == IF n > MAX_EVENTS THEN n - MAX_EVENTS ELSE 0

LastOf(s) == SubSeq(s, Discarded(Len(s)) + 1, Len(s))

LEMMA GreaterOfTwo ==
    ASSUME NEW x \in Int
    PROVE  Max({0, x}) = IF x > 0 THEN x ELSE 0
BY DEF Max

LEMMA LesserOfTwo ==
    ASSUME NEW x \in Int, NEW y \in Int
    PROVE  Min({x, y}) = IF x <= y THEN x ELSE y
BY DEF Min

LEMMA Sizes == MAX_EVENTS \in Nat \ {0} /\ Window \in Nat \ {0}
BY SizeAssumption

LEMMA DiscardedNext ==
    ASSUME NEW n \in Nat
    PROVE  /\ n < MAX_EVENTS => Discarded(n) = 0 /\ Discarded(n + 1) = 0
           /\ ~ (n < MAX_EVENTS) =>
                 Discarded(n) = n - MAX_EVENTS /\ Discarded(n + 1) = Discarded(n) + 1
BY Sizes DEF Discarded

LEMMA LatestIsLast ==
    ASSUME log \in Seq(RequestEvent)
    PROVE  Latest = LastOf(log)
<1>1. Len(log) - MAX_EVENTS \in Int
  BY Sizes
<1>2. Max({0, Len(log) - MAX_EVENTS}) = Discarded(Len(log))
  BY <1>1, Sizes, GreaterOfTwo DEF Discarded
<1> QED
  BY <1>2 DEF Latest, LastOf

LEMMA LastOfType ==
    ASSUME NEW S, NEW s \in Seq(S)
    PROVE  /\ Discarded(Len(s)) \in Nat
           /\ LastOf(s) \in Seq(S)
           /\ Len(LastOf(s)) = Len(s) - Discarded(Len(s))
           /\ \A k \in 1..Len(LastOf(s)) : LastOf(s)[k] = s[Discarded(Len(s)) + k]
<1> DEFINE d == Discarded(Len(s))
<1>1. d \in Nat /\ d <= Len(s)
  BY Sizes DEF Discarded
<1>2. \A i \in d + 1 .. Len(s) : s[i] \in S
  BY <1>1
<1> HIDE DEF d
<1>3. /\ SubSeq(s, d + 1, Len(s)) \in Seq(S)
      /\ Len(SubSeq(s, d + 1, Len(s))) =
            IF d + 1 <= Len(s) THEN Len(s) - (d + 1) + 1 ELSE 0
      /\ \A i \in 1 .. Len(s) - (d + 1) + 1 :
            SubSeq(s, d + 1, Len(s))[i] = s[d + 1 + i - 1]
  BY <1>1, <1>2, SubSeqProperties
<1>4. Len(SubSeq(s, d + 1, Len(s))) = Len(s) - d
  BY <1>1, <1>3
<1>5. \A i \in 1 .. Len(s) - d : SubSeq(s, d + 1, Len(s))[i] = s[d + i]
  <2> SUFFICES ASSUME NEW i \in 1 .. Len(s) - d
               PROVE  SubSeq(s, d + 1, Len(s))[i] = s[d + i]
    OBVIOUS
  <2>1. i \in 1 .. Len(s) - (d + 1) + 1 /\ d + 1 + i - 1 = d + i
    BY <1>1
  <2> QED
    BY <1>3, <2>1
<1> QED
  BY <1>1, <1>3, <1>4, <1>5 DEF LastOf, d

(* Appending to the latest records and trimming them is appending to all   *)
(* records and taking the latest.                                          *)
LEMMA TrimmedIsLast ==
    ASSUME NEW S, NEW s \in Seq(S), NEW e \in S
    PROVE  Trimmed(Append(LastOf(s), e)) = LastOf(Append(s, e))
<1> DEFINE d == Discarded(Len(s))
           t == Append(LastOf(s), e)
           u == Append(s, e)
<1>1. /\ d \in Nat /\ LastOf(s) \in Seq(S)
      /\ Len(LastOf(s)) = Len(s) - d
      /\ \A k \in 1..Len(LastOf(s)) : LastOf(s)[k] = s[d + k]
  BY LastOfType
<1>2. /\ t \in Seq(S) /\ Len(t) = Len(s) - d + 1
      /\ \A k \in 1..Len(t) : t[k] = IF k <= Len(s) - d THEN s[d + k] ELSE e
  BY <1>1
<1>3. /\ u \in Seq(S) /\ Len(u) = Len(s) + 1
      /\ \A k \in 1..Len(u) : u[k] = IF k <= Len(s) THEN s[k] ELSE e
  OBVIOUS
<1>4. \A k \in 1..Len(t) : t[k] = u[d + k]
  <2> SUFFICES ASSUME NEW k \in 1..Len(t) PROVE t[k] = u[d + k]
    OBVIOUS
  <2>1. d + k \in 1..Len(u) /\ (k <= Len(s) - d <=> d + k <= Len(s))
    BY <1>1, <1>2, <1>3
  <2> QED
    BY <1>2, <1>3, <2>1
<1>5. /\ LastOf(u) \in Seq(S)
      /\ Len(LastOf(u)) = Len(u) - Discarded(Len(u))
      /\ \A k \in 1..Len(LastOf(u)) : LastOf(u)[k] = u[Discarded(Len(u)) + k]
  BY <1>3, LastOfType
<1> DEFINE v == Discarded(Len(u))
<1>8. /\ Len(s) < MAX_EVENTS => d = 0 /\ v = 0
      /\ ~ (Len(s) < MAX_EVENTS) => d = Len(s) - MAX_EVENTS /\ v = d + 1
  <2>1. Len(s) \in Nat /\ v = Discarded(Len(s) + 1)
    BY <1>3
  <2> HIDE DEF v, t, u
  <2> QED
    BY <2>1, DiscardedNext
<1> HIDE DEF t, u, d, v
<1>9. Len(s) \in Nat /\ MAX_EVENTS \in Nat /\ MAX_EVENTS > 0
  BY Sizes
<1>10. d \in Nat /\ v \in Nat
  <2>1. \A n \in Nat : Discarded(n) \in Nat
    BY Sizes DEF Discarded
  <2>2. v = Discarded(Len(s) + 1)
    BY <1>3 DEF v
  <2> QED
    BY <1>1, <1>9, <2>1, <2>2
<1>11. Len(t) = Len(s) - d + 1 /\ Len(u) = Len(s) + 1
  BY <1>2, <1>3
<1>6. CASE Len(s) < MAX_EVENTS
  <2>1. d = 0 /\ v = 0
    BY <1>6, <1>8
  <2>2. Len(t) = Len(s) + 1 /\ ~ (Len(t) > MAX_EVENTS)
    BY <1>6, <1>9, <1>11, <2>1
  <2>3. Trimmed(t) = t
    BY <2>2 DEF Trimmed
  <2>4. Len(LastOf(u)) = Len(t)
    BY <1>5, <1>9, <1>11, <2>1 DEF v
  <2>5. \A k \in 1..Len(t) : t[k] = LastOf(u)[k]
    BY <1>4, <1>5, <2>1, <2>4 DEF v
  <2>6. t = LastOf(u)
    BY <1>2, <1>5, <2>4, <2>5, SeqEqual
  <2> QED
    BY <2>3, <2>6 DEF t, u, d
<1>7. CASE ~ (Len(s) < MAX_EVENTS)
  <2>1. d = Len(s) - MAX_EVENTS /\ v = d + 1
    BY <1>7, <1>8
  <2>2. Len(t) = MAX_EVENTS + 1
    BY <1>9, <1>11, <2>1
  <2>3. Trimmed(t) = SubSeq(t, 2, Len(t))
    BY <1>9, <2>2 DEF Trimmed
  <2>4. \A i \in 2 .. Len(t) : t[i] \in S
    BY <1>2
  <2>5. /\ SubSeq(t, 2, Len(t)) \in Seq(S)
        /\ Len(SubSeq(t, 2, Len(t))) = IF 2 <= Len(t) THEN Len(t) - 2 + 1 ELSE 0
        /\ \A i \in 1 .. Len(t) - 2 + 1 : SubSeq(t, 2, Len(t))[i] = t[2 + i - 1]
    BY <1>2, <2>4, SubSeqProperties
  <2>6. Len(SubSeq(t, 2, Len(t))) = MAX_EVENTS /\ Len(LastOf(u)) = MAX_EVENTS
    BY <1>5, <1>9, <1>11, <2>1, <2>5, <2>2 DEF v
  <2>7. \A k \in 1..MAX_EVENTS : SubSeq(t, 2, Len(t))[k] = LastOf(u)[k]
    <3> SUFFICES ASSUME NEW k \in 1..MAX_EVENTS
                 PROVE  SubSeq(t, 2, Len(t))[k] = LastOf(u)[k]
      OBVIOUS
    <3>1. k \in 1 .. Len(t) - 2 + 1 /\ 2 + k - 1 = k + 1 /\ k + 1 \in 1..Len(t)
      BY <1>9, <2>2
    <3>2. SubSeq(t, 2, Len(t))[k] = t[k + 1]
      BY <2>5, <3>1
    <3>3. t[k + 1] = u[d + (k + 1)]
      BY <1>4, <3>1
    <3>4. LastOf(u)[k] = u[v + k]
      BY <1>5, <2>6 DEF v
    <3>5. v + k = d + (k + 1)
      BY <1>9, <1>10, <2>1
    <3> QED
      BY <3>2, <3>3, <3>4, <3>5
  <2>8. SubSeq(t, 2, Len(t)) = LastOf(u)
    BY <1>5, <2>5, <2>6, <2>7, SeqEqual
  <2> QED
    BY <2>3, <2>8 DEF t, u, d
<1> QED
  BY <1>6, <1>7

-----------------------------------------------------------------------------
(* The invariant.                                                          *)

(* Records are in the order of their timestamps.                           *)
LogInOrder ==
    \A i, j \in 1..Len(log) :
        i <= j => log[i].timestamp <= log[j].timestamp /\ log[j].timestamp <= now

MetricsInv ==
    /\ now \in 0..MaxTime
    /\ log \in Seq(RequestEvent) /\ Len(log) <= MaxRecords
    /\ LogInOrder
    /\ events = LastOf(log)

LEMMA StampType ==
    ASSUME NEW s \in Seq(RequestEvent), NEW k \in 1..Len(s)
    PROVE  s[k].timestamp \in Int
<1>1. s[k] \in RequestEvent
  OBVIOUS
<1>2. \A e \in RequestEvent : e.timestamp \in Int
  BY DEF RequestEvent
<1> QED
  BY <1>1, <1>2

LEMMA MetricsInvInit == MetricsInit => MetricsInv
<1> SUFFICES ASSUME MetricsInit PROVE MetricsInv
  OBVIOUS
<1>1. MaxTime \in Nat /\ MaxRecords \in Nat
  BY ClockAssumption
<1>2. log = <<>> /\ events = <<>> /\ now = 0
  BY DEF MetricsInit
<1>3. LastOf(<<>>) = <<>>
  <2>1. Discarded(0) + 1 \in Int /\ 0 < Discarded(0) + 1
    BY Sizes DEF Discarded
  <2> QED
    BY <2>1, SubSeqEmpty DEF LastOf
<1> QED
  BY <1>1, <1>2, <1>3 DEF MetricsInv, LogInOrder

LEMMA RecordRequestStep ==
    ASSUME MetricsInv, NEW r \in Recordable, RecordRequest(r)
    PROVE  MetricsInv'
<1> DEFINE event == [timestamp |-> now, of |-> r]
<1>1. /\ log \in Seq(RequestEvent) /\ event \in RequestEvent
      /\ log' = Append(log, event)
      /\ events' = Trimmed(Append(LastOf(log), event))
      /\ now' = now
  BY DEF MetricsInv, RecordRequest, RequestEvent
<1>2. events' = LastOf(log')
  BY <1>1, TrimmedIsLast
<1>3. /\ Len(log') = Len(log) + 1
      /\ \A k \in 1..Len(log) : log'[k] = log[k]
      /\ log'[Len(log) + 1].timestamp = now
  BY <1>1
<1>4. LogInOrder'
  <2> SUFFICES ASSUME NEW i \in 1..Len(log) + 1, NEW j \in 1..Len(log) + 1, i <= j
               PROVE  log'[i].timestamp <= log'[j].timestamp /\ log'[j].timestamp <= now
    BY <1>1, <1>3 DEF LogInOrder
  <2>1. now \in Int /\ Len(log) \in Nat
    BY <1>1 DEF MetricsInv
  <2>2. CASE j <= Len(log)
    BY <1>3, <2>1, <2>2 DEF MetricsInv, LogInOrder
  <2>3. CASE j = Len(log) + 1
    <3>1. CASE i = j
      BY <1>3, <2>1, <2>3, <3>1
    <3>2. CASE i # j
      <4>1. i \in 1..Len(log)
        BY <2>1, <2>3, <3>2
      <4>2. log[i].timestamp <= now
        BY <4>1 DEF MetricsInv, LogInOrder
      <4> QED
        BY <1>3, <2>1, <2>3, <4>1, <4>2
    <3> QED
      BY <3>1, <3>2
  <2> QED
    BY <2>1, <2>2, <2>3
<1>5. log' \in Seq(RequestEvent) /\ Len(log') <= MaxRecords
  <2>1. Len(log) < MaxRecords /\ Len(log) \in Nat /\ MaxRecords \in Nat
    BY <1>1, ClockAssumption DEF RecordRequest
  <2> QED
    BY <1>1, <1>3, <2>1
<1> QED
  BY <1>1, <1>2, <1>4, <1>5 DEF MetricsInv

LEMMA TickStep ==
    ASSUME MetricsInv, Tick
    PROVE  MetricsInv'
<1>1. /\ now' = now + 1 /\ now' \in 0..MaxTime /\ now \in Int
      /\ log' = log /\ events' = events
  BY ClockAssumption DEF Tick, MetricsInv
<1>2. ASSUME NEW i \in 1..Len(log), NEW j \in 1..Len(log), i <= j
      PROVE  log[i].timestamp <= log[j].timestamp /\ log[j].timestamp <= now + 1
  <2>1. log[i].timestamp <= log[j].timestamp /\ log[j].timestamp <= now
    BY <1>2 DEF MetricsInv, LogInOrder
  <2>2. log[j].timestamp \in Int
    BY StampType DEF MetricsInv
  <2> QED
    BY <1>1, <2>1, <2>2
<1>3. LogInOrder'
  BY <1>1, <1>2 DEF LogInOrder
<1> QED
  BY <1>1, <1>3 DEF MetricsInv

LEMMA MetricsInvariant == MetricsSpec => []MetricsInv
<1>1. ASSUME MetricsInv, UNCHANGED metricsVars PROVE MetricsInv'
  BY <1>1 DEF metricsVars, MetricsInv, LogInOrder
<1>2. ASSUME MetricsInv, [MetricsNext]_metricsVars PROVE MetricsInv'
  BY <1>1, <1>2, RecordRequestStep, TickStep DEF MetricsNext
<1> QED
  BY <1>2, MetricsInvInit, PTL DEF MetricsSpec

-----------------------------------------------------------------------------
(* The queries.                                                            *)

(* What is kept is ordered like all that has been recorded.                *)
LEMMA EventsInOrder ==
    ASSUME MetricsInv
    PROVE  /\ events \in Seq(RequestEvent)
           /\ events = Latest
           /\ \A k \in 1..Len(events) : events[k].timestamp \in Int
           /\ \A i, j \in 1..Len(events) :
                 i <= j => events[i].timestamp <= events[j].timestamp
<1> DEFINE d == Discarded(Len(log))
<1>1. log \in Seq(RequestEvent) /\ events = LastOf(log) /\ events = Latest
  BY LatestIsLast DEF MetricsInv
<1>2. /\ d \in Nat /\ events \in Seq(RequestEvent)
      /\ Len(events) = Len(log) - d
      /\ \A k \in 1..Len(events) : events[k] = log[d + k]
  BY <1>1, LastOfType
<1> HIDE DEF d
<1>3. \A k \in 1..Len(events) : events[k].timestamp \in Int
  BY <1>2, StampType
<1>4. ASSUME NEW i \in 1..Len(events), NEW j \in 1..Len(events), i <= j
      PROVE  events[i].timestamp <= events[j].timestamp
  <2>1. d + i \in 1..Len(log) /\ d + j \in 1..Len(log) /\ d + i <= d + j
    BY <1>1, <1>2, <1>4
  <2>2. log[d + i].timestamp <= log[d + j].timestamp
    BY <2>1 DEF MetricsInv, LogInOrder
  <2> QED
    BY <1>2, <2>2
<1> QED
  BY <1>1, <1>2, <1>3, <1>4

(* A search among timestamps in order counts those before the place.       *)
LEMMA SearchSplits ==
    ASSUME NEW n \in Nat, NEW ts \in [1..n -> Int], NEW x \in Int,
           \A i, j \in 1..n : i <= j => ts[i] <= ts[j]
    PROVE  /\ BisectLeft(ts, x) \in 0..n /\ BisectRight(ts, x) \in 0..n
           /\ \A k \in 1..n : /\ ts[k] < x <=> k <= BisectLeft(ts, x)
                              /\ ts[k] <= x <=> k <= BisectRight(ts, x)
<1> DEFINE left == [k \in 1..n |-> ts[k] < x]
           right == [k \in 1..n |-> ts[k] <= x]
<1>1. BisectLeft(ts, x) = Bisect(left) /\ BisectRight(ts, x) = Bisect(right)
  BY DEF BisectLeft, BisectRight
<1>2. left \in [1..n -> BOOLEAN] /\ right \in [1..n -> BOOLEAN]
  OBVIOUS
<1>3. \A k \in 1..n : (left[k] <=> ts[k] < x) /\ (right[k] <=> ts[k] <= x)
  BY Zenon
<1> HIDE DEF left, right
<1>4. ASSUME NEW i \in 1..n, NEW j \in 1..n, i <= j
      PROVE  /\ left[j] => left[i]
             /\ right[j] => right[i]
  <2>1. ts[i] <= ts[j] /\ ts[i] \in Int /\ ts[j] \in Int
    BY <1>4
  <2> QED
    BY <2>1, <1>3
<1>5. Bisect(left) \in 0..n /\ \A k \in 1..n : left[k] <=> k <= Bisect(left)
  BY <1>2, <1>4, BisectSplits
<1>6. Bisect(right) \in 0..n /\ \A k \in 1..n : right[k] <=> k <= Bisect(right)
  BY <1>2, <1>4, BisectSplits
<1> QED
  BY <1>1, <1>3, <1>5, <1>6

LEMMA RangeIsShown ==
    ASSUME MetricsInv, NEW start \in Int, NEW end \in Int
    PROVE  \E first \in 1..Len(Latest) + 1, last \in 0..Len(Latest) :
              /\ FilterByTime(start, end) = SubSeq(Latest, first, last)
              /\ \A k \in DOMAIN Latest :
                    k \in first..last <=> /\ start <= Latest[k].timestamp
                                         /\ Latest[k].timestamp <= end
<1> DEFINE n == Len(events)
           L == BisectLeft(Timestamps, start)
           R == BisectRight(Timestamps, end)
<1>1. /\ events \in Seq(RequestEvent) /\ events = Latest
      /\ \A k \in 1..n : events[k].timestamp \in Int
      /\ \A i, j \in 1..n : i <= j => events[i].timestamp <= events[j].timestamp
  BY EventsInOrder
<1>2. n \in Nat /\ DOMAIN events = 1..n
  BY <1>1
<1>3. /\ Timestamps \in [1..n -> Int]
      /\ \A k \in 1..n : Timestamps[k] = events[k].timestamp
  BY <1>1, <1>2 DEF Timestamps
<1>4. \A i, j \in 1..n : i <= j => Timestamps[i] <= Timestamps[j]
  BY <1>1, <1>3
<1> HIDE DEF n
<1>5. /\ L \in 0..n /\ \A k \in 1..n : Timestamps[k] < start <=> k <= L
      /\ R \in 0..n /\ \A k \in 1..n : Timestamps[k] <= end <=> k <= R
  BY <1>2, <1>3, <1>4, SearchSplits
<1>6. FilterByTime(start, end) = SubSeq(Latest, L + 1, R)
  BY <1>1 DEF FilterByTime
<1> HIDE DEF L, R
<1>7. ASSUME NEW k \in 1..n
      PROVE  k \in L + 1 .. R <=> start <= events[k].timestamp /\ events[k].timestamp <= end
  <2>1. events[k].timestamp \in Int
    BY <1>1 DEF n
  <2>2. /\ events[k].timestamp < start <=> k <= L
        /\ events[k].timestamp <= end <=> k <= R
    BY <1>3, <1>5
  <2> QED
    BY <1>5, <2>1, <2>2
<1>8. L + 1 \in 1..n + 1 /\ R \in 0..n
  BY <1>2, <1>5
<1> QED
  BY <1>1, <1>2, <1>6, <1>7, <1>8 DEF n

LEMMA LatestAreShown ==
    ASSUME MetricsInv, NEW n \in Nat \ {0}
    PROVE  QueryRecentRequests(n) =
              [k \in 1..Min({n, Len(Latest)}) |-> log[Len(log) - k + 1]]
<1> DEFINE d == Discarded(Len(log))
           m == Len(events)
           first == IF m - n > 0 THEN m - n ELSE 0
           size == IF n <= m THEN n ELSE m
           slice == SubSeq(events, first + 1, m)
<1>1. log \in Seq(RequestEvent) /\ events = LastOf(log)
  BY DEF MetricsInv
<1>2. /\ d \in Nat /\ events \in Seq(RequestEvent)
      /\ m = Len(log) - d
      /\ \A k \in 1..m : events[k] = log[d + k]
  BY <1>1, LastOfType
<1>3. m \in Nat /\ Len(log) \in Nat
  BY <1>1, <1>2
<1>4. events = Latest
  BY <1>1, LatestIsLast
<1>5. Max({0, m - n}) = first /\ Min({n, m}) = size
  BY <1>3, GreaterOfTwo, LesserOfTwo
<1>6. QueryRecentRequests(n) = Reverse(slice)
  BY <1>5 DEF QueryRecentRequests
<1>7. \A i \in first + 1 .. m : events[i] \in RequestEvent
  BY <1>2, <1>3
<1> HIDE DEF d, m
<1>8. first \in Nat /\ first <= m /\ size = m - first /\ size \in Nat
  BY <1>3
<1> HIDE DEF first, size
<1>9. /\ Len(slice) = IF first + 1 <= m THEN m - (first + 1) + 1 ELSE 0
      /\ \A i \in 1 .. m - (first + 1) + 1 : slice[i] = events[first + 1 + i - 1]
  BY <1>3, <1>7, <1>8, SubSeqProperties
<1>10. Len(slice) = size
  BY <1>3, <1>8, <1>9
<1>11. ASSUME NEW k \in 1..size
       PROVE  slice[size - k + 1] = log[Len(log) - k + 1]
  <2> DEFINE i == size - k + 1
  <2>1. i \in 1 .. m - (first + 1) + 1 /\ first + 1 + i - 1 = m - k + 1
    BY <1>3, <1>8
  <2> HIDE DEF i
  <2>2. slice[i] = events[m - k + 1]
    BY <1>9, <2>1
  <2>3. m - k + 1 \in 1..m /\ d + (m - k + 1) = Len(log) - k + 1
    BY <1>2, <1>3, <1>8
  <2> QED
    BY <1>2, <2>2, <2>3 DEF i
<1>12. Reverse(slice) = [k \in 1..size |-> slice[size - k + 1]]
  BY <1>10 DEF Reverse
<1> HIDE DEF slice
<1> QED
  BY <1>4, <1>5, <1>6, <1>11, <1>12 DEF m

(* The types of the store: it never holds more than MAX_EVENTS records.    *)
THEOREM MetricsTypesHold == MetricsSpec => []MetricsTypeOK
<1>1. ASSUME MetricsInv PROVE MetricsTypeOK
  <2> DEFINE n == Len(log)  m == Len(events)
  <2>1. n \in Nat /\ events \in Seq(RequestEvent) /\ m = n - Discarded(n)
    BY <1>1, LastOfType DEF MetricsInv
  <2> HIDE DEF n, m
  <2>2. m <= MAX_EVENTS
    BY <2>1, Sizes DEF Discarded
  <2> QED
    BY <1>1, <2>1, <2>2 DEF MetricsInv, MetricsTypeOK, m
<1> QED
  BY <1>1, MetricsInvariant, PTL

(* The ends of a range a dashboard request asks for.                       *)
LEMMA RangesAreNumbers ==
    ASSUME MetricsInv, NEW range \in TimeRange
    PROVE  range[1] \in Int /\ range[2] \in Int
<1>1. now \in Int /\ Window \in Int /\ MaxTime \in Nat
  BY Sizes, ClockAssumption DEF MetricsInv
<1> QED
  BY <1>1 DEF TimeRange, ParseTimeParams

(* The halving search on timestamps in order cuts out exactly the records  *)
(* of a time range, ends included; what record_request discards are the    *)
(* oldest, and only beyond MAX_EVENTS.                                     *)
THEOREM NothingIsMissed == MetricsSpec => []NothingMissed
<1>1. ASSUME MetricsInv PROVE NothingMissed
  <2>1. \A range \in TimeRange : range[1] \in Int /\ range[2] \in Int
    BY <1>1, RangesAreNumbers
  <2>2. \A n \in 1..MaxRecords : n \in Nat \ {0}
    BY ClockAssumption
  <2> QED
    BY <1>1, <2>1, <2>2, RangeIsShown, LatestAreShown DEF NothingMissed
<1> QED
  BY <1>1, MetricsInvariant, PTL

-----------------------------------------------------------------------------
(* Sums: the elements of a set, counted by the parts they fall into.       *)

(* A sum over a set, as the folds of the library do it: the set is taken   *)
(* apart in the order of pick.                                             *)
Summing(D, value, pick, sum) ==
    [T \in SUBSET D |-> IF T = {} THEN 0 ELSE value[pick[T]] + sum[T \ {pick[T]}]]

Fibre(P, F, d) == {p \in P : F[p] = d}
Over(P, F, T) == {p \in P : F[p] \in T}
Counted(D, P, F) == [T \in SUBSET D |-> Cardinality(Over(P, F, T))]

(* What falls into T is what falls into d and what falls into the rest.    *)
LEMMA OverSplits ==
    ASSUME NEW P, IsFiniteSet(P), NEW F, NEW T, NEW d \in T
    PROVE  /\ Cardinality(Over(P, F, T)) =
                 Cardinality(Fibre(P, F, d)) + Cardinality(Over(P, F, T \ {d}))
           /\ Cardinality(Fibre(P, F, d)) \in Nat
           /\ Cardinality(Over(P, F, T)) \in Nat
<1> DEFINE A == Fibre(P, F, d)  B == Over(P, F, T \ {d})
<1>1. A \in SUBSET P /\ B \in SUBSET P /\ Over(P, F, T) \in SUBSET P
  BY DEF Fibre, Over
<1>2. IsFiniteSet(A) /\ IsFiniteSet(B) /\ IsFiniteSet(Over(P, F, T))
  BY <1>1, FS_Subset
<1>3. A \cup B = Over(P, F, T) /\ A \cap B = {}
  BY DEF Fibre, Over
<1> HIDE DEF A, B
<1>4. Cardinality(A \cup B) = Cardinality(A) + Cardinality(B) - Cardinality(A \cap B)
  BY <1>2, FS_Union
<1>5. Cardinality(A) \in Nat /\ Cardinality(B) \in Nat /\ Cardinality(Over(P, F, T)) \in Nat
  BY <1>2, FS_CardinalityType
<1>6. Cardinality(A \cap B) = 0
  BY <1>3, FS_EmptySet
<1>7. Cardinality(A \cup B) = Cardinality(A) + Cardinality(B)
  BY <1>4, <1>5, <1>6
<1>8. Cardinality(Over(P, F, T)) = Cardinality(A \cup B)
  BY <1>3
<1> QED
  BY <1>5, <1>7, <1>8 DEF A, B

(* Counting the elements in the order of pick is one way to do that sum.   *)
LEMMA CountingSums ==
    ASSUME NEW D, NEW P, IsFiniteSet(P), NEW F, NEW value, NEW pick,
           \A d \in D : value[d] = Cardinality(Fibre(P, F, d)),
           \A T \in SUBSET D : T # {} => pick[T] \in T
    PROVE  Counted(D, P, F) = Summing(D, value, pick, Counted(D, P, F))
<1> DEFINE count == Counted(D, P, F)
<1>1. ASSUME NEW T \in SUBSET D
      PROVE  count[T] = Summing(D, value, pick, count)[T]
  <2>1. CASE T = {}
    <3>1. Over(P, F, T) = {}
      BY <2>1 DEF Over
    <3> QED
      BY <2>1, <3>1, FS_EmptySet DEF Summing, Counted
  <2>2. CASE T # {}
    <3> DEFINE d == pick[T]
    <3>1. d \in T /\ d \in D /\ T \ {d} \in SUBSET D
      BY <2>2
    <3>2. Summing(D, value, pick, count)[T] = value[d] + count[T \ {d}]
      BY <2>2 DEF Summing
    <3>3. /\ value[d] = Cardinality(Fibre(P, F, d))
          /\ count[T \ {d}] = Cardinality(Over(P, F, T \ {d}))
          /\ count[T] = Cardinality(Over(P, F, T))
      BY <3>1 DEF Counted
    <3> HIDE DEF d, count
    <3> QED
      BY <3>1, <3>2, <3>3, OverSplits
  <2> QED
    BY <2>1, <2>2
<1> QED
  BY <1>1 DEF Summing, Counted

(* Every way to do it gives the same: else take a smallest set where it    *)
(* does not.                                                               *)
LEMMA SummingCounts ==
    ASSUME NEW D, IsFiniteSet(D), NEW P, IsFiniteSet(P), NEW F, NEW value, NEW pick,
           \A p \in P : F[p] \in D,
           \A d \in D : value[d] = Cardinality(Fibre(P, F, d)),
           \A T \in SUBSET D : T # {} => pick[T] \in T,
           NEW sum, sum = Summing(D, value, pick, sum)
    PROVE  sum[D] = Cardinality(P)
<1> DEFINE count == Counted(D, P, F)
           Wrong == {T \in SUBSET D : sum[T] # count[T]}
<1>1. count = Summing(D, value, pick, count)
  BY CountingSums
<1> HIDE DEF count
<1>2. Wrong = {}
  <2> SUFFICES ASSUME Wrong # {} PROVE FALSE
    OBVIOUS
  <2>1. Wrong \subseteq FiniteSubsetsOf(D)
    <3>1. \A T \in Wrong : T \in SUBSET D /\ IsFiniteSet(T)
      BY FS_Subset
    <3> HIDE DEF Wrong
    <3> QED
      BY <3>1 DEF FiniteSubsetsOf
  <2>2. PICK T \in Wrong : \A U \in Wrong : ~ (<<U, T>> \in StrictSubsetOrdering(D))
    <3> HIDE DEF Wrong
    <3> QED
      BY <2>1, FS_StrictSubsetOrderingWellFounded, WFMin
  <2> DEFINE d == pick[T]  U == T \ {d}
  <2>3. sum[T] = Summing(D, value, pick, sum)[T] /\ count[T] = Summing(D, value, pick, count)[T]
    BY <1>1
  <2>4. CASE T = {}
    BY <2>3, <2>4 DEF Summing
  <2>5. CASE T # {}
    <3>1. d \in T /\ U \in SUBSET D
      BY <2>5
    <3>2. U \subseteq T /\ U # T
      BY <3>1
    <3>3. <<U, T>> \in StrictSubsetOrdering(D)
      <4> HIDE DEF U
      <4> QED BY <3>1, <3>2 DEF StrictSubsetOrdering
    <3>4. sum[U] = count[U]
      BY <2>2, <3>1, <3>3
    <3>5. sum[T] = value[d] + sum[U] /\ count[T] = value[d] + count[U]
      BY <2>3, <2>5 DEF Summing
    <3> QED
      BY <3>4, <3>5
  <2> QED
    BY <2>4, <2>5
<1>3. Over(P, F, D) = P
  BY DEF Over
<1> QED
  BY <1>2, <1>3 DEF count, Counted

(* A non-empty part of an interval has a greatest element.                 *)
LEMMA GreatestIn ==
    ASSUME NEW n \in Nat, NEW T \in SUBSET (1..n), T # {}
    PROVE  Max(T) \in T
<1> DEFINE before == [k \in 1..n |-> \E j \in T : k <= j]
<1>1. before \in [1..n -> BOOLEAN]
  OBVIOUS
<1>2. \A k \in 1..n : before[k] <=> \E j \in T : k <= j
  OBVIOUS
<1> HIDE DEF before
<1>3. ASSUME NEW i \in 1..n, NEW j \in 1..n, i <= j, before[j] PROVE before[i]
  <2>1. PICK l \in T : j <= l
    BY <1>2, <1>3
  <2>2. i <= l
    BY <1>3, <2>1
  <2> QED
    BY <1>2, <2>2
<1>4. PICK c \in 0..n : \A k \in 1..n : before[k] <=> k <= c
  BY <1>1, <1>3, FirstPartEnds
<1>5. ASSUME NEW j \in T PROVE j <= c
  <2>1. j \in 1..n /\ j <= j
    OBVIOUS
  <2>2. before[j]
    BY <1>2, <2>1
  <2> QED
    BY <1>4, <2>1, <2>2
<1>6. c \in 1..n /\ c <= c
  <2>1. PICK j \in T : TRUE
    OBVIOUS
  <2> QED
    BY <1>5, <2>1
<1>7. PICK j \in T : c <= j
  <2>1. before[c]
    BY <1>4, <1>6
  <2> QED
    BY <1>2, <1>6, <2>1
<1>8. j = c
  BY <1>5, <1>6, <1>7
<1>9. \A y \in T : j >= y
  BY <1>5, <1>8
<1>10. \E x \in T : \A y \in T : x >= y
  BY <1>9
<1> QED
  BY <1>10 DEF Max

(* The sum of the sizes of the fibres is the size of the whole.            *)
Sized(D, P, F, value) ==
    /\ IsFiniteSet(D) /\ IsFiniteSet(P)
    /\ \A p \in P : F[p] \in D
    /\ \A d \in D : value[d] = Cardinality(Fibre(P, F, d))

Picking(D, pick) == \A T \in SUBSET D : T # {} => pick[T] \in T

SumsTo(D, value, pick, total) ==
    /\ \E sum : sum = Summing(D, value, pick, sum)
    /\ \A sum : sum = Summing(D, value, pick, sum) => sum[D] = total

LEMMA SizesSum ==
    ASSUME NEW D, NEW P, NEW F, NEW value, Sized(D, P, F, value),
           NEW pick, Picking(D, pick)
    PROVE  SumsTo(D, value, pick, Cardinality(P))
<1>1. \E sum : sum = Summing(D, value, pick, sum)
  <2>1. Counted(D, P, F) = Summing(D, value, pick, Counted(D, P, F))
    BY CountingSums DEF Sized, Picking
  <2> QED
    BY <2>1
<1>2. ASSUME NEW sum, sum = Summing(D, value, pick, sum)
      PROVE  sum[D] = Cardinality(P)
  BY <1>2, SummingCounts DEF Sized, Picking
<1> QED
  BY <1>1, <1>2 DEF SumsTo

PickingGreatest(D, pick) == Picking(D, pick) /\ pick = [T \in SUBSET D |-> Max(T)]

(* The folds over sequences take the last place that is left.              *)
LEMMA GreatestPicks ==
    ASSUME NEW n \in Nat
    PROVE  PickingGreatest(1..n, [T \in SUBSET (1..n) |-> Max(T)])
<1>1. \A T \in SUBSET (1..n) : T # {} => Max(T) \in T
  BY GreatestIn
<1> QED
  BY <1>1 DEF Picking, PickingGreatest

-----------------------------------------------------------------------------
(* The timeline.                                                           *)

(* What a time range shows.                                                *)
LEMMA RangeType ==
    ASSUME MetricsInv, NEW start \in Int, NEW end \in Int
    PROVE  LET s == FilterByTime(start, end) IN
           /\ s \in Seq(RequestEvent)
           /\ \A k \in 1..Len(s) : /\ s[k].of \in Recordable
                                   /\ s[k].timestamp \in Int
                                   /\ start <= s[k].timestamp /\ s[k].timestamp <= end
<1> DEFINE s == FilterByTime(start, end)
<1>1. PICK first \in 1..Len(Latest) + 1, last \in 0..Len(Latest) :
         /\ s = SubSeq(Latest, first, last)
         /\ \A k \in DOMAIN Latest :
               k \in first..last <=> /\ start <= Latest[k].timestamp
                                    /\ Latest[k].timestamp <= end
  BY RangeIsShown
<1>2. Latest \in Seq(RequestEvent)
  BY EventsInOrder
<1>3. \A k \in first..last : k \in DOMAIN Latest /\ Latest[k] \in RequestEvent
  BY <1>2
<1> HIDE DEF s
<1>4. /\ s \in Seq(RequestEvent)
      /\ Len(s) = IF first <= last THEN last - first + 1 ELSE 0
      /\ \A k \in 1..last - first + 1 : s[k] = Latest[first + k - 1]
  BY <1>1, <1>3, SubSeqProperties
<1>5. ASSUME NEW k \in 1..Len(s)
      PROVE  /\ s[k].of \in Recordable /\ s[k].timestamp \in Int
             /\ start <= s[k].timestamp /\ s[k].timestamp <= end
  <2>0. k \in 1..last - first + 1 /\ k \in Int
    BY <1>4
  <2>1. first + k - 1 \in first..last /\ s[k] = Latest[first + k - 1]
    BY <1>4, <2>0
  <2>2. start <= s[k].timestamp /\ s[k].timestamp <= end
    BY <1>1, <1>3, <2>1
  <2>3. s[k] \in RequestEvent
    BY <1>4
  <2>4. \A e \in RequestEvent : e.of \in Recordable /\ e.timestamp \in Int
    BY DEF RequestEvent
  <2> QED
    BY <2>2, <2>3, <2>4
<1> QED
  BY <1>4, <1>5 DEF s

(* Division with a remainder.                                              *)
LEMMA Division ==
    ASSUME NEW x \in Int, NEW u \in Nat \ {0}, NEW q, q = x \div u
    PROVE  /\ q \in Int /\ u * q \in Int
           /\ x % u = x - u * q
           /\ u * q <= x /\ x < u * q + u
<1>1. q \in Int /\ x % u = x - u * q
  OBVIOUS
<1>2. u * q <= x /\ x < u * q + u
  OBVIOUS
<1> QED
  BY <1>1, <1>2

LEMMA ProductType ==
    ASSUME NEW i \in Nat, NEW j \in Nat
    PROVE  i * j \in Nat
OBVIOUS

(* Multiples of u are ordered as their factors are.                        *)
LEMMA FactorOrder ==
    ASSUME NEW u \in Nat \ {0}, NEW i \in Int, NEW j \in Int, u * i < u * j + u
    PROVE  i <= j
<1> SUFFICES ASSUME j + 1 <= i PROVE FALSE
  OBVIOUS
<1>1. u * (i - (j + 1)) >= 0
  <2>1. u \in Nat /\ i - (j + 1) \in Nat
    OBVIOUS
  <2>2. u * (i - (j + 1)) \in Nat
    BY <2>1, ProductType
  <2> QED
    BY <2>2
<1>2. u * (i - (j + 1)) = u * i - u * j - u
  OBVIOUS
<1>3. u * i \in Int /\ u * j \in Int
  OBVIOUS
<1> QED
  BY <1>1, <1>2, <1>3

(* A bucket is a number of steps of the timeline long: an hour, or the day *)
(* whose hours are listed for a bucket nobody knows.                       *)
LEMMA Units ==
    ASSUME NEW bucket \in Bucket
    PROVE  /\ Unit(bucket) \in Nat \ {0} /\ Delta(bucket) \in Nat \ {0}
           /\ \E c \in Nat : Unit(bucket) = Delta(bucket) * c
           /\ \A x \in Int : RoundedDown(x, bucket) = x - (x % Unit(bucket))
<1>1. Minute \in Nat \ {0} /\ Hour \in Nat \ {0} /\ Day \in Nat \ {0}
  BY SizeAssumption
<1>2. \A x : RoundedDown(x, bucket) = x - (x % Unit(bucket))
  BY DEF RoundedDown
<1>3. \E c \in Nat : Day = Hour * c
  <2>1. PICK q : q = Day \div Hour
    OBVIOUS
  <2>2. q \in Int /\ Hour * q \in Int /\ Day % Hour = Day - Hour * q
    BY <1>1, <2>1, Division
  <2>3. Day = Hour * q
    BY <1>1, <2>2, DayAssumption
  <2>4. q >= 0
    <3>1. Hour * 0 < Hour * q + Hour
      BY <1>1, <2>3
    <3> QED
      BY <1>1, <2>2, <3>1, FactorOrder
  <2> QED
    BY <2>2, <2>3, <2>4
<1>4. \A n \in Nat : \E c \in Nat : n = n * c
  <2>1. \A n \in Nat : n = n * 1
    OBVIOUS
  <2> QED
    BY <2>1
<1>5. CASE bucket \in {"minute", "hour", "day"}
  <2>1. Unit(bucket) = Delta(bucket) /\ Unit(bucket) \in {Minute, Hour, Day}
    BY <1>5 DEF Unit, Delta
  <2> QED
    BY <1>1, <1>2, <1>4, <2>1
<1>6. CASE bucket = "other"
  <2>1. Unit(bucket) = Day /\ Delta(bucket) = Hour
    BY <1>6 DEF Unit, Delta
  <2> QED
    BY <1>1, <1>2, <1>3, <2>1
<1> QED
  BY <1>5, <1>6 DEF Bucket

(* Every moment of a range falls into one of the buckets that start at the *)
(* beginning of the range.                                                 *)
EntryAt(x, start, bucket) ==
    (RoundedDown(x, bucket) - RoundedDown(start, bucket)) \div Delta(bucket) + 1
LastEntry(start, end, bucket) == (end - RoundedDown(start, bucket)) \div Delta(bucket) + 1
Beginning(d, start, bucket) == RoundedDown(start, bucket) + (d - 1) * Delta(bucket)

\* The entry of a moment is one of those listed, and the only one it is shown by.
IsShown(x, start, end, bucket, d) ==
    /\ RoundedDown(start, bucket) <= end
    /\ EntryAt(x, start, bucket) \in 1..LastEntry(start, end, bucket)
    /\ EntryAt(x, start, bucket) = d
          <=> RoundedDown(x, bucket) = Beginning(d, start, bucket)

LEMMA OneBucket ==
    ASSUME NEW bucket \in Bucket, NEW start \in Int, NEW end \in Int, NEW x \in Int,
           start <= x, x <= end, NEW d \in Int
    PROVE  IsShown(x, start, end, bucket, d)
<1> DEFINE u == Unit(bucket)  delta == Delta(bucket)
           first == RoundedDown(start, bucket)  own == RoundedDown(x, bucket)
           p == start \div u  q == x \div u
           steps == (end - first) \div delta
           place == (own - first) \div delta
<1>1. /\ u \in Nat \ {0} /\ delta \in Nat \ {0}
      /\ \E c \in Nat : u = delta * c
      /\ first = start - (start % u) /\ own = x - (x % u)
  BY Units
<1> HIDE DEF u, delta, first, own
<1>2. PICK c \in Nat : u = delta * c
  BY <1>1
<1>3. /\ p \in Int /\ q \in Int
      /\ first = u * p /\ own = u * q /\ start < u * p + u /\ x < u * q + u
      /\ first <= start /\ own <= x /\ first \in Int /\ own \in Int
  <2>1. /\ p \in Int /\ u * p \in Int /\ start % u = start - u * p
        /\ u * p <= start /\ start < u * p + u
    BY <1>1, Division
  <2>2. /\ q \in Int /\ u * q \in Int /\ x % u = x - u * q
        /\ u * q <= x /\ x < u * q + u
    BY <1>1, Division
  <2> HIDE DEF p, q
  <2>3. first = u * p /\ own = u * q
    BY <1>1, <2>1, <2>2
  <2> QED
    BY <2>1, <2>2, <2>3
<1> HIDE DEF p, q
<1>4. p <= q
  <2>1. u * p < u * q + u
    BY <1>1, <1>3
  <2> QED
    BY <1>1, <1>3, <2>1, FactorOrder
<1> DEFINE i == c * (q - p)
<1>5. i \in Nat /\ own - first = delta * i
  <2>1. i \in Nat
    BY <1>2, <1>3, <1>4
  <2>2. u * q - u * p = delta * (c * (q - p))
    BY <1>1, <1>2, <1>3
  <2> QED
    BY <1>3, <2>1, <2>2
<1> HIDE DEF i
<1>6. /\ steps \in Int /\ end - first < delta * steps + delta
  <2>1. end - first \in Int
    BY <1>3
  <2>2. steps \in Int /\ end - first < delta * steps + delta
    BY <1>1, <2>1, Division
  <2> QED
    BY <2>2
<1> HIDE DEF steps
<1>7. i <= steps
  <2>1. delta * i < delta * steps + delta
    BY <1>1, <1>3, <1>5, <1>6
  <2> QED
    BY <1>1, <1>5, <1>6, <2>1, FactorOrder
<1>8. \A j \in Int : delta * j = delta * i <=> j = i
  BY <1>1, <1>5
<1>9. place = i
  <2>1. own - first \in Int
    BY <1>3
  <2>2. /\ place \in Int /\ delta * place \in Int
        /\ delta * place <= own - first /\ own - first < delta * place + delta
    BY <1>1, <2>1, Division
  <2> HIDE DEF place
  <2>4. delta * i < delta * place + delta /\ delta * place < delta * i + delta
    <3>1. delta * i \in Int /\ delta \in Nat \ {0}
      BY <1>1, <1>5
    <3> QED
      BY <1>5, <2>2, <3>1
  <2>3. i <= place /\ place <= i
    BY <1>1, <1>5, <2>2, <2>4, FactorOrder
  <2> QED
    BY <1>5, <2>2, <2>3
<1> HIDE DEF place
<1>10. own = first + (d - 1) * delta <=> place + 1 = d
  <2>1. (d - 1) * delta = delta * (d - 1) /\ delta * (d - 1) \in Int
    BY <1>1
  <2>2. own = first + (d - 1) * delta <=> delta * (d - 1) = delta * i
    BY <1>3, <1>5, <2>1
  <2>3. delta * (d - 1) = delta * i <=> d - 1 = i
    BY <1>8
  <2> QED
    BY <1>5, <1>9, <2>2, <2>3
<1>11. first <= end /\ place + 1 \in 1..(steps + 1)
  BY <1>3, <1>5, <1>6, <1>7, <1>9
<1> QED
  BY <1>10, <1>11 DEF first, own, place, steps, delta, EntryAt, LastEntry, Beginning,
                         IsShown

(* The totals over sequences are such sums.                                *)
RequestsIn(t) == Total(t, LAMBDA e : e.request_count)
SuccessesIn(t) == Total(t, LAMBDA e : e.success_count)
FailuresIn(t) == Total(t, LAMBDA e : e.failure_count)
LlmCallsIn(t) == Total(t, LAMBDA e : Len(e.of.llm_calls))
SkillCallsIn(t) == Total(t, LAMBDA e : Len(e.of.skill_calls))

LEMMA TotalRequests ==
    ASSUME NEW D, NEW pick, PickingGreatest(D, pick),
           NEW P, NEW F, NEW value, Sized(D, P, F, value),
           NEW t, DOMAIN t = D, \A d \in D : t[d].request_count = value[d]
    PROVE  RequestsIn(t) = Cardinality(P)
<1> DEFINE Fold(sum) == [T \in SUBSET D |->
               IF T = {} THEN 0 ELSE t[Max(T)].request_count + sum[T \ {Max(T)}]]
           chosen == CHOOSE sum : sum = Fold(sum)
<1>1. \A sum : Fold(sum) = Summing(D, value, pick, sum)
  BY DEF Summing, Picking, PickingGreatest
<1>2. RequestsIn(t) = chosen[D]
  BY DEF RequestsIn, Total, FoldLeft, MapThenFoldSet
<1> HIDE DEF Fold
<1>3. SumsTo(D, value, pick, Cardinality(P))
  BY SizesSum DEF PickingGreatest
<1>4. chosen = Fold(chosen)
  BY <1>1, <1>3 DEF SumsTo
<1> HIDE DEF chosen
<1> QED
  BY <1>1, <1>2, <1>3, <1>4 DEF SumsTo

LEMMA TotalSuccesses ==
    ASSUME NEW D, NEW pick, PickingGreatest(D, pick),
           NEW P, NEW F, NEW value, Sized(D, P, F, value),
           NEW t, DOMAIN t = D, \A d \in D : t[d].success_count = value[d]
    PROVE  SuccessesIn(t) = Cardinality(P)
<1> DEFINE Fold(sum) == [T \in SUBSET D |->
               IF T = {} THEN 0 ELSE t[Max(T)].success_count + sum[T \ {Max(T)}]]
           chosen == CHOOSE sum : sum = Fold(sum)
<1>1. \A sum : Fold(sum) = Summing(D, value, pick, sum)
  BY DEF Summing, Picking, PickingGreatest
<1>2. SuccessesIn(t) = chosen[D]
  BY DEF SuccessesIn, Total, FoldLeft, MapThenFoldSet
<1> HIDE DEF Fold
<1>3. SumsTo(D, value, pick, Cardinality(P))
  BY SizesSum DEF PickingGreatest
<1>4. chosen = Fold(chosen)
  BY <1>1, <1>3 DEF SumsTo
<1> HIDE DEF chosen
<1> QED
  BY <1>1, <1>2, <1>3, <1>4 DEF SumsTo

LEMMA TotalFailures ==
    ASSUME NEW D, NEW pick, PickingGreatest(D, pick),
           NEW P, NEW F, NEW value, Sized(D, P, F, value),
           NEW t, DOMAIN t = D, \A d \in D : t[d].failure_count = value[d]
    PROVE  FailuresIn(t) = Cardinality(P)
<1> DEFINE Fold(sum) == [T \in SUBSET D |->
               IF T = {} THEN 0 ELSE t[Max(T)].failure_count + sum[T \ {Max(T)}]]
           chosen == CHOOSE sum : sum = Fold(sum)
<1>1. \A sum : Fold(sum) = Summing(D, value, pick, sum)
  BY DEF Summing, Picking, PickingGreatest
<1>2. FailuresIn(t) = chosen[D]
  BY DEF FailuresIn, Total, FoldLeft, MapThenFoldSet
<1> HIDE DEF Fold
<1>3. SumsTo(D, value, pick, Cardinality(P))
  BY SizesSum DEF PickingGreatest
<1>4. chosen = Fold(chosen)
  BY <1>1, <1>3 DEF SumsTo
<1> HIDE DEF chosen
<1> QED
  BY <1>1, <1>2, <1>3, <1>4 DEF SumsTo

LEMMA TotalLlmCalls ==
    ASSUME NEW D, NEW pick, PickingGreatest(D, pick),
           NEW P, NEW F, NEW value, Sized(D, P, F, value),
           NEW t, DOMAIN t = D, \A d \in D : Len(t[d].of.llm_calls) = value[d]
    PROVE  LlmCallsIn(t) = Cardinality(P)
<1> DEFINE Fold(sum) == [T \in SUBSET D |->
               IF T = {} THEN 0 ELSE Len(t[Max(T)].of.llm_calls) + sum[T \ {Max(T)}]]
           chosen == CHOOSE sum : sum = Fold(sum)
<1>1. \A sum : Fold(sum) = Summing(D, value, pick, sum)
  BY DEF Summing, Picking, PickingGreatest
<1>2. LlmCallsIn(t) = chosen[D]
  BY DEF LlmCallsIn, Total, FoldLeft, MapThenFoldSet
<1> HIDE DEF Fold
<1>3. SumsTo(D, value, pick, Cardinality(P))
  BY SizesSum DEF PickingGreatest
<1>4. chosen = Fold(chosen)
  BY <1>1, <1>3 DEF SumsTo
<1> HIDE DEF chosen
<1> QED
  BY <1>1, <1>2, <1>3, <1>4 DEF SumsTo

LEMMA TotalSkillCalls ==
    ASSUME NEW D, NEW pick, PickingGreatest(D, pick),
           NEW P, NEW F, NEW value, Sized(D, P, F, value),
           NEW t, DOMAIN t = D, \A d \in D : Len(t[d].of.skill_calls) = value[d]
    PROVE  SkillCallsIn(t) = Cardinality(P)
<1> DEFINE Fold(sum) == [T \in SUBSET D |->
               IF T = {} THEN 0 ELSE Len(t[Max(T)].of.skill_calls) + sum[T \ {Max(T)}]]
           chosen == CHOOSE sum : sum = Fold(sum)
<1>1. \A sum : Fold(sum) = Summing(D, value, pick, sum)
  BY DEF Summing, Picking, PickingGreatest
<1>2. SkillCallsIn(t) = chosen[D]
  BY DEF SkillCallsIn, Total, FoldLeft, MapThenFoldSet
<1> HIDE DEF Fold
<1>3. SumsTo(D, value, pick, Cardinality(P))
  BY SizesSum DEF PickingGreatest
<1>4. chosen = Fold(chosen)
  BY <1>1, <1>3 DEF SumsTo
<1> HIDE DEF chosen
<1> QED
  BY <1>1, <1>2, <1>3, <1>4 DEF SumsTo

(* The entries of the timeline.                                            *)
EntryCount(start, end, bucket) ==
    IF RoundedDown(start, bucket) > end \/ FilterByTime(start, end) = <<>> THEN 0
    ELSE LastEntry(start, end, bucket)

\* The number of the entry that shows a record.
EntryOf(s, start, bucket) == [k \in DOMAIN s |-> EntryAt(s[k].timestamp, start, bucket)]

LEMMA RoundedType ==
    ASSUME NEW start \in Int, NEW bucket \in Bucket
    PROVE  RoundedDown(start, bucket) \in Int
<1>1. PICK p : p = start \div Unit(bucket)
  OBVIOUS
<1>2. /\ RoundedDown(start, bucket) = start - (start % Unit(bucket))
      /\ Unit(bucket) \in Nat \ {0}
  BY Units
<1>3. start % Unit(bucket) = start - Unit(bucket) * p /\ Unit(bucket) * p \in Int
  BY <1>1, <1>2, Division
<1> QED
  BY <1>2, <1>3

LEMMA EntryCountType ==
    ASSUME NEW start \in Int, NEW end \in Int, NEW bucket \in Bucket
    PROVE  EntryCount(start, end, bucket) \in Nat
<1> DEFINE first == RoundedDown(start, bucket)  q == (end - first) \div Delta(bucket)
<1>1. first \in Int /\ Delta(bucket) \in Nat \ {0}
  BY Units, RoundedType
<1> HIDE DEF first
<1>2. end - first \in Int
  BY <1>1
<1>3. q \in Int /\ end - first < Delta(bucket) * q + Delta(bucket)
  BY <1>1, <1>2, Division
<1> HIDE DEF q
<1>4. CASE first > end
  BY <1>4 DEF EntryCount, first
<1>5. CASE ~ (first > end)
  <2>1. Delta(bucket) * 0 < Delta(bucket) * q + Delta(bucket)
    <3>1. Delta(bucket) * q \in Int /\ Delta(bucket) * 0 = 0
      BY <1>1, <1>3
    <3> QED
      BY <1>1, <1>2, <1>3, <1>5, <3>1
  <2>2. 0 <= q
    BY <1>1, <1>3, <2>1, FactorOrder
  <2>3. EntryCount(start, end, bucket) \in {0, q + 1}
    BY DEF EntryCount, first, q, LastEntry
  <2> QED
    BY <1>3, <2>2, <2>3
<1> QED
  BY <1>4, <1>5

Shown(s, start, bucket, d) ==
    {k \in DOMAIN s : RoundedDown(s[k].timestamp, bucket) = Beginning(d, start, bucket)}

(* A record of the range is shown by the entry EntryOf names, and by no    *)
(* other.                                                                  *)
LEMMA EntryShows ==
    ASSUME MetricsInv, NEW start \in Int, NEW end \in Int, NEW bucket \in Bucket,
           NEW s, s = FilterByTime(start, end), NEW k \in DOMAIN s
    PROVE  LET entry == EntryOf(s, start, bucket) IN
           /\ entry[k] \in 1..EntryCount(start, end, bucket)
           /\ \A d \in 1..EntryCount(start, end, bucket) :
                 entry[k] = d <=> k \in Shown(s, start, bucket, d)
<1> DEFINE entry == EntryOf(s, start, bucket)
           size == EntryCount(start, end, bucket)
<1>1. /\ s \in Seq(RequestEvent)
      /\ \A i \in 1..Len(s) : /\ s[i].timestamp \in Int
                              /\ start <= s[i].timestamp /\ s[i].timestamp <= end
  BY RangeType
<1> DEFINE x == s[k].timestamp
<1>2. x \in Int /\ start <= x /\ x <= end /\ s # <<>>
  BY <1>1
<1>3. entry[k] = EntryAt(x, start, bucket)
  BY DEF EntryOf
<1> HIDE DEF x, entry
<1>4. /\ RoundedDown(start, bucket) <= end
      /\ EntryAt(x, start, bucket) \in 1..LastEntry(start, end, bucket)
      /\ \A d \in Int : EntryAt(x, start, bucket) = d
                           <=> RoundedDown(x, bucket) = Beginning(d, start, bucket)
  <2>1. \A d \in Int : IsShown(x, start, end, bucket, d)
    BY <1>2, OneBucket
  <2>2. 0 \in Int
    OBVIOUS
  <2> QED
    BY <2>1, <2>2 DEF IsShown
<1>5. size = LastEntry(start, end, bucket)
  <2>1. ~ (RoundedDown(start, bucket) > end)
    BY <1>4, RoundedType
  <2> QED
    BY <1>2, <2>1 DEF EntryCount
<1>6. \A d \in 1..size : d \in Int
  BY EntryCountType
<1>7. \A d : k \in Shown(s, start, bucket, d) <=> RoundedDown(x, bucket) = Beginning(d, start, bucket)
  BY DEF Shown, x
<1> HIDE DEF size
<1> QED
  BY <1>3, <1>4, <1>5, <1>6, <1>7 DEF entry, size

LEMMA EntriesShown ==
    ASSUME NEW start, NEW end, NEW bucket,
           NEW s, s = FilterByTime(start, end)
    PROVE  LET timeline == QueryTimeline(start, end, bucket)
               shown(d) == Shown(s, start, bucket, d)
           IN  /\ DOMAIN timeline = 1..EntryCount(start, end, bucket)
               /\ \A d \in 1..EntryCount(start, end, bucket) :
                     /\ timeline[d].request_count = Cardinality(shown(d))
                     /\ timeline[d].success_count =
                           Cardinality({k \in shown(d) : Completed(s[k])})
                     /\ timeline[d].failure_count =
                           Cardinality(shown(d)) - Cardinality({k \in shown(d) : Completed(s[k])})
BY DEF QueryTimeline, EntryCount, LastEntry, Beginning, Shown

(* One part of the records of a range, as the entries show it.             *)
LEMMA PartShown ==
    ASSUME MetricsInv, NEW start \in Int, NEW end \in Int, NEW bucket \in Bucket,
           NEW s, s = FilterByTime(start, end), NEW P \in SUBSET DOMAIN s,
           NEW D, D = 1..EntryCount(start, end, bucket), NEW value,
           \A d \in D : value[d] = Cardinality({k \in P : k \in Shown(s, start, bucket, d)})
    PROVE  /\ Sized(D, P, EntryOf(s, start, bucket), value)
           /\ IsFiniteSet(P)
           /\ \A d : IsFiniteSet(Shown(s, start, bucket, d))
<1> DEFINE entry == EntryOf(s, start, bucket)
<1>1. \A k \in DOMAIN s :
         /\ entry[k] \in D
         /\ \A d \in D : entry[k] = d <=> k \in Shown(s, start, bucket, d)
  BY EntryShows
<1>2. IsFiniteSet(D) /\ IsFiniteSet(DOMAIN s)
  <2>1. s \in Seq(RequestEvent)
    BY RangeType
  <2>2. IsFiniteSet(DOMAIN s)
    BY <2>1, FS_Interval
  <2> QED
    BY <2>2, EntryCountType, FS_Interval
<1>3. IsFiniteSet(P)
  BY <1>2, FS_Subset
<1> HIDE DEF entry
<1>4. \A d \in D : Fibre(P, entry, d) = {k \in P : k \in Shown(s, start, bucket, d)}
  BY <1>1 DEF Fibre
<1>5. Sized(D, P, entry, value)
  BY <1>1, <1>2, <1>3, <1>4 DEF Sized
<1>6. \A d : Shown(s, start, bucket, d) \in SUBSET DOMAIN s
  BY DEF Shown
<1> QED
  BY <1>2, <1>3, <1>5, <1>6, FS_Subset DEF entry

(* What is left of a finite set without a part of it.                      *)
LEMMA PartsSized ==
    ASSUME NEW A, IsFiniteSet(A), NEW B, B \subseteq A
    PROVE  /\ Cardinality(A \ B) = Cardinality(A) - Cardinality(B)
           /\ Cardinality(B) \in Nat /\ Cardinality(A) \in Nat
<1>1. A \cap B = B
  OBVIOUS
<1> QED
  BY <1>1, FS_Difference, FS_Subset, FS_CardinalityType

(* The three columns of the timeline, each the sum of the sizes of parts   *)
(* of the records, of those completed, and of the others.                  *)
LEMMA OneTimeline ==
    ASSUME MetricsInv, NEW start \in Int, NEW end \in Int, NEW bucket \in Bucket
    PROVE  LET summary == QuerySummary(start, end)
               timeline == QueryTimeline(start, end, bucket)
           IN /\ summary.total_requests = Total(timeline, LAMBDA b : b.request_count)
              /\ summary.success_count = Total(timeline, LAMBDA b : b.success_count)
              /\ summary.failure_count = Total(timeline, LAMBDA b : b.failure_count)
<1> DEFINE s == FilterByTime(start, end)
           timeline == QueryTimeline(start, end, bucket)
           summary == QuerySummary(start, end)
           n == EntryCount(start, end, bucket)
           D == 1..n
           pick == [T \in SUBSET D |-> Max(T)]
           All == DOMAIN s
           Good == {k \in All : Completed(s[k])}
           Bad == All \ Good
           entry == EntryOf(s, start, bucket)
           shown(d) == Shown(s, start, bucket, d)
           requests == [d \in D |-> timeline[d].request_count]
           successes == [d \in D |-> timeline[d].success_count]
           failures == [d \in D |-> timeline[d].failure_count]
<1>1. /\ DOMAIN timeline = D
      /\ \A d \in D :
            /\ timeline[d].request_count = Cardinality(shown(d))
            /\ timeline[d].success_count = Cardinality({k \in shown(d) : Completed(s[k])})
            /\ timeline[d].failure_count =
                  Cardinality(shown(d)) - Cardinality({k \in shown(d) : Completed(s[k])})
  BY EntriesShown
<1>2. /\ summary.total_requests = Len(s)
      /\ summary.success_count = Cardinality(Good)
      /\ summary.failure_count = Len(s) - Cardinality(Good)
  BY ZenonT(30) DEF QuerySummary, Count
<1>3. PickingGreatest(D, pick)
  BY EntryCountType, GreatestPicks
<1>4. s \in Seq(RequestEvent) /\ DOMAIN s = 1..Len(s) /\ Len(s) \in Nat
  <2>1. s \in Seq(RequestEvent)
    BY RangeType
  <2> QED
    BY <2>1
<1>5. Cardinality(All) = Len(s) /\ IsFiniteSet(All)
  <2> HIDE DEF s
  <2> QED
    BY <1>4, FS_Interval, SMTT(30)
<1>6. Good \in SUBSET All /\ Bad \in SUBSET All
  OBVIOUS
<1>7. s = FilterByTime(start, end)
  OBVIOUS
<1> HIDE DEF s, timeline, summary, D, pick, entry, n
<1>8. \A d : shown(d) \in SUBSET All
  BY DEF Shown
<1>9. /\ \A d \in D : {k \in All : k \in shown(d)} = shown(d)
      /\ \A d \in D : {k \in Good : k \in shown(d)} = {k \in shown(d) : Completed(s[k])}
      /\ \A d \in D : {k \in Bad : k \in shown(d)} = shown(d) \ {k \in shown(d) : Completed(s[k])}
  BY <1>8
<1>10. Sized(D, All, entry, requests)
  <2>1. \A d \in D : requests[d] = Cardinality({k \in All : k \in Shown(s, start, bucket, d)})
    BY <1>1, <1>9
  <2> HIDE DEF requests
  <2> QED
    BY <1>7, <2>1, PartShown DEF D, entry, n
<1>11. Sized(D, Good, entry, successes)
  <2>1. \A d \in D : successes[d] = Cardinality({k \in Good : k \in Shown(s, start, bucket, d)})
    BY <1>1, <1>9
  <2> HIDE DEF successes, Good
  <2> QED
    BY <1>6, <1>7, <2>1, PartShown DEF D, entry, n
<1>12. Sized(D, Bad, entry, failures)
  <2>1. \A d \in D : failures[d] = Cardinality({k \in Bad : k \in Shown(s, start, bucket, d)})
    <3> SUFFICES ASSUME NEW d \in D
                 PROVE  failures[d] = Cardinality({k \in Bad : k \in shown(d)})
      OBVIOUS
    <3> DEFINE A == shown(d)  B == {k \in A : Completed(s[k])}
    <3>1. failures[d] = Cardinality(A) - Cardinality(B)
      BY <1>1
    <3>2. IsFiniteSet(A)
      BY <1>5, <1>8, FS_Subset
    <3>3. Cardinality(A \ B) = Cardinality(A) - Cardinality(B)
      <4>1. B \subseteq A
        OBVIOUS
      <4> HIDE DEF A, B
      <4> QED
        BY <3>2, <4>1, PartsSized
    <3> QED
      BY <1>9, <3>1, <3>3
  <2> HIDE DEF failures, Bad
  <2> QED
    BY <1>6, <1>7, <2>1, PartShown DEF D, entry, n
<1>13. RequestsIn(timeline) = Cardinality(All)
  <2>1. DOMAIN timeline = D /\ \A d \in D : timeline[d].request_count = requests[d]
    BY <1>1
  <2> HIDE DEF requests, All
  <2> QED
    BY <1>3, <1>10, <2>1, TotalRequests
<1>14. SuccessesIn(timeline) = Cardinality(Good)
  <2>1. DOMAIN timeline = D /\ \A d \in D : timeline[d].success_count = successes[d]
    BY <1>1
  <2> HIDE DEF successes, Good
  <2> QED
    BY <1>3, <1>11, <2>1, TotalSuccesses
<1>15. FailuresIn(timeline) = Cardinality(Bad)
  <2>1. DOMAIN timeline = D /\ \A d \in D : timeline[d].failure_count = failures[d]
    BY <1>1
  <2> HIDE DEF failures, Bad
  <2> QED
    BY <1>3, <1>12, <2>1, TotalFailures
<1>16. Cardinality(Bad) = Len(s) - Cardinality(Good)
  <2> HIDE DEF All, Good
  <2> QED
    BY <1>5, <1>6, PartsSized
<1>17. /\ summary.total_requests = RequestsIn(timeline)
       /\ summary.success_count = SuccessesIn(timeline)
       /\ summary.failure_count = FailuresIn(timeline)
  BY <1>2, <1>5, <1>13, <1>14, <1>15, <1>16
<1> QED
  BY <1>17 DEF summary, timeline, RequestsIn, SuccessesIn, FailuresIn

-----------------------------------------------------------------------------
(* The calls.                                                              *)

CallAt(lists, p) == lists[p[1]][p[2]]
RequestOf(lists) == [p \in CallPlaces(lists) |-> p[1]]
CalleeOf(lists) == [p \in CallPlaces(lists) |-> CallAt(lists, p).callee]
Lengths(lists) == [k \in DOMAIN lists |-> Len(lists[k])]

LEMMA PlacesOf ==
    ASSUME NEW lists, NEW p
    PROVE  p \in CallPlaces(lists) <=>
              \E k \in DOMAIN lists : \E i \in DOMAIN lists[k] : p = <<k, i>>
BY DEF CallPlaces

(* There are finitely many, as many of a request as its list is long.      *)
LEMMA PlacesFinite ==
    ASSUME NEW lists, IsFiniteSet(DOMAIN lists),
           NEW S, \A k \in DOMAIN lists : lists[k] \in Seq(S)
    PROVE  /\ IsFiniteSet(CallPlaces(lists))
           /\ \A k \in DOMAIN lists : Cardinality({k} \X DOMAIN lists[k]) = Len(lists[k])
<1> DEFINE row == [k \in DOMAIN lists |-> {k} \X DOMAIN lists[k]]
           rows == {row[k] : k \in DOMAIN lists}
<1>1. ASSUME NEW k \in DOMAIN lists
      PROVE  /\ IsFiniteSet({k} \X DOMAIN lists[k])
             /\ Cardinality({k} \X DOMAIN lists[k]) = Len(lists[k])
  <2>1. DOMAIN lists[k] = 1..Len(lists[k]) /\ Len(lists[k]) \in Nat
    OBVIOUS
  <2>2. IsFiniteSet(DOMAIN lists[k]) /\ Cardinality(DOMAIN lists[k]) = Len(lists[k])
    <3> DEFINE m == Len(lists[k])
    <3>1. DOMAIN lists[k] = 1..m /\ m \in Nat
      BY <2>1
    <3> HIDE DEF m
    <3>2. IsFiniteSet(1..m) /\ Cardinality(1..m) = m
      BY <3>1, FS_Interval
    <3> QED
      BY <3>1, <3>2 DEF m
  <2>3. IsFiniteSet({k}) /\ Cardinality({k}) = 1
    BY FS_Singleton
  <2> DEFINE A == {k}  B == DOMAIN lists[k]
  <2> HIDE DEF A, B
  <2>4. IsFiniteSet(A \X B) /\ Cardinality(A \X B) = Cardinality(A) * Cardinality(B)
    <3>1. IsFiniteSet(A) /\ IsFiniteSet(B)
      BY <2>2, <2>3 DEF A, B
    <3> QED
      BY <3>1, FS_Product
  <2>5. Cardinality(A) = 1 /\ Cardinality(B) = Len(lists[k]) /\ Len(lists[k]) \in Nat
    BY <2>1, <2>2, <2>3 DEF A, B
  <2>6. Cardinality(A \X B) = Len(lists[k])
    BY <2>4, <2>5
  <2> QED
    BY <2>4, <2>6 DEF A, B
<1>2. row \in Surjection(DOMAIN lists, rows)
  BY DEF Surjection
<1>3. UNION rows = CallPlaces(lists)
  BY DEF CallPlaces
<1>4. \A r \in rows : IsFiniteSet(r)
  BY <1>1
<1> HIDE DEF row, rows
<1>5. IsFiniteSet(rows)
  BY <1>2, FS_Surjection
<1>6. IsFiniteSet(UNION rows)
  BY <1>4, <1>5, FS_UNION
<1> QED
  BY <1>1, <1>3, <1>6

(* They are those of each request, and those of each callee.               *)
LEMMA ByRequest ==
    ASSUME NEW lists, IsFiniteSet(DOMAIN lists),
           NEW S, \A k \in DOMAIN lists : lists[k] \in Seq(S)
    PROVE  Sized(DOMAIN lists, CallPlaces(lists), RequestOf(lists), Lengths(lists))
<1>1. ASSUME NEW k \in DOMAIN lists
      PROVE  Fibre(CallPlaces(lists), RequestOf(lists), k) = {k} \X DOMAIN lists[k]
  <2>1. \A p \in CallPlaces(lists) : RequestOf(lists)[p] = p[1]
    BY DEF RequestOf
  <2>2. \A p : p \in CallPlaces(lists) /\ p[1] = k <=> p \in {k} \X DOMAIN lists[k]
    BY PlacesOf
  <2> QED
    BY <2>1, <2>2 DEF Fibre
<1>2. \A p \in CallPlaces(lists) : RequestOf(lists)[p] \in DOMAIN lists
  BY PlacesOf DEF RequestOf
<1>3. \A k \in DOMAIN lists : Lengths(lists)[k] = Cardinality(Fibre(CallPlaces(lists), RequestOf(lists), k))
  BY <1>1, PlacesFinite DEF Lengths
<1> QED
  BY <1>2, <1>3, PlacesFinite DEF Sized

CallCounts(lists) == [c \in DOMAIN Stats(lists) |-> Stats(lists)[c].call_count]

LEMMA ByCallee ==
    ASSUME NEW lists, IsFiniteSet(CallPlaces(lists))
    PROVE  Sized(DOMAIN Stats(lists), CallPlaces(lists), CalleeOf(lists), CallCounts(lists))
<1> DEFINE P == CallPlaces(lists)  D == DOMAIN Stats(lists)
<1>1. D = {CallAt(lists, p).callee : p \in P}
  BY DEF Stats, CallAt
<1>2. \A c \in D : Stats(lists)[c].call_count = Cardinality({p \in P : CallAt(lists, p).callee = c})
  BY SMTT(30) DEF Stats, CallAt
<1>3. \A c \in D : Fibre(P, CalleeOf(lists), c) = {p \in P : CallAt(lists, p).callee = c}
  BY DEF Fibre, CalleeOf
<1>4. CalleeOf(lists) \in Surjection(P, D)
  BY <1>1 DEF Surjection, CalleeOf
<1>5. IsFiniteSet(D)
  <2> HIDE DEF P, D
  <2> QED BY <1>4, FS_Surjection DEF P
<1>6. \A p \in P : CalleeOf(lists)[p] \in D
  BY <1>1 DEF CalleeOf
<1>7. \A c \in D : CallCounts(lists)[c] = Cardinality(Fibre(P, CalleeOf(lists), c))
  BY <1>2, <1>3 DEF CallCounts
<1> QED
  BY <1>5, <1>6, <1>7 DEF Sized

(* A call succeeded or did not.                                            *)
LEMMA OutcomesAddUp ==
    ASSUME NEW lists, IsFiniteSet(CallPlaces(lists)), NEW c \in DOMAIN Stats(lists)
    PROVE  Stats(lists)[c].call_count = Stats(lists)[c].success_count + Stats(lists)[c].error_count
<1> DEFINE P == CallPlaces(lists)
           A == {p \in P : CallAt(lists, p).callee = c}
           B == {p \in A : CallAt(lists, p).success}
<1>1. /\ Stats(lists)[c].call_count = Cardinality(A)
      /\ Stats(lists)[c].success_count = Cardinality(B)
      /\ Stats(lists)[c].error_count = Cardinality({p \in A : ~ CallAt(lists, p).success})
  BY ZenonT(30) DEF Stats, CallAt
<1>2. /\ {p \in A : ~ CallAt(lists, p).success} = A \ B
      /\ B \subseteq A /\ A \in SUBSET P
  OBVIOUS
<1>3. IsFiniteSet(A)
  BY <1>2, FS_Subset
<1> HIDE DEF A, B
<1>4. /\ Cardinality(A \ B) = Cardinality(A) - Cardinality(B)
      /\ Cardinality(A) \in Nat /\ Cardinality(B) \in Nat
  BY <1>2, <1>3, PartsSized
<1>5. Stats(lists)[c].error_count = Cardinality(A) - Cardinality(B)
  BY <1>1, <1>2, <1>4
<1>6. Cardinality(A) = Cardinality(B) + (Cardinality(A) - Cardinality(B))
  BY <1>4
<1> QED
  BY <1>1, <1>5, <1>6

(* The sum of the calls by callee.                                         *)
CallsIn(stats) == MapThenSumSet(LAMBDA c : stats[c].call_count, DOMAIN stats)

AnyOf(T) == CHOOSE x \in T : TRUE

LEMMA TotalCalls ==
    ASSUME NEW D, NEW P, NEW F, NEW value, Sized(D, P, F, value),
           NEW t, DOMAIN t = D, \A d \in D : t[d].call_count = value[d]
    PROVE  CallsIn(t) = Cardinality(P)
<1> DEFINE Fold(sum) == [T \in SUBSET D |->
               IF T = {} THEN 0
               ELSE t[AnyOf(T)].call_count + sum[T \ {AnyOf(T)}]]
           chosen == CHOOSE sum : sum = Fold(sum)
           pick == [T \in SUBSET D |-> AnyOf(T)]
<1>1. \A T \in SUBSET D : T # {} => pick[T] \in T /\ pick[T] = AnyOf(T)
  <2>1. \A T : T # {} => AnyOf(T) \in T
    BY DEF AnyOf
  <2> QED
    BY <2>1
<1>2. \A sum : Fold(sum) = Summing(D, value, pick, sum)
  BY <1>1 DEF Summing
<1>3. CallsIn(t) = chosen[D]
  BY DEF CallsIn, MapThenSumSet, MapThenFoldSet, AnyOf
<1> HIDE DEF Fold, pick
<1>4. Picking(D, pick)
  BY <1>1 DEF Picking
<1>5. SumsTo(D, value, pick, Cardinality(P))
  <2> HIDE DEF chosen
  <2> QED
    BY <1>4, SizesSum
<1>6. chosen = Fold(chosen)
  BY <1>2, <1>5 DEF SumsTo
<1> HIDE DEF chosen
<1> QED
  BY <1>2, <1>3, <1>5, <1>6 DEF SumsTo

(* The calls of a range by callee, and their number by request.            *)
LEMMA StatsTotal ==
    ASSUME NEW n \in Nat, NEW lists, DOMAIN lists = 1..n,
           NEW S, \A k \in DOMAIN lists : lists[k] \in Seq(S)
    PROVE  /\ \E pick : PickingGreatest(DOMAIN lists, pick)
           /\ Sized(DOMAIN lists, CallPlaces(lists), RequestOf(lists), Lengths(lists))
           /\ CallsIn(Stats(lists)) = Cardinality(CallPlaces(lists))
           /\ \A c \in DOMAIN Stats(lists) :
                 Stats(lists)[c].call_count =
                     Stats(lists)[c].success_count + Stats(lists)[c].error_count
<1>1. PickingGreatest(DOMAIN lists, [T \in SUBSET DOMAIN lists |-> Max(T)])
  BY GreatestPicks
<1>2. IsFiniteSet(DOMAIN lists)
  BY FS_Interval
<1>3. IsFiniteSet(CallPlaces(lists))
  BY <1>2, PlacesFinite
<1>4. Sized(DOMAIN lists, CallPlaces(lists), RequestOf(lists), Lengths(lists))
  BY <1>2, ByRequest
<1>5. CallsIn(Stats(lists)) = Cardinality(CallPlaces(lists))
  <2>1. Sized(DOMAIN Stats(lists), CallPlaces(lists), CalleeOf(lists), CallCounts(lists))
    BY <1>3, ByCallee
  <2>2. \A c \in DOMAIN Stats(lists) : Stats(lists)[c].call_count = CallCounts(lists)[c]
    BY DEF CallCounts
  <2> QED
    BY <2>1, <2>2, TotalCalls
<1> QED
  BY <1>1, <1>3, <1>4, <1>5, OutcomesAddUp

(* Both statistics of a range, and the totals of its summary.              *)
LEMMA OneStats ==
    ASSUME MetricsInv, NEW start \in Int, NEW end \in Int
    PROVE  LET summary == QuerySummary(start, end) IN
           /\ StatsAddUp(QueryLlmStats(start, end), summary.total_llm_calls)
           /\ StatsAddUp(QuerySkillStats(start, end), summary.total_skill_calls)
<1> DEFINE s == FilterByTime(start, end)
           llm == [k \in DOMAIN s |-> s[k].of.llm_calls]
           skill == [k \in DOMAIN s |-> s[k].of.skill_calls]
           n == Len(s)
<1>1. QueryLlmStats(start, end) = Stats(llm) /\ QuerySkillStats(start, end) = Stats(skill)
  BY DEF QueryLlmStats, QuerySkillStats
<1>2. /\ QuerySummary(start, end).total_llm_calls = LlmCallsIn(s)
      /\ QuerySummary(start, end).total_skill_calls = SkillCallsIn(s)
  BY ZenonT(30) DEF QuerySummary, LlmCallsIn, SkillCallsIn
<1>3. s \in Seq(RequestEvent) /\ \A k \in 1..Len(s) : s[k].of \in Recordable
  BY RangeType
<1> HIDE DEF s
<1>4. n \in Nat /\ DOMAIN s = 1..n
  BY <1>3
<1>5. \A k \in DOMAIN s : /\ s[k].of.llm_calls \in Seq(CallOf(LlmProvider))
                          /\ s[k].of.skill_calls \in Seq(CallOf(Skill))
  BY <1>3, <1>4, RecordableAssumption
<1>6. /\ DOMAIN llm = 1..n /\ DOMAIN skill = 1..n
      /\ \A k \in DOMAIN llm : llm[k] \in Seq(CallOf(LlmProvider))
      /\ \A k \in DOMAIN skill : skill[k] \in Seq(CallOf(Skill))
      /\ \A k \in DOMAIN s : /\ Lengths(llm)[k] = Len(s[k].of.llm_calls)
                             /\ Lengths(skill)[k] = Len(s[k].of.skill_calls)
  BY <1>4, <1>5 DEF Lengths
<1> HIDE DEF llm, skill, n
<1>7. StatsAddUp(Stats(llm), LlmCallsIn(s))
  <2>1. /\ \E pick : PickingGreatest(DOMAIN llm, pick)
        /\ Sized(DOMAIN llm, CallPlaces(llm), RequestOf(llm), Lengths(llm))
        /\ CallsIn(Stats(llm)) = Cardinality(CallPlaces(llm))
        /\ \A c \in DOMAIN Stats(llm) :
              Stats(llm)[c].call_count = Stats(llm)[c].success_count + Stats(llm)[c].error_count
    BY <1>4, <1>6, StatsTotal
  <2>2. LlmCallsIn(s) = Cardinality(CallPlaces(llm))
    BY <1>4, <1>6, <2>1, TotalLlmCalls
  <2> QED
    BY <2>1, <2>2 DEF StatsAddUp, CallsIn
<1>8. StatsAddUp(Stats(skill), SkillCallsIn(s))
  <2>1. /\ \E pick : PickingGreatest(DOMAIN skill, pick)
        /\ Sized(DOMAIN skill, CallPlaces(skill), RequestOf(skill), Lengths(skill))
        /\ CallsIn(Stats(skill)) = Cardinality(CallPlaces(skill))
        /\ \A c \in DOMAIN Stats(skill) :
              Stats(skill)[c].call_count = Stats(skill)[c].success_count + Stats(skill)[c].error_count
    BY <1>4, <1>6, StatsTotal
  <2>2. SkillCallsIn(s) = Cardinality(CallPlaces(skill))
    BY <1>4, <1>6, <2>1, TotalSkillCalls
  <2> QED
    BY <2>1, <2>2 DEF StatsAddUp, CallsIn
<1> QED
  BY <1>1, <1>2, <1>7, <1>8

-----------------------------------------------------------------------------
(* The percentiles.                                                        *)

(* The values that sorted places in front of one, and itself.              *)
Before(s, k) == {j \in DOMAIN s : s[j] < s[k] \/ (s[j] = s[k] /\ j <= k)}

(* Two values have different places, the less the one in front: the values *)
(* in front of the first are some of those in front of the second.         *)
LEMMA BeforeGrows ==
    ASSUME NEW n \in Nat, NEW s, DOMAIN s = 1..n, \A k \in 1..n : s[k] \in Int,
           NEW j \in 1..n, NEW k \in 1..n
    PROVE  /\ Place(s, k) \in 1..n
           /\ j # k /\ j \in Before(s, k) => Place(s, j) < Place(s, k)
           /\ j \in Before(s, k) \/ k \in Before(s, j)
           /\ j \in Before(s, k) => s[j] <= s[k]
<1> DEFINE A == Before(s, j)  B == Before(s, k)
<1>1. s[j] \in Int /\ s[k] \in Int /\ j \in Int /\ k \in Int
  OBVIOUS
<1>2. k \in B /\ B \in SUBSET (1..n) /\ A \in SUBSET (1..n)
  BY <1>1 DEF Before
<1>3. j \in B => s[j] <= s[k]
  BY <1>1 DEF Before
<1>4. j \in B \/ k \in A
  BY <1>1 DEF Before
<1>5. j # k /\ j \in B => A \in SUBSET B /\ A # B
  <2> SUFFICES ASSUME j # k, j \in B PROVE A \in SUBSET B /\ A # B
    OBVIOUS
  <2>1. s[j] < s[k] \/ (s[j] = s[k] /\ j < k)
    BY <1>1 DEF Before
  <2>2. k \notin A
    BY <1>1, <2>1 DEF Before
  <2>3. ASSUME NEW i \in A PROVE i \in B
    <3>1. i \in 1..n /\ s[i] \in Int /\ i \in Int
      BY <1>2
    <3>2. s[i] < s[j] \/ (s[i] = s[j] /\ i <= j)
      BY DEF Before
    <3>3. s[i] < s[k] \/ (s[i] = s[k] /\ i <= k)
      BY <1>1, <2>1, <3>1, <3>2
    <3> QED
      BY <3>1, <3>3 DEF Before
  <2> QED
    BY <1>2, <2>2, <2>3
<1>6. Place(s, j) = Cardinality(A) /\ Place(s, k) = Cardinality(B)
  BY DEF Place, Before
<1> HIDE DEF A, B
<1>7. /\ IsFiniteSet(1..n) /\ Cardinality(1..n) = n
      /\ IsFiniteSet(A) /\ IsFiniteSet(B)
      /\ Cardinality(A) \in Nat /\ Cardinality(B) \in Nat /\ Cardinality(B) <= n
  <2> DEFINE D == 1..n
  <2>1. IsFiniteSet(D) /\ Cardinality(D) = n /\ A \in SUBSET D /\ B \in SUBSET D
    BY <1>2, FS_Interval
  <2> HIDE DEF D
  <2>2. IsFiniteSet(A) /\ IsFiniteSet(B) /\ Cardinality(B) <= n
    BY <2>1, FS_Subset
  <2> QED
    BY <2>1, <2>2, FS_CardinalityType DEF D
<1>8. Cardinality(B) # 0
  BY <1>2, <1>7, FS_EmptySet
<1>9. A \in SUBSET B /\ A # B => Cardinality(A) < Cardinality(B)
  <2> SUFFICES ASSUME A \in SUBSET B, A # B PROVE Cardinality(A) < Cardinality(B)
    OBVIOUS
  <2>1. Cardinality(A) <= Cardinality(B) /\ Cardinality(B) # Cardinality(A)
    BY <1>7, FS_Subset
  <2> QED
    BY <1>7, <2>1
<1> QED
  BY <1>3, <1>4, <1>5, <1>6, <1>7, <1>8, <1>9 DEF A, B

(* sorted orders what it is given.                                         *)
LEMMA SortedOrders ==
    ASSUME NEW n \in Nat, NEW s, DOMAIN s = 1..n, \A k \in 1..n : s[k] \in Int
    PROVE  /\ Sorted(s) \in [1..n -> Int]
           /\ \A i \in 1..n : \E k \in 1..n : Sorted(s)[i] = s[k]
           /\ \A i, j \in 1..n : i <= j => Sorted(s)[i] <= Sorted(s)[j]
<1> DEFINE place == [k \in 1..n |-> Place(s, k)]
           from(i) == CHOOSE k \in DOMAIN s : Place(s, k) = i
<1>1. place \in Injection(1..n, 1..n)
  <2>1. \A k \in 1..n : place[k] \in 1..n
    BY BeforeGrows
  <2>2. ASSUME NEW j \in 1..n, NEW k \in 1..n, j # k PROVE place[j] # place[k]
    <3>1. Place(s, j) \in Int /\ Place(s, k) \in Int
      BY BeforeGrows
    <3>2. Place(s, j) < Place(s, k) \/ Place(s, k) < Place(s, j)
      BY <2>2, BeforeGrows
    <3> QED
      BY <3>1, <3>2
  <2> HIDE DEF place
  <2>3. place \in [1..n -> 1..n]
    BY <2>1 DEF place
  <2>4. \A j, k \in 1..n : place[j] = place[k] => j = k
    BY <2>2
  <2> QED
    BY <2>3, <2>4 DEF Injection, IsInjective
<1>2. place \in Surjection(1..n, 1..n)
  <2> HIDE DEF place
  <2>1. IsFiniteSet(1..n)
    BY FS_Interval
  <2> DEFINE D == 1..n
  <2> HIDE DEF D
  <2>2. place \in Injection(D, D) /\ IsFiniteSet(D)
    BY <1>1, <2>1 DEF D
  <2>3. place \in Surjection(D, D)
    BY <2>2, FS_Injection
  <2> QED
    BY <2>3 DEF D
<1>3. ASSUME NEW i \in 1..n PROVE from(i) \in 1..n /\ Place(s, from(i)) = i
  <2>1. \E k \in 1..n : place[k] = i
    <3> HIDE DEF place
    <3> QED BY <1>2 DEF Surjection
  <2>2. \E k \in DOMAIN s : Place(s, k) = i
    BY <2>1
  <2> QED
    BY <2>2
<1>4. \A i \in 1..n : Sorted(s)[i] = s[from(i)]
  BY DEF Sorted
<1>5. DOMAIN Sorted(s) = 1..n /\ Sorted(s) = [i \in 1..n |-> Sorted(s)[i]]
  BY DEF Sorted
<1> HIDE DEF from
<1>6. ASSUME NEW i \in 1..n, NEW j \in 1..n, i <= j PROVE Sorted(s)[i] <= Sorted(s)[j]
  <2> DEFINE a == from(i)  b == from(j)
  <2>1. a \in 1..n /\ b \in 1..n /\ Place(s, a) = i /\ Place(s, b) = j
    BY <1>3
  <2>2. Sorted(s)[i] = s[a] /\ Sorted(s)[j] = s[b]
    BY <1>4
  <2> HIDE DEF a, b
  <2>3. CASE a = b
    BY <2>1, <2>2, <2>3
  <2>4. CASE a # b
    <3>1. a \in Before(s, b)
      <4>1. b \in Before(s, a) => j < i
        BY <2>1, <2>4, BeforeGrows
      <4> QED
        BY <1>6, <2>1, <4>1, BeforeGrows
    <3> QED
      BY <2>1, <2>2, <3>1, BeforeGrows
  <2> QED
    BY <2>3, <2>4
<1>7. \A i \in 1..n : from(i) \in 1..n /\ s[from(i)] \in Int
  BY <1>3
<1> QED
  BY <1>4, <1>5, <1>6, <1>7

(* A value between two neighbours, by the weight of the upper one.         *)
LEMMA InterpolatedBetween ==
    ASSUME NEW low \in Int, NEW high \in Int, low <= high, NEW w \in 0..100
    PROVE  /\ Interpolated(low, high, w) \in Int
           /\ 100 * low <= Interpolated(low, high, w)
           /\ Interpolated(low, high, w) <= 100 * high
<1>1. Interpolated(low, high, w) = 100 * low + w * (high - low)
  BY DEF Interpolated
<1>2. Interpolated(low, high, w) = 100 * high - (100 - w) * (high - low)
  BY DEF Interpolated
<1>3. w * (high - low) \in Nat /\ (100 - w) * (high - low) \in Nat
  <2>1. w \in Nat /\ 100 - w \in Nat /\ high - low \in Nat
    OBVIOUS
  <2> QED
    BY <2>1, ProductType
<1>4. 100 * low \in Int /\ 100 * high \in Int
  OBVIOUS
<1> QED
  BY <1>1, <1>2, <1>3, <1>4

LEMMA InterpolatedGrows ==
    ASSUME NEW low \in Int, NEW high \in Int, low <= high,
           NEW v \in 0..100, NEW w \in 0..100, v <= w
    PROVE  Interpolated(low, high, v) <= Interpolated(low, high, w)
<1>1. /\ Interpolated(low, high, v) = 100 * low + v * (high - low)
      /\ Interpolated(low, high, w) = 100 * low + w * (high - low)
  BY DEF Interpolated
<1>2. (w - v) * (high - low) \in Nat
  <2>1. w - v \in Nat /\ high - low \in Nat
    OBVIOUS
  <2> QED
    BY <2>1, ProductType
<1>3. w * (high - low) - v * (high - low) = (w - v) * (high - low)
  OBVIOUS
<1>4. w * (high - low) \in Int /\ v * (high - low) \in Int
  OBVIOUS
<1> QED
  BY <1>1, <1>2, <1>3, <1>4

\* The value with the number lower + 1, or one between it and the next.
ValueAt(v, n, lower, w) ==
    IF lower + 1 >= n THEN 100 * v[n] ELSE Interpolated(v[lower + 1], v[lower + 2], w)

(* The rank, taken apart into the number of a value and a weight.          *)
LEMMA PercentileAt ==
    ASSUME NEW n \in Nat \ {0}, NEW v \in [1..n -> Int], NEW p \in 0..100
    PROVE  \E lower \in 0..n - 1, w \in 0..99 :
              /\ p * (n - 1) = 100 * lower + w
              /\ Percentile(v, p) = ValueAt(v, n, lower, w)
<1> DEFINE rank == p * (n - 1)  lower == rank \div 100  w == rank % 100
<1>1. Len(v) = n
  OBVIOUS
<1>2. Percentile(v, p) = ValueAt(v, n, lower, w)
  <2>1. n # 0
    OBVIOUS
  <2> QED
    BY <1>1, <2>1 DEF Percentile, ValueAt
<1>3. rank \in Int /\ 0 <= rank /\ rank <= 100 * (n - 1)
  <2>1. p * (n - 1) \in Nat /\ (100 - p) * (n - 1) \in Nat
    <3>1. p \in Nat /\ 100 - p \in Nat /\ n - 1 \in Nat
      OBVIOUS
    <3> QED
      BY <3>1, ProductType
  <2>2. 100 * (n - 1) - p * (n - 1) = (100 - p) * (n - 1)
    OBVIOUS
  <2>3. p * (n - 1) \in Int /\ 100 * (n - 1) \in Int
    OBVIOUS
  <2> QED
    BY <2>1, <2>2, <2>3
<1> HIDE DEF rank
<1>4. rank = 100 * lower + w /\ lower \in 0..n - 1 /\ w \in 0..99
  BY <1>3
<1> QED
  BY <1>2, <1>4 DEF rank

(* Such a value lies between its neighbours, and between the first and the *)
(* last.                                                                   *)
LEMMA ValueBetween ==
    ASSUME NEW n \in Nat \ {0}, NEW v \in [1..n -> Int],
           \A i, j \in 1..n : i <= j => v[i] <= v[j],
           NEW lower \in 0..n - 1, NEW w \in 0..99
    PROVE  /\ ValueAt(v, n, lower, w) \in Int
           /\ 100 * v[lower + 1] <= ValueAt(v, n, lower, w)
           /\ \A i \in lower + 2 .. n : ValueAt(v, n, lower, w) <= 100 * v[i]
           /\ ValueAt(v, n, lower, w) <= 100 * v[n]
           /\ 100 * v[1] <= ValueAt(v, n, lower, w)
<1>1. /\ lower + 1 \in 1..n /\ v[lower + 1] \in Int /\ v[n] \in Int /\ v[1] \in Int
      /\ v[1] <= v[lower + 1]
  OBVIOUS
<1>2. CASE lower + 1 >= n
  <2>1. lower + 1 = n /\ ValueAt(v, n, lower, w) = 100 * v[n]
    BY <1>1, <1>2 DEF ValueAt
  <2> QED
    BY <1>1, <2>1
<1>3. CASE ~ (lower + 1 >= n)
  <2> DEFINE low == v[lower + 1]  high == v[lower + 2]
  <2>1. lower + 2 \in 1..n /\ low \in Int /\ high \in Int /\ low <= high
    BY <1>1, <1>3
  <2>2. ValueAt(v, n, lower, w) = Interpolated(low, high, w)
    BY <1>3 DEF ValueAt
  <2>3. \A i \in lower + 2 .. n : i \in 1..n /\ v[i] \in Int /\ high <= v[i]
    BY <2>1
  <2>4. n \in lower + 2 .. n
    BY <2>1
  <2> HIDE DEF low, high
  <2>5. /\ Interpolated(low, high, w) \in Int
        /\ 100 * low <= Interpolated(low, high, w)
        /\ Interpolated(low, high, w) <= 100 * high
    <3>1. w \in 0..100 /\ low \in Int /\ high \in Int /\ low <= high
      BY <2>1
    <3> QED
      BY <3>1, InterpolatedBetween, Zenon
  <2>6. \A i \in lower + 2 .. n : Interpolated(low, high, w) <= 100 * v[i]
    BY <2>1, <2>3, <2>5
  <2>7. 100 * v[1] <= Interpolated(low, high, w)
    BY <1>1, <2>1, <2>5 DEF low
  <2>8. v[n] = v[n] /\ Interpolated(low, high, w) <= 100 * v[n]
    BY <2>4, <2>6
  <2> QED
    BY <2>2, <2>5, <2>6, <2>7, <2>8 DEF low
<1> QED
  BY <1>2, <1>3

(* A higher percentage is no lower value, whether it falls between the     *)
(* same neighbours or others.                                              *)
LEMMA PercentilesGrow ==
    ASSUME NEW n \in Nat \ {0}, NEW v \in [1..n -> Int],
           \A i, j \in 1..n : i <= j => v[i] <= v[j],
           NEW p \in 0..100, NEW q \in 0..100, p <= q
    PROVE  /\ 100 * v[1] <= Percentile(v, p)
           /\ Percentile(v, p) <= Percentile(v, q)
           /\ Percentile(v, q) <= 100 * v[n]
<1>1. PICK a \in 0..n - 1, x \in 0..99 :
         p * (n - 1) = 100 * a + x /\ Percentile(v, p) = ValueAt(v, n, a, x)
  BY PercentileAt, ZenonT(30)
<1>2. PICK b \in 0..n - 1, y \in 0..99 :
         q * (n - 1) = 100 * b + y /\ Percentile(v, q) = ValueAt(v, n, b, y)
  BY PercentileAt, ZenonT(30)
<1>3. 100 * a + x <= 100 * b + y
  <2>1. (q - p) * (n - 1) \in Nat
    <3>1. q - p \in Nat /\ n - 1 \in Nat
      OBVIOUS
    <3> QED
      BY <3>1, ProductType
  <2>2. q * (n - 1) - p * (n - 1) = (q - p) * (n - 1)
    OBVIOUS
  <2>3. q * (n - 1) \in Int /\ p * (n - 1) \in Int
    OBVIOUS
  <2> QED
    BY <1>1, <1>2, <2>1, <2>2, <2>3
<1>4. /\ ValueAt(v, n, a, x) \in Int /\ ValueAt(v, n, b, y) \in Int
      /\ 100 * v[1] <= ValueAt(v, n, a, x)
      /\ ValueAt(v, n, b, y) <= 100 * v[n]
      /\ 100 * v[b + 1] <= ValueAt(v, n, b, y)
      /\ \A i \in a + 2 .. n : ValueAt(v, n, a, x) <= 100 * v[i]
  BY ValueBetween, ZenonT(30)
<1>5. ValueAt(v, n, a, x) <= ValueAt(v, n, b, y)
  <2>1. CASE a < b
    <3>1. b + 1 \in a + 2 .. n /\ v[b + 1] \in Int
      BY <2>1
    <3> QED
      BY <1>4, <3>1
  <2>2. CASE a = b
    <3>1. x <= y
      BY <1>3, <2>2
    <3>2. CASE a + 1 >= n
      <4>1. ValueAt(v, n, a, x) = ValueAt(v, n, b, y)
        BY <2>2, <3>2 DEF ValueAt
      <4> QED
        BY <1>4, <4>1
    <3>3. CASE ~ (a + 1 >= n)
      <4>1. /\ a + 1 \in 1..n /\ a + 2 \in 1..n /\ v[a + 1] \in Int /\ v[a + 2] \in Int
            /\ v[a + 1] <= v[a + 2]
        BY <3>3
      <4>2. /\ ValueAt(v, n, a, x) = Interpolated(v[a + 1], v[a + 2], x)
            /\ ValueAt(v, n, b, y) = Interpolated(v[a + 1], v[a + 2], y)
        BY <2>2, <3>3 DEF ValueAt
      <4> DEFINE low == v[a + 1]  high == v[a + 2]
      <4>3. x \in 0..100 /\ y \in 0..100 /\ low \in Int /\ high \in Int /\ low <= high
        BY <4>1
      <4> HIDE DEF low, high
      <4>4. Interpolated(low, high, x) <= Interpolated(low, high, y)
        BY <3>1, <4>3, InterpolatedGrows, ZenonT(30)
      <4> QED
        BY <4>2, <4>4 DEF low, high
    <3> QED
      BY <3>2, <3>3
  <2> QED
    BY <1>3, <2>1, <2>2
<1> QED
  BY <1>1, <1>2, <1>4, <1>5

(* The three percentiles of a range that shows a record.                   *)
LEMMA OnePercentiles ==
    ASSUME MetricsInv, NEW start \in Int, NEW end \in Int,
           FilterByTime(start, end) # <<>>
    PROVE  LET s == FilterByTime(start, end)
               q == QuerySummary(start, end)
           IN /\ \E k \in DOMAIN s : 100 * s[k].of.duration <= q.p50
              /\ q.p50 <= q.p95 /\ q.p95 <= q.p99
              /\ \E k \in DOMAIN s : q.p99 <= 100 * s[k].of.duration
<1> DEFINE s == FilterByTime(start, end)
           q == QuerySummary(start, end)
           n == Len(s)
           durations == [k \in DOMAIN s |-> s[k].of.duration]
           v == Sorted(durations)
<1>1. /\ q.p50 = Percentile(v, 50) /\ q.p95 = Percentile(v, 95)
      /\ q.p99 = Percentile(v, 99)
  BY ZenonT(30) DEF QuerySummary
<1>2. s \in Seq(RequestEvent) /\ \A k \in 1..Len(s) : s[k].of \in Recordable
  BY RangeType
<1>3. s # <<>>
  OBVIOUS
<1> HIDE DEF s, q
<1>4. n \in Nat \ {0} /\ DOMAIN s = 1..n
  BY <1>2, <1>3
<1>5. \A k \in 1..n : durations[k] = s[k].of.duration /\ durations[k] \in Int
  BY <1>2, <1>4, RecordableAssumption
<1>6. DOMAIN durations = 1..n
  BY <1>4
<1> HIDE DEF durations, n
<1>7. /\ v \in [1..n -> Int]
      /\ \A i \in 1..n : \E k \in 1..n : v[i] = durations[k]
      /\ \A i, j \in 1..n : i <= j => v[i] <= v[j]
  BY <1>4, <1>5, <1>6, SortedOrders
<1> HIDE DEF v
<1>8. ASSUME NEW p \in 0..100, NEW r \in 0..100, p <= r
      PROVE  /\ 100 * v[1] <= Percentile(v, p)
             /\ Percentile(v, p) <= Percentile(v, r)
             /\ Percentile(v, r) <= 100 * v[n]
  BY <1>4, <1>7, <1>8, PercentilesGrow, ZenonT(30)
<1>9. /\ 100 * v[1] <= Percentile(v, 50) /\ Percentile(v, 50) <= Percentile(v, 95)
      /\ Percentile(v, 95) <= Percentile(v, 99) /\ Percentile(v, 99) <= 100 * v[n]
  <2>1. 50 \in 0..100 /\ 95 \in 0..100 /\ 99 \in 0..100 /\ 50 <= 95 /\ 95 <= 99
    OBVIOUS
  <2>2. 100 * v[1] <= Percentile(v, 50) /\ Percentile(v, 50) <= Percentile(v, 95)
    BY <1>8, <2>1, Zenon
  <2>3. Percentile(v, 95) <= Percentile(v, 99) /\ Percentile(v, 99) <= 100 * v[n]
    BY <1>8, <2>1, ZenonT(30)
  <2> QED
    BY <2>2, <2>3
<1>10. /\ \E k \in 1..n : 100 * s[k].of.duration <= Percentile(v, 50)
       /\ \E k \in 1..n : Percentile(v, 99) <= 100 * s[k].of.duration
  <2>1. 1 \in 1..n /\ n \in 1..n
    BY <1>4
  <2>2. PICK k \in 1..n : v[1] = s[k].of.duration
    BY <1>5, <1>7, <2>1, ZenonT(30)
  <2>3. PICK l \in 1..n : v[n] = s[l].of.duration
    BY <1>5, <1>7, <2>1
  <2> QED
    BY <1>9, <2>2, <2>3
<1> QED
  BY <1>1, <1>4, <1>9, <1>10 DEF s, q

-----------------------------------------------------------------------------
(* query_timeline and query_summary agree on every range and bucket: each  *)
(* record of the range has a timestamp that is rounded to the beginning of *)
(* exactly one entry, so that the entries add up to the totals of the      *)
(* summary.                                                                *)
THEOREM TimelineAgrees == MetricsSpec => []TimelineAddsUp
<1>1. ASSUME MetricsInv PROVE TimelineAddsUp
  BY <1>1, RangesAreNumbers, OneTimeline DEF TimelineAddsUp
<1> QED
  BY <1>1, MetricsInvariant, PTL

(* query_llm_stats and query_skill_stats agree with query_summary: the     *)
(* calls counted by provider, or by skill, are those counted by request,   *)
(* and each of them succeeded or failed.                                   *)
THEOREM CallsAgree == MetricsSpec => []CallsAddUp
<1>1. ASSUME MetricsInv PROVE CallsAddUp
  BY <1>1, RangesAreNumbers, OneStats DEF CallsAddUp
<1> QED
  BY <1>1, MetricsInvariant, PTL

(* _percentile interpolates between neighbours in the sorted latencies:    *)
(* the 50th, 95th and 99th percentile are ordered, and lie within the      *)
(* latencies of the range.                                                 *)
THEOREM PercentilesInOrder == MetricsSpec => []PercentilesOrdered
<1>1. ASSUME MetricsInv PROVE PercentilesOrdered
  BY <1>1, RangesAreNumbers, OnePercentiles DEF PercentilesOrdered
<1> QED
  BY <1>1, MetricsInvariant, PTL

(* What the dashboard shows of one range in several places agrees.         *)
THEOREM DashboardAgrees == MetricsSpec => []DashboardAddsUp
BY TimelineAgrees, CallsAgree, PercentilesInOrder, PTL DEF DashboardAddsUp
=============================================================================
