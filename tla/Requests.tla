------------------------------- MODULE Requests -------------------------------
(***************************************************************************)
(* The requests to the web server (web/server.py): the agent they are      *)
(* given, and process_request and process_request_stream                   *)
(* (core/orchestrator.py) seen from what requests share: the list of LLM   *)
(* calls of LlmFactory, the sessions of SessionStore and the records in    *)
(* the metrics store.  What they execute in between is the subject of      *)
(* PlanExecution, StreamExecution and AgentLoop.                           *)
(*                                                                         *)
(* The agent is created by the first request, which awaits it; whoever     *)
(* arrives meanwhile creates another one.  Each has its own LlmFactory and *)
(* SessionStore, the directory of session files and the metrics store are  *)
(* common to all.  After a crash only the files are left.                  *)
(*                                                                         *)
(* A request is suspended where it awaits a provider or a skill and, when  *)
(* it streams, at every event it yields; there its consumer may leave it.  *)
(***************************************************************************)
EXTENDS LlmFactory, SessionStore

CONSTANTS
    MaxAgents,   \* bound: agents created by one process
    MaxCrashes   \* bound: crashes

Agent == 1..MaxAgents
NoAgent == 0

ASSUME AgentAssumption == MaxAgents \in Nat \ {0} /\ Factory = Agent /\ Store = Agent
ASSUME MessageAssumption == Message = Request
ASSUME CrashAssumption == MaxCrashes \in Nat

VARIABLES
    orchestrator, \* _orchestrator: the agent new requests are given
    created,      \* how many agents the process has created
    crashes,      \* how many crashes there were
    at,           \* where each request stands
    agent,        \* the agent each request was given
    streaming,    \* the requests made with process_request_stream
    session,      \* session_id of each request
    records,      \* what was passed to record_request, in order
    \* History: whether a request arrived while an agent was being created;
    \* requests during which another one of their agent was under way;
    \* requests whose message was put into the session; sessions that were in
    \* a file in task mode when the process crashed.
    raced,
    overlapped,
    heard,
    interrupted

agentVars == <<orchestrator, created, crashes, agent, raced, interrupted>>
requestVars == <<at, streaming, session, records, overlapped, heard>>
allVars == <<llmVars, sessionVars, agentVars, requestVars>>

Step == {"new", "creating", "ready", "begun", "planning", "running", "deciding",
         "summing", "told", "refused", "reported", "left", "over"}

\* Suspended at a yield; a stream that failed or was left has only its finally
\* clause before it.
AtYield == {"begun", "running", "told"}
Closing == {"refused", "reported", "left"}

UnderWay == {r \in Request : at[r] \notin {"new", "creating", "ready", "over"}}

-----------------------------------------------------------------------------
(* The agent.                                                              *)

Goto(r, step) == at' = [at EXCEPT ![r] = step]

\* Variant: the agent is not kept.
NotKept(r) == NoAgent

\* The agent of a request becomes the one later requests are given.
Kept(r) == agent'[r]

\* _get_orchestrator, up to its await when there is no agent.
Arrive(r) ==
    /\ at[r] = "new"
    /\ IF orchestrator = NoAgent
       THEN /\ Goto(r, "creating")
            /\ raced' = (raced \/ \E q \in Request : at[q] = "creating")
       ELSE Goto(r, "ready") /\ UNCHANGED raced
    /\ agent' = [agent EXCEPT ![r] = orchestrator]
    /\ UNCHANGED <<llmVars, sessionVars, orchestrator, created, crashes, interrupted,
                   streaming, session, records, overlapped, heard>>

Created(r) ==
    /\ at[r] = "creating"
    /\ created < MaxAgents
    /\ created' = created + 1
    /\ agent' = [agent EXCEPT ![r] = created + 1]
    /\ orchestrator' = Kept(r)
    /\ Goto(r, "ready")
    /\ UNCHANGED <<llmVars, sessionVars, crashes, raced, interrupted,
                   streaming, session, records, overlapped, heard>>

\* create_agent raises: the request is answered with an error.
CreateFails(r) ==
    /\ at[r] = "creating"
    /\ Goto(r, "over")
    /\ UNCHANGED <<llmVars, sessionVars, agentVars,
                   streaming, session, records, overlapped, heard>>

\* A request for the list of skills needs an agent and nothing else.
ListSkills(r) ==
    /\ at[r] = "ready"
    /\ Goto(r, "over")
    /\ UNCHANGED <<llmVars, sessionVars, agentVars,
                   streaming, session, records, overlapped, heard>>

\* What is in memory is lost, at an orderly end too: shutdown writes nothing.
\* The requests there were are over.
Crash ==
    /\ crashes < MaxCrashes
    /\ crashes' = crashes + 1
    /\ orchestrator' = NoAgent
    /\ created' = 0
    /\ agent' = [r \in Request |-> NoAgent]
    /\ raced' = FALSE
    /\ interrupted' = {s \in Session : disk[s].mode = "TASK"}
    /\ at' = [r \in Request |-> IF at[r] = "new" THEN "new" ELSE "over"]
    /\ sessions' = NothingHeld
    /\ pending' = [f \in Factory |-> <<>>]
    /\ asking' = [r \in Request |-> None]
    /\ outcome' = [r \in Request |-> "none"]
    /\ calls' = [r \in Request |-> 0]
    /\ made' = [r \in Request |-> <<>>]
    /\ records' = <<>>
    /\ overlapped' = {}
    /\ heard' = {r \in heard : r \in disk[session[r]].messages}
    /\ UNCHANGED <<primary, fallback, disk, storeOps, damaged, streaming, session>>

-----------------------------------------------------------------------------
(* The life of a request.                                                  *)

\* Variant: the list of calls keeps what it holds.
CallsKept(list) == list

\* The list after clear_pending_llm_calls: at the start of a request, and when
\* it has been read for a record.
CallsAtStart(list) == <<>>
CallsAfterRecord(list) == <<>>

Record(r) ==
    LET f == agent[r] IN
    /\ records' = Append(records, [request |-> r, calls |-> pending[f]])
    /\ pending' = [pending EXCEPT ![f] = CallsAfterRecord(@)]
    /\ UNCHANGED <<primary, fallback, asking, outcome, calls, made>>

\* A request starts by clearing the list, whoever else is under way.
Start(r) ==
    /\ at[r] = "ready"
    /\ LET others == {q \in UnderWay : agent[q] = agent[r]} IN
       overlapped' = overlapped \cup IF others = {} THEN {} ELSE others \cup {r}

Begin(r) ==
    /\ Start(r)
    /\ OpenTask(agent[r], session[r], r)
    /\ heard' = heard \cup {r}
    /\ pending' = [pending EXCEPT ![agent[r]] = CallsAtStart(@)]
    /\ Goto(r, "begun")
    /\ UNCHANGED <<primary, fallback, asking, outcome, calls, made, agentVars,
                   streaming, session, records>>

\* The input is refused: that is recorded, and the session switched as always.
BeginRefused(r) ==
    /\ Start(r)
    /\ LET f == agent[r] IN
       /\ records' = Append(records, [request |-> r, calls |-> CallsAtStart(pending[f])])
       /\ pending' = [pending EXCEPT ![f] = CallsAfterRecord(CallsAtStart(@))]
    /\ \/ /\ r \in streaming
          /\ Goto(r, "reported")
          /\ UNCHANGED sessionVars
       \/ /\ r \notin streaming
          /\ Goto(r, "over")
          /\ CloseTask(agent[r], session[r])
    /\ UNCHANGED <<primary, fallback, asking, outcome, calls, made, agentVars,
                   streaming, session, heard>>

\* An LLM call: for the plan, for the decision to go on with another turn and
\* its plan, or for the summary of a stream.
Ask(r) ==
    /\ StartCall(r)
    /\ \/ at[r] = "begun" /\ Goto(r, "planning")
       \/ at[r] = "running" /\ r \notin streaming /\ Goto(r, "deciding")
       \/ at[r] = "running" /\ r \in streaming /\ Goto(r, "summing")
    /\ UNCHANGED <<sessionVars, agentVars, streaming, session, records, overlapped, heard>>

Provide(r) ==
    /\ ProviderAnswers(agent[r], r) \/ ProviderFails(agent[r], r)
    /\ UNCHANGED <<sessionVars, agentVars, requestVars>>

\* The plan has tasks; nothing is made of an answer that cannot be read.
Planned(r) ==
    /\ at[r] = "planning"
    /\ outcome[r] = "answered"
    /\ Goto(r, "running")
    /\ UNCHANGED <<llmVars, sessionVars, agentVars, streaming, session, records,
                   overlapped, heard>>

\* A stream without tasks ends with an error event, and without a record.
StreamRefused(r) ==
    /\ at[r] = "planning"
    /\ asking[r] = None
    /\ r \in streaming
    /\ Goto(r, "refused")
    /\ UNCHANGED <<llmVars, sessionVars, agentVars, streaming, session, records,
                   overlapped, heard>>

\* A failed call is not an error here: the loop stops, the summary is left out.
Answered(r) ==
    /\ asking[r] = None
    /\ \/ at[r] = "deciding" /\ Goto(r, "running")
       \/ at[r] = "summing" /\ Goto(r, "told")
    /\ UNCHANGED <<llmVars, sessionVars, agentVars, streaming, session, records,
                   overlapped, heard>>

\* A level is done.
LevelDone(r) ==
    /\ at[r] = "running"
    /\ ReportProgress(agent[r], session[r])
    /\ UNCHANGED <<llmVars, agentVars, requestVars>>

\* Not all tasks completed: there is no summary.
StreamPartial(r) ==
    /\ at[r] = "running"
    /\ r \in streaming
    /\ Goto(r, "told")
    /\ UNCHANGED <<llmVars, sessionVars, agentVars, streaming, session, records,
                   overlapped, heard>>

\* The finally clause of process_request, or the end of a stream whose consumer
\* took the last event, record the request and switch the session back.
Finish(r) ==
    /\ \/ at[r] \in {"begun", "running"} /\ r \notin streaming
       \/ at[r] = "planning" /\ asking[r] = None /\ r \notin streaming
       \/ at[r] = "told"
    /\ Record(r)
    /\ CloseTask(agent[r], session[r])
    /\ Goto(r, "over")
    /\ UNCHANGED <<agentVars, streaming, session, overlapped, heard>>

\* An exception ends a stream: recorded before the error event is yielded.
StreamFails(r) ==
    /\ at[r] \in {"begun", "running"}
    /\ r \in streaming
    /\ Record(r)
    /\ Goto(r, "reported")
    /\ UNCHANGED <<sessionVars, agentVars, streaming, session, overlapped, heard>>

\* The consumer leaves a stream at an event, or at a token of the summary.  The
\* generator is closed some time later.
Leave(r) ==
    /\ r \in streaming
    /\ \/ at[r] \in AtYield /\ UNCHANGED llmVars
       \/ at[r] = "summing" /\ asking[r] # None /\ LeaveCall(r)
    /\ Goto(r, "left")
    /\ UNCHANGED <<sessionVars, agentVars, streaming, session, records, overlapped, heard>>

\* Variant: the switch is not in a finally clause.
CloseUnlessLeft(r) ==
    /\ at[r] \in Closing
    /\ IF at[r] = "left" THEN UNCHANGED sessionVars ELSE CloseTask(agent[r], session[r])
    /\ Goto(r, "over")
    /\ UNCHANGED <<llmVars, agentVars, streaming, session, records, overlapped, heard>>

Close(r) ==
    /\ at[r] \in Closing
    /\ CloseTask(agent[r], session[r])
    /\ Goto(r, "over")
    /\ UNCHANGED <<llmVars, agentVars, streaming, session, records, overlapped, heard>>

RequestsInit ==
    /\ LlmInit
    /\ SessionInit
    /\ orchestrator = NoAgent
    /\ created = 0
    /\ crashes = 0
    /\ at = [r \in Request |-> "new"]
    /\ agent = [r \in Request |-> NoAgent]
    /\ streaming \in SUBSET Request
    /\ session \in [Request -> Session]
    /\ records = <<>>
    /\ raced = FALSE
    /\ overlapped = {}
    /\ heard = {}
    /\ interrupted = {}

RequestsNext ==
    \/ \E r \in Request :
          \/ Arrive(r) \/ Created(r) \/ CreateFails(r) \/ ListSkills(r)
          \/ Begin(r) \/ BeginRefused(r) \/ Ask(r) \/ Provide(r) \/ Planned(r)
          \/ StreamRefused(r) \/ Answered(r) \/ LevelDone(r) \/ StreamPartial(r)
          \/ Finish(r) \/ StreamFails(r) \/ Leave(r) \/ Close(r)
    \/ \E m \in 1..created : StoreStep(m) /\ UNCHANGED <<llmVars, agentVars, requestVars>>
    \/ Crash

RequestsSpec == RequestsInit /\ [][RequestsNext]_allVars

-----------------------------------------------------------------------------
(* Properties.                                                             *)

RequestsTypeOK ==
    /\ LlmTypeOK
    /\ SessionTypeOK
    /\ {orchestrator, created} \subseteq 0..MaxAgents
    /\ crashes \in 0..MaxCrashes
    /\ at \in [Request -> Step]
    /\ agent \in [Request -> Agent \cup {NoAgent}]
    /\ streaming \in SUBSET Request
    /\ session \in [Request -> Session]
    /\ records \in Seq([request : Request, calls : Seq(Event)])
    /\ raced \in BOOLEAN
    /\ {overlapped, heard} \subseteq SUBSET Request
    /\ interrupted \in SUBSET Session

\* Only requests that arrive together while there is no agent yet may be given
\* different ones: all others share the sessions and the list of calls of one.
ServedByOneAgent ==
    raced \/ \A r, q \in Request :
                {agent[r], agent[q]} \subseteq Agent => agent[r] = agent[q]

CallsOf(list) == {list[k] : k \in DOMAIN list}

\* However requests overlap, no LLM call is counted in two records, nor kept
\* for another one after it was recorded.
RecordedOnce ==
    \A i \in DOMAIN records :
        /\ \A f \in Factory : CallsOf(records[i].calls) \cap CallsOf(pending[f]) = {}
        /\ \A j \in DOMAIN records :
              i # j => CallsOf(records[i].calls) \cap CallsOf(records[j].calls) = {}

\* A request that had its agent for itself is recorded with exactly the calls it
\* made, in order, whatever streams were left or refused before it.
RecordsOwnCalls ==
    \A i \in DOMAIN records :
        records[i].request \notin overlapped =>
            records[i].calls = made[records[i].request]

\* A session without a request under way is in chat mode, wherever its requests
\* ended or were left, and however they overlapped: unless two agents work on
\* it, or a crash left it in the file as it was in the middle of a request.
QuietInChat ==
    \A m \in Store, s \in Session \ (damaged \cup interrupted) :
        /\ ~raced
        /\ sessions[m][s] # Absent
        /\ \A r \in UnderWay : session[r] # s
        => sessions[m][s].mode = "CHAT"

\* What the next request finds in a session.
Found(s) ==
    IF orchestrator = NoAgent THEN disk[s].messages ELSE Get(orchestrator, s).messages

\* No message is forgotten: as long as the files can be written, a session has
\* every message of its requests, in memory or in the file it is restored from;
\* after a crash, every message that had reached the file.  Only agents created
\* together do not see the messages of each other.
NothingForgotten ==
    \A r \in heard : ~raced /\ session[r] \notin damaged => r \in Found(session[r])
=============================================================================
