------------------------------- MODULE McpStdio -------------------------------
(***************************************************************************)
(* MCPClient over stdio (tools/mcp_client.py) and the server at the other  *)
(* end (mcp_servers/base.py): one server process, one pipe to it and one   *)
(* pipe back, shared by every task that calls a tool.                      *)
(*                                                                         *)
(* The server handles one request after the other: a loop reads a line,    *)
(* awaits its handler, writes the answer, and only then reads on.          *)
(*                                                                         *)
(* _send_stdio writes a request, then reads one line, with no lock and     *)
(* without comparing the id of the answer with its own.  A request is the  *)
(* number it was written with; an answer carries the number of its         *)
(* request, which is what _parse_response is given and does not look at.   *)
(*                                                                         *)
(* The reader is asyncio's StreamReader: a single task may wait in it, a   *)
(* second one is refused with a RuntimeError.  The waiting task is only     *)
(* woken: a task that is run before it may take the line it was woken for. *)
(* A line above the reader's limit (64 KiB) raises, and what has arrived   *)
(* of it is dropped; the rest arrives later and is read as a line of its   *)
(* own, by whoever reads next.                                             *)
(*                                                                         *)
(* What the server does not read fills the pipe and the buffer behind it:  *)
(* a caller then waits in drain, before the 30 seconds of its read begin.  *)
(***************************************************************************)
EXTENDS Naturals, SequencesExt

CONSTANTS
    Caller,       \* tasks that use the client
    Room,         \* unread requests that the pipe and the write buffer hold
    MaxRequests,  \* bound: requests written
    MaxPieces     \* bound: reads that one answer takes

ASSUME BoundsAssumption == {MaxRequests, MaxPieces} \subseteq Nat \ {0}
ASSUME RoomAssumption == Room \in Nat \ {0}

VARIABLES
    connected,  \* self._connected
    process,    \* self._process: "none", "running", or "exited" by itself
    written,    \* number of requests written so far
    requests,   \* the requests the server has not read yet
    handling,   \* the request the server is handling, 0 if none
    lines,      \* the answers that were not read yet, in pieces
    task,       \* what each caller is doing, with its request
    ready,      \* the callers the event loop is about to run, in order
    got,        \* the answer the caller's last request received, 0 if none
    \* History: the requests whose caller went away without reading a line,
    \* the number of reads that returned a later piece of an answer, and
    \* whether two callers were ever in the client together.
    givenUp,
    scraps,
    shared

serverVars == <<requests, handling>>
stdioVars == <<connected, process, written, serverVars, lines, task, ready, got,
               givenUp, scraps, shared>>

Request == 1..MaxRequests
Piece == [of : Request, part : 1..MaxPieces]
Idle == [at |-> "idle", request |-> 0]

\* at: "draining" its request, "drained" when there is room for it, "ready" to
\* look at the pipe, "waiting" in the reader, "closing" in disconnect.
Calling == {"draining", "drained", "ready", "waiting"}
Task == {Idle} \cup [at : Calling, request : Request]
               \cup [at : {"closing"}, request : {0}]

Busy == {c \in Caller : task[c].at \in Calling}
\* A caller is in the queue once at most.
Without(c) == RemoveFirst(ready, c)

-----------------------------------------------------------------------------
(* The server.                                                             *)

\* feed_data and feed_eof: whoever waits no longer does, and will run after
\* those who are ready already.
Wake ==
    IF \E c \in Caller : task[c].at = "waiting"
    THEN \E c \in Caller :
            /\ task[c].at = "waiting"
            /\ task' = [task EXCEPT ![c].at = "ready"]
            /\ ready' = Append(ready, c)
    ELSE UNCHANGED <<task, ready>>

\* resume_writing: with room in the buffer whoever drains may go on, and does so
\* even if others fill it before.
Drain ==
    task' = [c \in Caller |->
        IF task[c].at = "draining" /\ Len(requests') <= Room
        THEN [task[c] EXCEPT !.at = "drained"] ELSE task[c]]

\* Variant: a task for each request, so that answers overtake each other.
ServerReadsAny ==
    /\ process = "running"
    /\ handling = 0
    /\ \E i \in DOMAIN requests :
          /\ handling' = requests[i]
          /\ requests' = RemoveAt(requests, i)
    /\ Drain
    /\ UNCHANGED <<connected, process, written, lines, ready, got, givenUp, scraps, shared>>

ServerReads ==
    /\ process = "running"
    /\ handling = 0
    /\ requests # <<>>
    /\ handling' = Head(requests)
    /\ requests' = Tail(requests)
    /\ Drain
    /\ UNCHANGED <<connected, process, written, lines, ready, got, givenUp, scraps, shared>>

\* Every request gets one answer: a result, or an error when its method or
\* tool is unknown or the handler raised.
ServerAnswers ==
    /\ process = "running"
    /\ handling # 0
    /\ \E k \in 1..MaxPieces :
          lines' = lines \o [i \in 1..k |-> [of |-> handling, part |-> i]]
    /\ handling' = 0
    /\ Wake
    /\ UNCHANGED <<connected, process, written, requests, got, givenUp, scraps, shared>>

\* The process ends, or is stopped by what it does not foresee: a request above
\* the limit of its own reader ends the loop.
ServerExits ==
    /\ process = "running"
    /\ process' = "exited"
    /\ Wake
    /\ UNCHANGED <<connected, written, serverVars, lines, got, givenUp, scraps, shared>>

-----------------------------------------------------------------------------
(* Requests.                                                               *)

\* _send_stdio up to the read.  What is written is on its way whatever becomes of
\* the caller; drain suspends only when there is no room for it.  After the exit
\* of the server the write fails and the caller gets the error.
Write(c) ==
    /\ written < MaxRequests
    /\ written' = written + 1
    /\ requests' = Append(requests, written + 1)
    /\ \/ /\ Len(requests) < Room
          /\ task' = [task EXCEPT ![c] = [at |-> "ready", request |-> written + 1]]
          /\ ready' = Append(ready, c)
       \/ /\ Len(requests) >= Room
          /\ task' = [task EXCEPT ![c] = [at |-> "draining", request |-> written + 1]]
          /\ UNCHANGED ready
    /\ got' = [got EXCEPT ![c] = 0]
    /\ shared' = (shared \/ Busy # {})

\* Variant: `initialize' is sent and its answer is left in the pipe.
ConnectUnread(c) ==
    /\ process = "none" /\ written = 0
    /\ task[c] = Idle
    /\ process' = "running"
    /\ written' = 1
    /\ requests' = <<1>>
    /\ connected' = TRUE
    /\ UNCHANGED <<handling, lines, task, ready, got, givenUp, scraps, shared>>

\* connect: starts the process and waits for the answer to `initialize'.
Connect(c) ==
    /\ process = "none" /\ written = 0
    /\ task[c] = Idle
    /\ process' = "running"
    /\ Write(c)
    /\ UNCHANGED <<connected, handling, lines, givenUp, scraps>>

\* list_tools and call_tool.
Send(c) ==
    /\ connected
    /\ process = "running"
    /\ task[c] = Idle
    /\ Write(c)
    /\ UNCHANGED <<connected, process, handling, lines, givenUp, scraps>>

\* The caller returns with the line, or with the error the line carries, or
\* with the error of a piece that cannot be read; connect succeeds when
\* `initialize' was not answered with an error.
Take(c) ==
    /\ lines # <<>>
    /\ got' = [got EXCEPT ![c] = Head(lines).of]
    /\ scraps' = scraps + (IF Head(lines).part > 1 THEN 1 ELSE 0)
    /\ lines' = Tail(lines)
    /\ task' = [task EXCEPT ![c] = Idle]
    /\ ready' = Without(c)
    /\ \E ok \in BOOLEAN : connected' = (connected \/ (task[c].request = 1 /\ ok))
    /\ UNCHANGED <<process, written, serverVars, givenUp, shared>>

GiveUp(c) ==
    /\ givenUp' = givenUp \cup {task[c].request}
    /\ task' = [task EXCEPT ![c] = Idle]
    /\ ready' = Without(c)
    /\ UNCHANGED <<connected, process, written, serverVars, lines, got, scraps, shared>>

\* drain returns, and the read begins unless disconnect has taken the process
\* away; or it raises, because the process has ended.
DrainEnds(c) ==
    \/ /\ task[c].at = "drained" /\ process # "none"
       /\ task' = [task EXCEPT ![c].at = "ready"]
       /\ ready' = Append(ready, c)
       /\ UNCHANGED <<connected, process, written, serverVars, lines, got, givenUp,
                      scraps, shared>>
    \/ /\ \/ task[c].at = "drained" /\ process = "none"
          \/ task[c].at = "draining" /\ process # "running"
       /\ GiveUp(c)

\* At the end of the stream readline returns nothing, and the caller fails.
\* The reader refuses a second task that would have to wait.
Read(c) ==
    /\ ready # <<>> /\ Head(ready) = c
    /\ \/ Take(c)
       \/ /\ lines = <<>>
          /\ \/ process # "running"
             \/ \E d \in Caller : task[d].at = "waiting"
          /\ GiveUp(c)
       \/ /\ lines = <<>>
          /\ process = "running"
          /\ \A d \in Caller : task[d].at # "waiting"
          /\ task' = [task EXCEPT ![c].at = "waiting"]
          /\ ready' = Without(c)
          /\ UNCHANGED <<connected, process, written, serverVars, lines, got, givenUp,
                         scraps, shared>>

\* Variant: the read has no limit of its own.
GiveUpAtClose(c) ==
    /\ task[c].at \in {"ready", "waiting"}
    /\ process = "none"
    /\ GiveUp(c)

\* wait_for gives up the read after 30 seconds.  It is not around drain.
Timeout(c) ==
    /\ task[c].at \in {"ready", "waiting"}
    /\ GiveUp(c)

\* Whoever called cancels the call, wherever it is: ToolExecutor has a limit of
\* its own.
Cancelled(c) ==
    /\ c \in Busy
    /\ GiveUp(c)

-----------------------------------------------------------------------------
(* Disconnecting.                                                          *)

\* The wait for the process lasts up to 5 seconds.  When the process has
\* exited by itself, terminate may raise, and the kill of its handler too:
\* then disconnect ends there and nothing has changed (see McpRegistry).
Disconnect(c) ==
    /\ task[c] = Idle
    /\ process # "none"
    /\ task' = [task EXCEPT ![c] = [at |-> "closing", request |-> 0]]
    /\ UNCHANGED <<connected, process, written, serverVars, lines, ready, got, givenUp,
                   scraps, shared>>

\* The process is gone, after terminate or after kill.  Who still waits reads
\* the end of the stream.
Disconnected(c) ==
    /\ task[c].at = "closing"
    /\ process' = "none"
    /\ connected' = FALSE
    /\ LET S == {d \in Caller : task[d].at = "waiting"} IN
       /\ task' = [d \in Caller |->
             IF d = c THEN Idle
             ELSE IF d \in S THEN [task[d] EXCEPT !.at = "ready"] ELSE task[d]]
       /\ ready' = ready \o SetToSeq(S)
    /\ UNCHANGED <<written, serverVars, lines, got, givenUp, scraps, shared>>

-----------------------------------------------------------------------------
(* The specification.                                                      *)

StdioInit ==
    /\ connected = FALSE
    /\ process = "none"
    /\ written = 0
    /\ requests = <<>>
    /\ handling = 0
    /\ lines = <<>>
    /\ task = [c \in Caller |-> Idle]
    /\ ready = <<>>
    /\ got = [c \in Caller |-> 0]
    /\ givenUp = {}
    /\ scraps = 0
    /\ shared = FALSE

StdioNext ==
    \/ ServerReads \/ ServerAnswers \/ ServerExits
    \/ \E c \in Caller :
          \/ Connect(c) \/ Send(c) \/ DrainEnds(c) \/ Read(c)
          \/ Timeout(c) \/ Cancelled(c)
          \/ Disconnect(c) \/ Disconnected(c)

\* The event loop runs whoever may go on, and the timer of wait_for expires.
\* Nothing is assumed of the server, nor of whoever might cancel a call.
StdioFairness ==
    \A c \in Caller :
        WF_stdioVars(DrainEnds(c)) /\ WF_stdioVars(Read(c)) /\ WF_stdioVars(Timeout(c))

StdioSpec == StdioInit /\ [][StdioNext]_stdioVars /\ StdioFairness

-----------------------------------------------------------------------------
(* Properties.                                                             *)

StdioTypeOK ==
    /\ connected \in BOOLEAN
    /\ process \in {"none", "running", "exited"}
    /\ written \in 0..MaxRequests
    /\ requests \in Seq(Request)
    /\ handling \in 0..MaxRequests
    /\ lines \in Seq(Piece)
    /\ task \in [Caller -> Task]
    /\ ready \in Seq(Caller)
    /\ got \in [Caller -> 0..MaxRequests]
    /\ givenUp \in SUBSET Request
    /\ scraps \in Nat
    /\ shared \in BOOLEAN

Received(c) == got'[c] # got[c] /\ got'[c] # 0

\* While tasks use the client one at a time, an answer is late by exactly the
\* number of requests that were given up before and of the pieces that were
\* read as answers: neither is ever made good again, and until the first one
\* everybody gets the answer to its request.
LateByGivenUp ==
    [][\A c \in Caller :
          Received(c) =>
             \/ shared
             \/ got'[c] = task[c].request - Cardinality(givenUp) - scraps']_stdioVars

\* Both pipes and the server between them are one queue of answers, also when
\* two tasks write and read at once: an answer that was passed never comes
\* back, none is skipped, and none comes before its request was written.
Answers ==
    LET begun == {i \in DOMAIN lines : i = 1 \/ lines[i].part = 1}
    IN  [n \in 1..Cardinality(begun) |->
            lines[CHOOSE i \in begun : Cardinality({j \in begun : j <= i}) = n].of]
Handled == IF handling = 0 THEN <<>> ELSE <<handling>>

Queue == INSTANCE AnswerQueue WITH
    asked <- written, queue <- Answers \o Handled \o requests, answer <- got
ImplementsAnswerQueue == Queue!Spec

\* A call returns, whatever the server, whoever called and the other tasks do; one
\* that never does has left a server that lives and has stopped reading for good,
\* with more requests unread than there is room for.
CallReturns ==
    \A c \in Caller :
        <>[](c \in Busy) => <>[](process = "running" /\ Len(requests) > Room)
=============================================================================
