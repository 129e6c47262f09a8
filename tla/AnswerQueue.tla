------------------------------ MODULE AnswerQueue ------------------------------
(***************************************************************************)
(* What the pipes of an MCP client promise, whatever tasks share them and  *)
(* however the server and the readers are scheduled: the answers come in   *)
(* the order of the requests, one after the other.  Whose answer a task    *)
(* gets is not promised; a task that gives up leaves its answer in the     *)
(* queue, and an answer may take more than one read.                       *)
(***************************************************************************)
EXTENDS Naturals, Sequences

CONSTANT Caller

VARIABLES
    asked,    \* number of requests written
    queue,    \* the requests whose answer was not read to its end
    answer    \* the answer each caller read last, 0 while it asks

queueVars == <<asked, queue, answer>>

Init ==
    /\ asked = 0
    /\ queue = <<>>
    /\ answer = [c \in Caller |-> 0]

Ask(c) ==
    /\ asked' = asked + 1
    /\ queue' = Append(queue, asked + 1)
    /\ answer' = [answer EXCEPT ![c] = 0]

Receive(c) ==
    /\ queue # <<>>
    /\ answer' = [answer EXCEPT ![c] = Head(queue)]
    /\ queue' \in {queue, Tail(queue)}
    /\ UNCHANGED asked

Next == \E c \in Caller : Ask(c) \/ Receive(c)

Spec == Init /\ [][Next]_queueVars
=============================================================================
