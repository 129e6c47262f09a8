----------------------------- MODULE SessionStore -----------------------------
(***************************************************************************)
(* ContextManager (context/manager.py) over SessionStore                   *)
(* (context/session.py): the sessions in memory and their files.  No       *)
(* operation is suspended in the middle, so each is one step; requests,    *)
(* cancellations and the idle check come in any order.  Every agent has a  *)
(* store of its own, and all of them write to the same directory.          *)
(*                                                                         *)
(* Of a session the messages, the mode and the task progress are kept.  A  *)
(* message stands for the request it came with.                            *)
(***************************************************************************)
EXTENDS Naturals

CONSTANTS
    Store,      \* the stores of a process
    Session,    \* session ids
    Message,    \* what users send: one message for each request
    MaxStoreOps \* bound: operations other than those of requests

ASSUME MaxStoreOpsAssumption == MaxStoreOps \in Nat

VARIABLES
    sessions,   \* self._sessions of each store
    disk,       \* the file of each session
    storeOps,   \* how many operations other than those of requests there were
    damaged     \* history: sessions that were removed, or whose file failed

sessionVars == <<sessions, disk, storeOps, damaged>>

\* The progress of a session: none, fresh, or reported by a request.
Progress == {"none", "fresh", "reported"}
State == [mode : {"CHAT", "TASK"}, progress : Progress, messages : SUBSET Message]

Absent == [mode |-> "absent", progress |-> "none", messages |-> {}]
Corrupt == [mode |-> "corrupt", progress |-> "none", messages |-> {}]
NewSession == [mode |-> "CHAT", progress |-> "none", messages |-> {}]

-----------------------------------------------------------------------------
(* Steps the operations are made of.                                       *)

\* SessionStore.get: from memory, else from the file if it can be read.
Get(m, s) ==
    IF sessions[m][s] # Absent THEN sessions[m][s]
    ELSE IF disk[s] \in State THEN disk[s] ELSE Absent

GetOrCreate(m, s) == IF Get(m, s) = Absent THEN NewSession ELSE Get(m, s)

WithMessage(state, r) == [state EXCEPT !.messages = @ \cup {r}]

\* switch_mode starts a progress with the task mode and drops it with the end.
InTask(state) ==
    [state EXCEPT !.mode = "TASK", !.progress = IF @ = "none" THEN "fresh" ELSE @]

InChat(state) ==
    [state EXCEPT !.mode = "CHAT", !.progress = IF state.mode = "TASK" THEN "none" ELSE @]

\* Variant: the mode is not looked at.
ProgressedAlways(state) == [state EXCEPT !.progress = "reported"]

Progressed(state) ==
    IF state.mode = "TASK" THEN [state EXCEPT !.progress = "reported"] ELSE state

-----------------------------------------------------------------------------
(* What a request does with its session; nothing when there is none.       *)

Hold(m, s, state) == sessions' = [sessions EXCEPT ![m][s] = state]

\* get_session, update_context and switch_mode at the start of a request.
OpenTask(m, s, r) ==
    /\ Hold(m, s, InTask(WithMessage(GetOrCreate(m, s), r)))
    /\ UNCHANGED <<disk, storeOps, damaged>>

ReportProgress(m, s) ==
    /\ Hold(m, s, IF Get(m, s) = Absent THEN Absent ELSE Progressed(Get(m, s)))
    /\ UNCHANGED <<disk, storeOps, damaged>>

CloseTask(m, s) ==
    /\ Hold(m, s, IF Get(m, s) = Absent THEN Absent ELSE InChat(Get(m, s)))
    /\ UNCHANGED <<disk, storeOps, damaged>>

-----------------------------------------------------------------------------
(* Other operations.                                                       *)

CountOp == storeOps < MaxStoreOps /\ storeOps' = storeOps + 1

\* cancel_task does not stop the request.
CancelTask(m, s) ==
    /\ CountOp
    /\ Get(m, s) # Absent
    /\ Hold(m, s, [Get(m, s) EXCEPT !.mode = "CHAT", !.progress = "none"])
    /\ UNCHANGED <<disk, damaged>>

\* pause_task rewords the progress, and brings the session back into memory.
PauseTask(m, s) ==
    /\ CountOp
    /\ Get(m, s) # Absent
    /\ Hold(m, s, Get(m, s))
    /\ UNCHANGED <<disk, damaged>>

\* Writing truncates the file first: a failure leaves it as it was, or empty.
Write == {"written", "unchanged", "truncated"}
FileAfter(s, held, write) ==
    IF held = Absent \/ write = "unchanged" THEN disk[s]
    ELSE IF write = "truncated" THEN Corrupt ELSE held

Persist(m, s) ==
    /\ CountOp
    /\ sessions[m][s] # Absent
    /\ \E w \in Write :
          /\ disk' = [disk EXCEPT ![s] = FileAfter(s, sessions[m][s], w)]
          /\ damaged' = IF w = "written" THEN damaged ELSE damaged \cup {s}
    /\ UNCHANGED sessions

\* Variant: the session is dropped before it is written.
DroppedFirst(m, s) == Absent

\* What check_idle_sessions finds in memory when it writes.
WrittenWhenIdle(m, s) == sessions[m][s]

\* The sessions of S are found idle: each is written and dropped from memory,
\* even when its file could not be written.
CheckIdle(m) ==
    /\ CountOp
    /\ \E S \in SUBSET {s \in Session : sessions[m][s] # Absent} \ {{}} :
          /\ \E w \in [S -> Write] :
                /\ disk' = [s \in Session |->
                       IF s \in S THEN FileAfter(s, WrittenWhenIdle(m, s), w[s])
                       ELSE disk[s]]
                /\ damaged' = damaged \cup {s \in S : w[s] # "written"}
          /\ sessions' = [sessions EXCEPT ![m] =
                 [s \in Session |-> IF s \in S THEN Absent ELSE @[s]]]

RemoveSession(m, s) ==
    /\ CountOp
    /\ Hold(m, s, Absent)
    /\ disk' = [disk EXCEPT ![s] = Absent]
    /\ damaged' = damaged \cup {s}

StoreStep(m) ==
    \/ \E s \in Session :
          CancelTask(m, s) \/ PauseTask(m, s) \/ Persist(m, s) \/ RemoveSession(m, s)
    \/ CheckIdle(m)

NothingHeld == [m \in Store |-> [s \in Session |-> Absent]]

SessionInit ==
    /\ sessions = NothingHeld
    /\ disk = [s \in Session |-> Absent]
    /\ storeOps = 0
    /\ damaged = {}

-----------------------------------------------------------------------------
(* Properties.                                                             *)

SessionTypeOK ==
    /\ sessions \in [Store -> [Session -> State \cup {Absent}]]
    /\ disk \in [Session -> State \cup {Absent, Corrupt}]
    /\ storeOps \in 0..MaxStoreOps
    /\ damaged \in SUBSET Session

\* A session carries a progress exactly while it is in task mode, in memory and
\* in its file, whoever reports, cancels, switches and restores in between.
ProgressOnlyInTask ==
    \A m \in Store, s \in Session :
        \A state \in {sessions[m][s], disk[s]} \cap State :
            state.mode = "TASK" <=> state.progress # "none"
=============================================================================
