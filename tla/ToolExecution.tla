----------------------------- MODULE ToolExecution -----------------------------
(***************************************************************************)
(* One tool call through ToolExecutor.execute (tools/executor.py): the     *)
(* permission gate with its approval (security/permission_gate.py), the    *)
(* credential, up to three attempts at the tool, the audit record          *)
(* (security/audit_logger.py), and what the skill makes of the result.     *)
(*                                                                         *)
(* Calls share nothing but the two registries of tools, which change while *)
(* the call waits.  The level of an action, read from its name, is a       *)
(* choice here.  A call may be cancelled where it waits, as every task is  *)
(* when the program is stopped.                                            *)
(***************************************************************************)
EXTENDS Naturals, Sequences, PermissionGate, LocalTools

CONSTANTS
    MayCancel   \* whether the call may be cancelled

MaxRetries == 3

ASSUME MayCancelAssumption == MayCancel \in BOOLEAN

VARIABLES
    at,          \* where the call is
    status,      \* result_status
    result,      \* what the caller got: "none", a status, or "cancelled"
    action,      \* the name of the tool
    level,       \* its permission_level
    permissions, \* those of the identity that calls
    arguments,   \* the types of the arguments
    approved,    \* a human approved it
    callback,    \* an approval callback is set
    endpoint,    \* an ActionTrail endpoint is configured
    disk,        \* the disk of the log files works
    mcp, local,  \* the tool is registered with an MCP server, or locally
    attempts,    \* where each attempt went and how it ended
    records,     \* the audit records: where, and with which status
    report       \* what the skill returns: "none", "data", or "empty"

settings == <<action, level, permissions, arguments, callback, endpoint, disk>>
toolVars == <<at, status, result, settings, approved, mcp, local, attempts,
              records, report>>

Status == {"success", "denied", "failure"}
Level == {"read_only", "limited_write", "admin"}
Place == {"trail", "backup", "local"}

Waiting == {"approval", "credential", "tool", "backoff"}
Auditing == {"trail", "alert"}

-----------------------------------------------------------------------------
(* The audit record.                                                       *)

Record(place, s) == [place |-> place, status |-> s]

\* The record is appended to a file.  A failure of the disk is swallowed.
Written(from, place, s) == IF disk THEN from \cup {Record(place, s)} ELSE from

\* The end of log: the local file, and execute returns.
WriteLocal(from, s, r) ==
    /\ records' = Written(from, "local", s)
    /\ at' = "returned"
    /\ result' = r

\* The finally clause: the record goes to ActionTrail first, when there is one.
Finish(s, r) ==
    /\ status' = s
    /\ IF endpoint
       THEN at' = "trail" /\ result' = r /\ UNCHANGED records
       ELSE WriteLocal(records, s, r)

\* Variant: the alert is raised and no backup is written.
TrailOnlyAlerts ==
    /\ at = "trail"
    /\ at' = "alert"
    /\ UNCHANGED <<status, result, settings, approved, mcp, local, attempts,
                   records, report>>

\* A failure leaves a backup and raises an alert, which is awaited.
TrailFails ==
    /\ at = "trail"
    /\ records' = Written(records, "backup", status)
    /\ at' = "alert"
    /\ UNCHANGED <<status, result, settings, approved, mcp, local, attempts, report>>

TrailAccepts ==
    /\ at = "trail"
    /\ WriteLocal(records \cup {Record("trail", status)}, status, result)
    /\ UNCHANGED <<status, settings, approved, mcp, local, attempts, report>>

Alerted ==
    /\ at = "alert"
    /\ WriteLocal(records, status, result)
    /\ UNCHANGED <<status, settings, approved, mcp, local, attempts, report>>

-----------------------------------------------------------------------------
(* Permission and credential.                                              *)

RequiresApproval == level \in {"limited_write", "admin"}

Allowed == IsActionAllowed(action, permissions)

\* get_third_party_credential does not wait.  What it caches is due for renewal
\* at once, so that the key always comes from the environment.
ThirdParty ==
    \/ at' = "attempt" /\ UNCHANGED <<status, result, records>>
    \/ Finish("failure", "failure")

\* After the gate: the credential, when the call has a scope, or the tool.
Proceed ==
    \/ at' \in {"credential", "attempt"} /\ UNCHANGED <<status, result, records>>
    \/ ThirdParty

\* check_permission.  Without a callback nobody approves.
Execute ==
    /\ at = "start"
    /\ \/ /\ ~Allowed \/ (RequiresApproval /\ ~callback)
          /\ Finish("denied", "denied")
       \/ /\ Allowed /\ RequiresApproval /\ callback
          /\ at' = "approval"
          /\ UNCHANGED <<status, result, records>>
       \/ Allowed /\ ~RequiresApproval /\ Proceed
    /\ UNCHANGED <<settings, approved, mcp, local, attempts, report>>

\* Variant: an approval that fails counts as one.
ApprovedUnlessRejected ==
    /\ at = "approval"
    /\ \/ approved' \in BOOLEAN /\ Proceed
       \/ Finish("denied", "denied") /\ UNCHANGED approved
    /\ UNCHANGED <<settings, mcp, local, attempts, report>>

\* A callback that raises makes the call fail.
ApprovalEnds ==
    /\ at = "approval"
    /\ \/ approved' = TRUE /\ Proceed
       \/ Finish("denied", "denied") /\ UNCHANGED approved
       \/ Finish("failure", "failure") /\ UNCHANGED approved
    /\ UNCHANGED <<settings, mcp, local, attempts, report>>

CredentialEnds ==
    /\ at = "credential"
    /\ \/ at' = "attempt" /\ UNCHANGED <<status, result, records>>
       \/ Finish("failure", "failure")
    /\ UNCHANGED <<settings, approved, mcp, local, attempts, report>>

-----------------------------------------------------------------------------
(* The tool.                                                               *)

Attempt(tool, end) == attempts' = Append(attempts, [tool |-> tool, end |-> end])

Reach(tool) ==
    /\ Attempt(tool, "open")
    /\ at' = "tool"
    /\ UNCHANGED <<status, result, records>>

\* LocalToolRegistry.call: a handler whose schema the arguments do not fit is
\* not reached.
CallLocal(schema) ==
    IF Fits(arguments, schema)
    THEN Reach("local")
    ELSE Attempt("local", "refused") /\ Finish("failure", "failure")

\* _dispatch_tool: MCP first, then the local tools, looked up at each attempt.
Dispatch ==
    /\ at = "attempt"
    /\ \/ mcp /\ Reach("mcp")
       \/ ~mcp /\ local /\ \E schema \in Schemas : CallLocal(schema)
       \/ /\ ~mcp /\ ~local
          /\ Finish("failure", "failure")
          /\ UNCHANGED attempts
    /\ UNCHANGED <<settings, approved, mcp, local, report>>

Ended(how) == [attempts EXCEPT ![Len(attempts)].end = how]

ToolReturns ==
    /\ at = "tool"
    /\ attempts' = Ended("answered")
    /\ Finish("success", "success")
    /\ UNCHANGED <<settings, approved, mcp, local, report>>

\* Variant: a timeout is a network error like the others.
TimeoutIsRetried == {"network", "timeout"}

\* asyncio.TimeoutError is caught before ConnectionError and OSError.
Retried == {"network"}

\* A network error is retried after a pause, wherever it arose; a timeout, any other exception, and
\* the last network error make the call fail.
ToolFails ==
    /\ at = "tool"
    /\ \E how \in {"network", "timeout", "error"} :
          /\ attempts' = Ended(how)
          /\ IF how \in Retried /\ Len(attempts) < MaxRetries
             THEN at' = "backoff" /\ UNCHANGED <<status, result, records>>
             ELSE Finish("failure", "failure")
    /\ UNCHANGED <<settings, approved, mcp, local, report>>

BackoffEnds ==
    /\ at = "backoff"
    /\ at' = "attempt"
    /\ UNCHANGED <<status, result, settings, approved, mcp, local, attempts,
                   records, report>>

\* What the skill makes of it: a status of success whatever happened, and the
\* output when the call succeeded.
SkillReports ==
    /\ at = "returned"
    /\ result # "cancelled"
    /\ report = "none"
    /\ report' = IF result = "success" THEN "data" ELSE "empty"
    /\ UNCHANGED <<at, status, result, settings, approved, mcp, local, attempts,
                   records>>

-----------------------------------------------------------------------------
(* What happens meanwhile.                                                 *)

\* Tools come and go.
RegistryChanges ==
    /\ at \in Waiting
    /\ mcp' \in BOOLEAN /\ local' \in BOOLEAN
    /\ UNCHANGED <<at, status, result, settings, approved, attempts, records, report>>

\* No handler catches a CancelledError: the finally clause runs with the status
\* of the beginning.  In the finally clause itself it ends the logging.
Cancel ==
    /\ MayCancel
    /\ \/ at \in Waiting /\ Finish(status, "cancelled")
       \/ /\ at \in Auditing
          /\ at' = "returned"
          /\ result' = "cancelled"
          /\ UNCHANGED <<status, records>>
    /\ UNCHANGED <<settings, approved, mcp, local, attempts, report>>

-----------------------------------------------------------------------------
(* The specification.                                                      *)

ToolInit ==
    /\ at = "start"
    /\ status = "success"
    /\ result = "none"
    /\ action \in Action /\ level \in Level
    /\ permissions \in SUBSET Permission
    /\ arguments \in Arguments
    /\ callback \in BOOLEAN /\ endpoint \in BOOLEAN /\ disk \in BOOLEAN
    /\ approved = FALSE
    /\ mcp \in BOOLEAN /\ local \in BOOLEAN
    /\ attempts = <<>>
    /\ records = {}
    /\ report = "none"

ToolNext ==
    \/ Execute \/ ApprovalEnds \/ CredentialEnds
    \/ Dispatch \/ ToolReturns \/ ToolFails \/ BackoffEnds \/ SkillReports
    \/ TrailAccepts \/ TrailFails \/ Alerted
    \/ RegistryChanges \/ Cancel

ToolSpec == ToolInit /\ [][ToolNext]_toolVars

-----------------------------------------------------------------------------
(* Properties.                                                             *)

ToolTypeOK ==
    /\ at \in Waiting \cup Auditing \cup {"start", "attempt", "returned"}
    /\ status \in Status
    /\ result \in Status \cup {"none", "cancelled"}
    /\ action \in Action /\ level \in Level
    /\ permissions \in SUBSET Permission
    /\ arguments \in Arguments
    /\ {approved, callback, endpoint, disk, mcp, local} \subseteq BOOLEAN
    /\ attempts \in Seq([tool : {"mcp", "local"},
                         end : {"open", "answered", "refused", "network", "timeout",
                                "error"}])
    /\ records \in SUBSET [place : Place, status : Status]
    /\ report \in {"none", "data", "empty"}

\* No attempt is made at a tool whose name no permission of the identity matches, or
\* that needs an approval and did not get it, however the call goes on.  The name is
\* all the gate looks at: neither the resource nor the policy files take part in its
\* verdict.
OnlyPermitted ==
    attempts # <<>> => Allowed /\ (RequiresApproval => approved)

\* "On-Behalf-Of": for a user, whoever it is, the agent may do nothing that it or
\* the user may not do alone, stars on either side included.
DowngradedToBoth ==
    \A user \in SUBSET Permission : \A a \in Action :
        IsActionAllowed(a, Effective(permissions, user)) =>
            IsActionAllowed(a, permissions) /\ IsActionAllowed(a, user)

\* Another attempt follows a network error alone: none follows an answer, a timeout,
\* arguments that were refused or any other error, and three are the most.  Every
\* ConnectionError and OSError is a network error, one that a tool raised after it
\* had acted included: such a tool acts again, up to three times.
RetriedOnlyOnNetworkErrors ==
    /\ Len(attempts) <= MaxRetries
    /\ \A i \in 1..(Len(attempts) - 1) : attempts[i].end = "network"

\* Where the call was recorded, it was with the result the caller was given; it
\* was in the local log, and in ActionTrail or the backup, when the disk works.
RecordsAgree ==
    at = "returned" /\ result # "cancelled" =>
        /\ \A rec \in records : rec.status = result
        /\ disk => Record("local", result) \in records
        /\ disk /\ endpoint =>
              {Record("trail", result), Record("backup", result)} \cap records # {}

Answered == \E i \in DOMAIN attempts : attempts[i].end = "answered"

\* The caller is told of a success, and its skill shows data, if and only if the
\* tool answered.
AnswersAgree ==
    at = "returned" /\ result # "cancelled" =>
        /\ result = "success" <=> Answered
        /\ report # "none" => (report = "data" <=> Answered)

\* What happened, what the caller and its skill make of it, and what was recorded is
\* the same.  A permission denied, and every failure, is recorded like a success.
RecordedAsReturned == RecordsAgree /\ AnswersAgree
=============================================================================
