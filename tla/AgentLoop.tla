------------------------------- MODULE AgentLoop -------------------------------
(***************************************************************************)
(* AgentOrchestrator.process_request (core/orchestrator.py): the           *)
(* re-entrant loop around _execute_plan.  A request is decomposed into a   *)
(* plan; each turn executes the whole plan, then hard limits and an LLM    *)
(* decide whether to go on; to go on, a second decomposition appends its   *)
(* tasks to the plan and the next turn executes the longer plan.  Nothing  *)
(* keeps the appended tasks from naming ids the plan already uses.         *)
(***************************************************************************)
EXTENDS PlanExecution

CONSTANTS
    Supplements,    \* the plans a later decomposition may return
    MaxTurns,       \* LoopConfig.max_turns
    TokenBudgetSet, \* LoopConfig.max_tokens is not None
    TimeLimitSet    \* LoopConfig.max_elapsed_ms is not None

ASSUME SupplementsAssumption == Supplements \subseteq Seq(SubTask)
ASSUME MaxTurnsAssumption == MaxTurns \in Nat
ASSUME LimitsAssumption == {TokenBudgetSet, TimeLimitSet} \subseteq BOOLEAN

VARIABLES
    stage,     \* where process_request stands
    turn,      \* turn_count
    terminal,  \* loop_terminal.reason, "none" while the loop runs
    response,  \* the AgentResponse: "none", "success" or its error_code
    hooks      \* history: the hooks that were triggered, in order

loopVars == <<stage, turn, terminal, response, hooks>>
requestVars == <<planVars, loopVars>>

HookEvent == {"pre_decompose", "post_decompose", "pre_loop_turn", "post_loop_turn",
              "on_terminal"}
Stage == {"decompose", "turn", "execute", "decide", "supplement", "respond", "end"}

\* What decompose() reads from the answer of the model: a plan, or none when the
\* model fails or its answer cannot be read.
Decomposed(answers) == answers \cup {<<>>}

\* The statuses decompose() returns: failed when the skill is not registered.
FreshStatuses(p) == [DOMAIN p -> {"pending", "failed"}]

AllFailed == \A i \in DOMAIN plan : status[i] = "failed"

AnyFailed == \E i \in DOMAIN plan : status[i] = "failed"

TurnsLeft == turn < MaxTurns

\* HookRegistry.trigger awaits the handlers of the event one after the other.
\* What they raise is logged, what they return is dropped by the orchestrator.
Trigger(event) == hooks' = Append(hooks, event)

-----------------------------------------------------------------------------
(* Actions.                                                                *)

\* The AgentErrors of _sanitize_input.  What looks like an injection is logged
\* and not refused.
InputRefused == {"EMPTY_INPUT", "INPUT_TOO_LONG"}

\* An AgentError is answered with its own code.
RejectInput ==
    /\ stage = "decompose"
    /\ stage' = "end"
    /\ response' \in InputRefused
    /\ UNCHANGED <<planVars, turn, terminal, hooks>>

\* The first decomposition.  An answer without tasks, or without a task whose
\* skill exists, ends the request before the loop.
Decompose ==
    /\ stage = "decompose"
    /\ plan' \in Decomposed(Plans)
    /\ status' \in FreshStatuses(plan')
    /\ \/ /\ \E i \in DOMAIN plan' : status'[i] = "pending"
          /\ stage' = "turn"
          /\ UNCHANGED <<terminal, response>>
       \/ /\ \A i \in DOMAIN plan' : status'[i] = "failed"
          /\ stage' = "end"
          /\ terminal' = "unrecoverable_error"
          /\ response' = IF plan' = <<>> THEN "NO_TASKS" ELSE "SKILL_NOT_FOUND"
    /\ hooks' = hooks \o <<"pre_decompose", "post_decompose">>
    /\ UNCHANGED <<sortVars, phase, levelIdx, unfiltered, waiting, gathered,
                   failedTaskIds, completedCount, planStatus, turn>>

\* A turn begins: _execute_plan sorts the plan anew and starts with fresh locals.
BeginTurn ==
    /\ stage = "turn"
    /\ TurnsLeft
    /\ turn' = turn + 1
    /\ stage' = "execute"
    /\ inDegree' = InitialInDegree(plan)
    /\ currentLevel' = Roots(plan)
    /\ levels' = <<>>
    /\ phase' = "sort"
    /\ levelIdx' = 0
    /\ unfiltered' = {}
    /\ waiting' = {}
    /\ gathered' = {}
    /\ failedTaskIds' = {}
    /\ completedCount' = 0
    /\ Trigger("pre_loop_turn")
    /\ UNCHANGED <<plan, status, planStatus, terminal, response>>

Execute ==
    /\ stage = "execute"
    /\ ExecuteNext
    /\ UNCHANGED loopVars

\* _check_loop_terminal.  With a token budget it reads the LLM calls recorded so
\* far as dictionaries; they are not, and the AttributeError is answered as an
\* internal error without a terminal.  Only when another request has emptied the
\* shared list meanwhile is there nothing to read, and the loop goes on.
CheckTerminal ==
    /\ stage = "execute"
    /\ phase = "done"
    /\ \/ /\ AllFailed
          /\ stage' = "respond"
          /\ terminal' = "unrecoverable_error"
          /\ UNCHANGED response
       \/ /\ ~AllFailed
          /\ TokenBudgetSet
          /\ stage' = "end"
          /\ response' = "INTERNAL_ERROR"
          /\ UNCHANGED terminal
       \/ /\ ~AllFailed
          /\ TimeLimitSet
          /\ stage' = "respond"
          /\ terminal' = "aborted"
          /\ UNCHANGED response
       \/ /\ ~AllFailed
          /\ stage' = "decide"
          /\ UNCHANGED <<terminal, response>>
    /\ UNCHANGED <<planVars, turn, hooks>>

\* _should_continue_loop: an answer that cannot be read, or no answer, stops.
Decide ==
    /\ stage = "decide"
    /\ \/ stage' = "supplement" /\ UNCHANGED terminal
       \/ stage' = "respond" /\ terminal' = "completed"
    /\ UNCHANGED <<planVars, turn, response, hooks>>

\* The second decomposition; an empty one leaves the plan as it is.
Supplement ==
    /\ stage = "supplement"
    /\ stage' = "turn"
    /\ \E s \in Decomposed(Supplements) :
          /\ plan' = plan \o s
          /\ \E fresh \in FreshStatuses(s) :
                status' = [i \in DOMAIN plan' |->
                    IF i <= Len(plan) THEN status[i] ELSE fresh[i - Len(plan)]]
          /\ planStatus' = IF s = <<>> THEN planStatus ELSE "pending"
    /\ Trigger("post_loop_turn")
    /\ UNCHANGED <<sortVars, phase, levelIdx, unfiltered, waiting, gathered,
                   failedTaskIds, completedCount, turn, terminal, response>>

TurnsExhausted ==
    /\ stage = "turn"
    /\ ~TurnsLeft
    /\ stage' = "respond"
    /\ terminal' = "max_turns"
    /\ UNCHANGED <<planVars, turn, response, hooks>>

\* Variant: a turn that ends the loop is not told.
RespondUntold ==
    /\ stage = "respond"
    /\ stage' = "end"
    /\ response' = IF AnyFailed THEN "PARTIAL_FAILURE" ELSE "success"
    /\ UNCHANGED <<planVars, turn, terminal, hooks>>

Respond ==
    /\ stage = "respond"
    /\ stage' = "end"
    /\ Trigger("on_terminal")
    /\ response' = IF AnyFailed THEN "PARTIAL_FAILURE" ELSE "success"
    /\ UNCHANGED <<planVars, turn, terminal>>

-----------------------------------------------------------------------------
(* The specification.                                                      *)

RequestInit ==
    /\ plan = <<>>
    /\ status = <<>>
    /\ SortInit
    /\ ExecuteInit
    /\ stage = "decompose"
    /\ turn = 0
    /\ terminal = "none"
    /\ response = "none"
    /\ hooks = <<>>

RequestNext ==
    \/ RejectInput \/ Decompose \/ BeginTurn \/ Execute \/ CheckTerminal \/ Decide
    \/ Supplement \/ TurnsExhausted \/ Respond

\* Every await of the handler returns or raises: tool and model calls carry
\* timeouts.
RequestSpec ==
    RequestInit /\ [][RequestNext]_requestVars /\ WF_requestVars(RequestNext)

-----------------------------------------------------------------------------
(* Properties.                                                             *)

LoopTypeOK ==
    /\ plan \in Seq(SubTask)
    /\ status \in [DOMAIN plan -> Status]
    /\ phase \in Phase
    /\ failedTaskIds \in SUBSET Id
    /\ stage \in Stage
    /\ turn \in 0..MaxTurns
    /\ terminal \in {"none", "completed", "aborted", "max_turns", "unrecoverable_error"}
    /\ response \in {"none", "success", "PARTIAL_FAILURE", "NO_TASKS",
                     "SKILL_NOT_FOUND", "INTERNAL_ERROR"} \cup InputRefused
    /\ hooks \in Seq(HookEvent)

\* A failure is never lost: whatever later turns append or run again, the task
\* stays failed, so the response reports it.
FailuresAreKept ==
    [][\A i \in DOMAIN plan : status[i] = "failed" => status'[i] = "failed"]_requestVars

\* A success never covers a task that failed, was cancelled or still runs,
\* although process_request only looks for failed ones: a cancelled task always
\* has a failed one beside it, even after a turn whose tasks shadowed that one.
SuccessHidesNoLoss ==
    response = "success" =>
        \A i \in DOMAIN plan : status[i] \in {"completed", "pending"}

\* The turns a handler was told of and not yet told the end of.
OpenTurns ==
    {k \in DOMAIN hooks : hooks[k] = "pre_loop_turn" /\ \A j \in DOMAIN hooks :
        j > k => hooks[j] \notin {"post_loop_turn", "on_terminal"}}

\* What a handler begins with a turn, another one can end: a turn is over, by
\* its own hook or by the last one, before the next begins and before the request
\* is answered, whatever ended the loop; only an internal error leaves it open.
\* No task is running when a handler is told of the end.
TurnsAreClosed ==
    /\ stage = "turn" \/ response \notin {"none", "INTERNAL_ERROR"} => OpenTurns = {}
    /\ Running # {} => hooks[Len(hooks)] = "pre_loop_turn"

\* "Hard cap on loop iterations": whatever the LLM answers, every request ends.
RequestEnds == <>(response # "none")

\* "Token budget exhausted -> BUDGET_EXHAUSTED": a budget is a reason to stop
\* the loop, never to answer an internal error.
BudgetIsNoError == response # "INTERNAL_ERROR"
=============================================================================
