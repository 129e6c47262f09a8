------------------------------ MODULE LlmFactory ------------------------------
(***************************************************************************)
(* LLMProviderFactory (llm/provider.py): a call is attempted with the      *)
(* primary provider and, when that fails, with the fallback.  Every        *)
(* attempt that ends is appended to one list, _pending_llm_calls, shared   *)
(* by all requests of the agent the factory belongs to; what a request     *)
(* made can be told from it only by when the list is cleared.              *)
(*                                                                         *)
(* chat and chat_stream differ in what they return, not in what they       *)
(* record, so one operation stands for both.                               *)
(***************************************************************************)
EXTENDS Naturals, Sequences, Functions

CONSTANTS
    Factory,    \* the factories of a process, one for each agent
    Request,    \* the requests to the process
    None,       \* no provider
    MaxCalls    \* bound: LLM calls of all requests

\* A provider "gpt" may be registered too; nobody asks it.
Provider == {"demo", "qwen", "claude"}

ASSUME ProviderAssumption == None \notin Provider
ASSUME MaxCallsAssumption == MaxCalls \in Nat

VARIABLES
    primary,    \* _primary_name, set when the program starts
    fallback,   \* _fallback_name, or None
    pending,    \* _pending_llm_calls of each factory
    asking,     \* the provider the call of a request awaits, or None
    outcome,    \* how the latest call of a request ended
    calls,      \* how many calls a request has begun
    made        \* history: the attempts a request has made, in order

llmVars == <<primary, fallback, pending, asking, outcome, calls, made>>

Event == [request : Request, call : Nat, provider : Provider, ok : BOOLEAN]
Outcome == {"none", "open", "answered", "unavailable"}

-----------------------------------------------------------------------------

\* Variant: the fallback is not tried.
NoFallback == FALSE

HasFallback == fallback # None /\ fallback # primary

\* The calls of all requests.
Calls == FoldFunction(+, 0, calls)

StartCall(r) ==
    /\ Calls < MaxCalls
    /\ calls' = [calls EXCEPT ![r] = @ + 1]
    /\ asking' = [asking EXCEPT ![r] = primary]
    /\ outcome' = [outcome EXCEPT ![r] = "open"]
    /\ UNCHANGED <<primary, fallback, pending, made>>

\* An attempt ends and is recorded.
Logged(f, r, ok) ==
    LET event == [request |-> r, call |-> calls[r], provider |-> asking[r], ok |-> ok] IN
    /\ pending' = [pending EXCEPT ![f] = Append(@, event)]
    /\ made' = [made EXCEPT ![r] = Append(@, event)]

ProviderAnswers(f, r) ==
    /\ asking[r] # None
    /\ Logged(f, r, TRUE)
    /\ asking' = [asking EXCEPT ![r] = None]
    /\ outcome' = [outcome EXCEPT ![r] = "answered"]
    /\ UNCHANGED <<primary, fallback, calls>>

\* The demo provider looks up keywords: it calls no service that could fail it.
CanFail(provider) == provider # "demo"

\* The fallback has its turn after the primary; then the call raises.
ProviderFails(f, r) ==
    /\ asking[r] # None
    /\ CanFail(asking[r])
    /\ Logged(f, r, FALSE)
    /\ IF asking[r] = primary /\ HasFallback
       THEN /\ asking' = [asking EXCEPT ![r] = fallback]
            /\ UNCHANGED outcome
       ELSE /\ asking' = [asking EXCEPT ![r] = None]
            /\ outcome' = [outcome EXCEPT ![r] = "unavailable"]
    /\ UNCHANGED <<primary, fallback, calls>>

\* The consumer of a stream leaves at a token: the attempt is not recorded.
LeaveCall(r) ==
    /\ asking' = [asking EXCEPT ![r] = None]
    /\ outcome' = [outcome EXCEPT ![r] = "none"]
    /\ UNCHANGED <<primary, fallback, pending, calls, made>>

\* What create_agent registers: the demo provider without a key for qwen, and
\* claude as the fallback of qwen when there is a key for it.
LlmInit ==
    /\ \/ primary = "demo" /\ fallback = None
       \/ primary = "qwen" /\ fallback \in {None, "claude"}
    /\ pending = [f \in Factory |-> <<>>]
    /\ asking = [r \in Request |-> None]
    /\ outcome = [r \in Request |-> "none"]
    /\ calls = [r \in Request |-> 0]
    /\ made = [r \in Request |-> <<>>]

-----------------------------------------------------------------------------
(* Properties.                                                             *)

LlmTypeOK ==
    /\ primary \in Provider
    /\ fallback \in Provider \cup {None}
    /\ pending \in [Factory -> Seq(Event)]
    /\ asking \in [Request -> Provider \cup {None}]
    /\ outcome \in [Request -> Outcome]
    /\ calls \in [Request -> Nat]
    /\ made \in [Request -> Seq(Event)]

\* The attempts of the latest call of a request, as positions in made.
Attempts(r) == {k \in DOMAIN made[r] : made[r][k].call = calls[r]}

\* A call is given up only when every configured provider has failed it, and no
\* provider is asked twice; it is answered by the last one asked.
CallFallsBack ==
    \A r \in Request :
        LET a == Attempts(r) IN
        /\ \A k, l \in a : made[r][k].provider = made[r][l].provider => k = l
        /\ \A k \in a : made[r][k].ok => \A l \in a : l <= k
        /\ outcome[r] = "answered" => \E k \in a : made[r][k].ok
        /\ outcome[r] = "unavailable" =>
              \A p \in {primary, fallback} \ {None} :
                  \E k \in a : made[r][k].provider = p /\ ~made[r][k].ok
=============================================================================
