# A verification project for AIOps-agent

TLA+ models of the agent under `src/src/aiops_agent`, model-checked with TLC on small instances, and
theorems about them proved with TLAPS for every value of the constants. Paths below are relative to
`src/src/aiops_agent`; `core/orchestrator.py` is written `orchestrator.py`, and so on.

1. [The system](#1-the-system) · 2. [Modules](#2-modules) · 3. [Runs](#3-runs-bounds-and-what-they-show) ·
4. [Fairness](#4-fairness) · 5. [Proofs](#5-proofs) · 6. [What the code does that a reader would not
expect](#6-what-the-code-does-that-a-reader-would-not-expect) · 7. [Not modelled](#7-not-modelled) ·
8. [Plan](#8-plan)

## 1. The system

A user's sentence becomes a *plan*: an LLM returns a list of sub-tasks with dependencies. The
orchestrator sorts it into levels, runs every level through *skills*, asks the LLM whether to go on,
perhaps appends another plan, and answers. Skills call *tools*, through a gate of permissions,
credentials, retries and audit; tools live in MCP servers (child processes behind pipes) or in the
process. All of it is `asyncio` on one thread: a step runs without interruption from one `await` (or
`yield`) to the next, and everything shared may have changed in between. There are no locks; the only
synchronisation is one semaphore for the tasks of a level.

| Component | State it keeps | Operations | Interacts with | What is hard | What makes it correct |
|---|---|---|---|---|---|
| Task planner (`task_planner.py`) | the plan; `in_degree`, the level frontier | `decompose`, `topological_sort` | called at each turn of the orchestrator | ids from an LLM: repeated, unknown, cyclic | levels respect dependencies and are minimal; nothing twice; only blocked tasks dropped |
| Orchestrator, synchronous execution (`_execute_plan`, `_route_to_skill`) | task statuses, `failed_task_ids`, progress | filter a level, gather it under a semaphore, collect | skills, context manager, events of the session | interleaving inside a level; cancellation that must reach transitive dependents | implements `DagExecution`; progress exact |
| Orchestrator, streaming execution (`process_request_stream`) | the same, and the event the generator is suspended on | as above, with a yield between each event and the change it announces | the web handler that consumes it, and may leave | the consumer resumes or closes at any yield; unsafe skills must run alone | implements `DagExecution`; the client is told the truth, in order; unsafe runs alone; it ends |
| Orchestrator, loop (`process_request`) | turn count, terminal, response | turns, hard limits, continue?, supplementary plan | planner, LLM | the grown plan is executed again each turn, with reused ids | no loss hidden by a success; failures kept; it ends |
| Hooks (`hooks.py`) | handlers by event | `trigger`, awaited by the loop | the loop | paths that leave the loop between two events | a turn that was told of is told to end |
| Skill registry (`registry.py`) | versions, default, health | register, unregister one/all, health check, marks | awaits hooks and health checks of skills | other callers run during the awaits; hooks raise | the default is registered; a healthy version is reachable |
| Skill health (`_record_skill_failure`) | recent failures by skill, pending mark tasks | record, mark later | registry | window and threshold; a mark that comes late | a burst is noticed exactly |
| MCP client (`mcp_client.py`) and server loop (`mcp_servers/base.py` of `src`) | process, pipes, request number; the request being handled | connect, call, disconnect; read, answer | each other, through two pipes | answers are matched by position, not id; timeouts; two readers; lines above a limit; a server that stops reading | both pipes are one queue; how late an answer can be; which calls return |
| MCP registry (`mcp_registry.py`) | clients, tool names | register, unregister, close, look up | MCP clients | awaits between two tables that must agree; exits | no look-up of a closed client; no names left over |
| Workload identity, credential manager (`identity.py`, `credential_manager.py`) | credential, background task, cache | `assume_role`, refresh loop, cached get with retries, close | STS, the token in the pod | callers and task renew at once; failures; expiry | nothing stale handed out; exactly one refresher; kept fresh |
| Tool executor, permission gate, audit logger, local tools (`executor.py`, `permission_gate.py`, `audit_logger.py`, `local_tools.py`) | one call: verdict, attempts, record | execute | gate, credentials, MCP, disk | one of many steps fails; cancellation anywhere; retry of what already acted | only what is permitted by name; retries of network errors only; the record is true |
| Agent creation (`web/server.py`, `main.py`) | the one orchestrator | `_get_orchestrator` | every handler | the creation is awaited: requests that arrive meanwhile create more; it may fail; the process may crash | one agent, with one store of sessions, serves all |
| LLM factory (`llm/provider.py`) | primary, fallback, list of pending calls | `chat`, `chat_stream` | every request | one list for all requests | fallback exactly once; no call recorded twice |
| Session store, context manager (`session.py`, `manager.py`) | sessions in memory, their files | get, create, persist, remove, idle check, messages, mode, progress | every request of a session | failed writes, corrupt files, sessions dropped under a request | no message forgotten; progress only in task mode; chat mode at rest |
| Metrics store (`metrics_store.py`) with its handlers (`web/server.py`) | a bounded list of request records | record, five queries | every request; dashboard | bisect on both ends, buckets, trimming, default range | a range shows what it should; the tables agree |
| Not modelled | see [section 7](#7-not-modelled) | | | | |

## 2. Modules

| Module | Code | State and actions |
|---|---|---|
| `TopologicalSort` | `topological_sort` | `plan`, `inDegree`, `currentLevel`, `levels`; `EmitLevel` is one turn of the `while`. Levels are sets: the order inside a level is abstracted |
| `DagExecution` | abstract | what one execution of a plan promises; both execution paths are shown to implement it |
| `PlanExecution` (extends `TopologicalSort`) | `_execute_plan`, `_route_to_skill` | `Filter` per task (skip, cancel, admit), `Dispatch`, `Start`/`Finish` between the awaits of a coroutine, `CompleteLevel`, `FinishPlan` |
| `StreamExecution` (extends `TopologicalSort`) | execution part of `process_request_stream`, its consumer in `web/server.py` | `outbox` holds the event the generator is suspended on; `Deliver` resumes it, `Abandon` closes it there |
| `AgentLoop` (extends `PlanExecution`) | `process_request`, `HookRegistry.trigger` | `Decompose`, `BeginTurn`, `Execute` (a step of `PlanExecution`), `CheckTerminal`, `Decide`, `Supplement`, `Respond`; `hooks` is the sequence of events handlers were told |
| `DemoProvider` | `llm/demo.py` | the plans a program without API keys gets: `MCAgentLoop` runs them |
| `SkillRegistry`, `SkillHealth` (extends it) | `registry.py`; `_record_skill_failure` | `call[c]` is what a caller is suspended in: `unregister` is two or more steps around its hooks, `health_check` two around the skill |
| `AnswerQueue` | abstract | what an MCP pipe promises: the answers of all requests, one after the other; `McpStdio` implements it |
| `McpStdio` | stdio half of `mcp_client.py`; the loop of `mcp_servers/base.py` | requests and answers are numbers; `requests`, `handling` and `lines` are the pipe to the server, the server and the pipe back; `ready` is the order in which the event loop runs the tasks. An answer above the reader's limit is read in `part`s. With `Room` requests unread, `Write` leaves its caller in `drain`; `Drain` is the event loop's `resume_writing`, `Cancelled` the limit of whoever called |
| `McpRegistry` | `mcp_registry.py` | `clients`, `tool_map` and what each caller awaits |
| `StsIdentity` | `identity.py`, Alibaba part of `credential_manager.py` | every credential, token and timer carries the ticks it has left, so time needs no bound |
| `PermissionGate`, `LocalTools`, `ToolExecution` (extends both) | matching of permissions; check of arguments; one call through `executor.py` with gate and audit | `at` is where the call is, `report` what the skill returns of its result; the registries change whenever it waits; `Cancel` wherever it waits |
| `LlmFactory`, `SessionStore`, `Requests` (extends both) | `provider.py`, `session.py` with `manager.py`, the agent and what overlapping requests share | `Arrive`, `Created` and `CreateFails` are `_get_orchestrator` around its await; each agent has a factory and a store, all share the files. A request is suspended at a provider, a skill or a yield; `Leave` is the client going away, `Crash` the end of the process |
| `MetricsStore` | `metrics_store.py`, metrics handlers of `web/server.py` | `RecordRequest`, `Tick`; the queries are operators, asked in every state with every range `ParseTimeParams` can answer |
| `*_proofs` | | theorems and lemmas of the module they are named for; `PlanExecution_proofs` has those of `AgentLoop`, too; `Tools_proofs` those of `McpRegistry` and `ToolExecution`; `SkillRegistry_proofs` and `Requests_proofs` end with those of `SkillHealth` and `MetricsStore` |
| `MC*` with the `.cfg` of the run | | values of the constants |

Operators under a comment "Variant" are what a plausible bug would make of the definition that follows;
nothing uses them but the mutation of that definition. `log`, `hooks`, `got`, `givenUp`, `scraps`, `shared`,
`raised`, `made`, `raced`, `heard`, `overlapped`, `interrupted`, `damaged` and `handed` are history: no guard
but a bound reads them, and they change nothing else (in `SkillHealth` the size of `log` also numbers the failures).

Every module has one type invariant. The inductive invariants (`EmittedInv`, `SortInv`, `ExecInv`, `RegistryInv`,
`ToolInv` and the others of section 5) contain it, so it is a theorem wherever something is proved, and one run only
lists it (`PlanTypeOK`): it says nothing the other properties need.

## 3. Runs, bounds and what they show

| Run | Instance | Properties |
|---|---|---|
| `PlanExecution` | three tasks, every graph between them with cycles and an unknown id, tasks without a skill, two permits: levels wider than the semaphore, chains, cycles. The sort runs inside | `PlanTypeOK`, `LevelsAreDepths`, `OnlyBlockedDropped`, `ProgressIsExact`, `OnlyBlockedLeftPending`, `ImplementsDagExecution` |
| `PlanExecutionUnsafe` | the same, one skill not `concurrency_safe` | `UnsafeRunsAlone`, **violated**: see section 6 |
| `StreamExecution` | four tasks, two of them unsafe, so that a level may hold two of each; an unknown id; leaving at any event | `UnsafeRunsAlone`, `ClientViewIsSound`, `EveryOutcomeDelivered`, `ImplementsDagExecution`, `StreamEnds` |
| `AgentLoop` | the plans of the demo provider (up to three tasks in a chain) and two tasks, acyclic or not; three turns; supplements that reuse an id or bring a new one, so the second can shadow the first; 719166 states | `SuccessHidesNoLoss`, `EmittedOnce`, `TurnsAreClosed`, `FailuresAreKept`, `RequestEnds` |
| `AgentLoopBudget` | the same | `BudgetIsNoError`, **violated**: see section 6 |
| `SkillHealth` | two versions, two callers, three registrations (a version removed, registered again and removed by the other caller during the first hook), hooks that raise; bursts of two within a window of two | `DefaultIsRegistered`, `HealthyIsReachable`, `BurstsAreNoticed` |
| `McpStdio` | two tasks, four requests, answers of one or two pieces, room for one unread request: connect takes the first, so a timeout, a long answer and the calls after them fit, and a task drains behind a request that was given up, or that another task waits for | `LateByGivenUp`, `ImplementsAnswerQueue`, `CallReturns` |
| `McpRegistry` | two servers whose tools may share names, two callers, three clients, processes that exit | `LookupIsOpen`, `MappedIsServed` |
| `StsIdentity` | a caller and the background task; a credential lives 3 ticks, is renewed 1 before its end, STS takes up to 1, tokens live 3. Two background tasks suffice: a new one starts only when the old one was cancelled or is the one that asks | `HandedOutFresh`, `OneRefresher`, `KeptFresh` |
| `ToolExecution` | two actions, permissions by name, prefix and star; every level, approval, endpoint and disk; arguments that fit and that do not | `OnlyPermitted`, `DowngradedToBoth`, `RetriedOnlyOnNetworkErrors`, `RecordedAsReturned` |
| `Requests` | two requests, one session, two LLM calls, two agents, one crash, one operation on a store, every primary and fallback a configuration can lead to; 855182 states | `ServedByOneAgent`, `CallFallsBack`, `ProgressOnlyInTask`, `RecordedOnce`, `RecordsOwnCalls`, `QuietInChat`, `NothingForgotten` |
| `MetricsStore` | three records of two kinds in a store of two, a clock of nine steps, of which a minute has two, an hour four and a day eight, every range and the default one of five steps: ranges that start or end inside a minute, an hour or a day, or before the first record, records of two days or of one moment, a full store, records older than the default range | `NothingMissed`, `DashboardAddsUp` |

In words:

- **Planner.** For a plan with distinct ids the level of a task is the length of the longest chain below it.
  With repeated ids, which `AgentLoop` has, only "no id twice" is left: the edges of the shadowed task count
  down the shadowing one.
- **Execution.** Both paths refine `DagExecution`: a task starts only after all its dependencies
  completed, is cancelled only because one was lost, and no outcome is revised. The mapping is the
  identity on `plan` and `status`; everything else stutters. The runs use plans with distinct ids; the loop
  uses plans without that.
- **Stream.** `ClientViewIsSound` is about what was delivered, not about what happened: each event is
  compared with the status *now*, so an event sent before its change, or after a revision, breaks it.
- **Loop.** `SuccessHidesNoLoss` is why looking for failed tasks only is enough: a cancelled task always
  has a failed one beside it, even after a turn whose tasks shadow it. It admits pending tasks (section 6).
  `TurnsAreClosed` is for whoever hangs something on `PRE_LOOP_TURN`: the next turn and the answer come only
  after `POST_LOOP_TURN` or `ON_TERMINAL`, except when an internal error skips both (section 6).
- **Registry.** The two exceptions in `DefaultIsRegistered` (an `unregister` in progress, a hook that
  raised) are the only ones.
- **MCP client.** Client, pipes and server implement `AnswerQueue`: the queue is what has arrived, what the server
  is handling and what it has not read, and no interleaving of the tasks skips an answer or returns to one. Who gets which
  answer is another matter: of tasks that take turns, each gets one late by exactly the number of requests
  given up and of pieces read as answers, for the rest of the connection. That is what the code does; the
  property pins it down. `CallReturns` is about the two places a request waits in. The read has 30 seconds; the
  `drain` in front of it (`mcp_client.py:189`) has no limit, and its caller goes on when there is room again or the
  process ends. So a request whose caller does not give up is answered, refused or timed out, or the server lives and
  has stopped reading for good, with more unread requests than there is room for. Without that exception TLC finds the
  call that never returns.
- **Credentials.** `KeptFresh` needs the proviso `TokenSpent`: the task goes on with the token it was
  started with.
- **Tools.** No attempt without a permission that matches the *name* of the tool, which is all the code compares
  (section 6). A further attempt follows a network error only, never an answer, a timeout or another error; a network
  error that arose after the tool had acted is one, too (section 6). What the caller is told, what its skill shows and
  what was recorded agree, and are a success exactly when the tool answered, whichever of gate, tool, trail and disk
  fails, unless the call is cancelled.
- **Requests.** What overlapping requests still get right: no call in two records, a progress only in task
  mode, chat mode at rest, no message lost unless a file could not be written. Requests that arrive while the
  first agent is created are the exception to all that speaks of one agent, a crash to all that was only in
  memory; no other is needed.
- **Metrics.** What the dashboard shows of one range in its panels comes from five queries that share only the
  bisect; they agree, at the borders of buckets and with ranges that begin or end inside one, and a bucket nobody knows loses
  nothing.

Bounds that are guards (`Room` of `McpStdio` is the system's, the pipe and the write buffer, made small): `MaxRegistrations`, `MaxCalls`, `MaxTime`, `MaxFailures` (`SkillHealth`),
`MaxRequests`, `MaxPieces` (`McpStdio`), `MaxClients` (`McpRegistry`), `MaxAgents`, `MaxCrashes`, `MaxCalls`,
`MaxStoreOps` (`Requests`), `MaxTime`, `MaxRecords` (`MetricsStore`), `MaxDelay` (`StsIdentity`; the other timers are
the code's). `MaxTurns` is the code's `LoopConfig.max_turns`. `CHECK_DEADLOCK FALSE` is said where the
program really stops (a plan is done, a request is answered) or a bound is used up; `StsIdentity` runs for
ever and is checked for deadlock. Symmetry is used only where no liveness is checked.

## 4. Fairness

- `PlanSpec`, `StreamSpec`, `RequestSpec`: weak fairness of the whole next-state relation. A coroutine
  that is ready is resumed by the event loop, and one that awaits a skill or a model returns or raises, because
  tool calls carry a timeout (`executor.py:247`), and so do the HTTP sessions of the LLM clients (`llm/qwen.py:47`). Nothing chooses among the
  steps: no task, LLM decision or client is treated fairly by itself. For a stream, a write to the client
  succeeds or fails.
- `McpStdio`: weak fairness of `Read`, `DrainEnds` and `Timeout` of each task: the event loop runs whoever may go on,
  and `asyncio.wait_for` fires. Nothing of the server, which may never read or answer, and nothing of `Cancelled`: the
  client does not rely on its caller. In the program the caller of `call_tool` gives up (`executor.py:246`);
  `connect` and `list_tools` are awaited by `MCPRegistry.register` (`mcp_registry.py:55`) without a limit.
- `StsIdentity`: weak fairness of the clock, the event loop, the kubelet that rotates the token before it
  expires (`TokenRotated /\ pod = 1`) and of an answer of STS once it is there. Strong fairness of
  `StsGrants`: STS does not refuse a valid token for ever. It is a hypothesis about the service; without it
  `KeptFresh` says nothing. No caller has to call.
- `SkillHealth`, `McpRegistry`, `ToolExecution`, `Requests`, `MetricsStore` have safety properties only and
  assume no fairness.

## 5. Proofs

All for every value of the constants that satisfies the module's named assumptions.

**`TopologicalSort_proofs`.** `TypeCorrect`; `DispatchedOnce` (`EmittedOnce`, for any plan, repeated ids
included); `LevelsRespectDependencies` (`LevelsAreDepths`); `BlockedDropped` (`OnlyBlockedDropped`, when
the ids of every plan are distinct; the premise is in the formula). Assumed: `Id` finite, plans are sequences of sub-tasks.
`NoneLeft` says of any plan: an emitted id, or one of the frontier, has in-degree at most 0. It is kept
because a release needs a positive in-degree and leaves none. `SortInv` says of a plan with distinct ids: the
in-degree of a task is the *number* of its dependencies not yet emitted, and the frontier is exactly the tasks
of in-degree 0 not yet emitted. `LevelsAreDepths` alone is not inductive: it does not say that a counter that
reaches 0 counted every dependency. The step rests on the cardinality lemmas of the library: the decrements of
a task in one level are its dependencies in that level, one each.

**`PlanExecution_proofs`, synchronous execution.** `PlanTypeCorrect`, `PlanImplementsDag` (`ImplementsDagExecution`),
`OnlyBlockedPending` (`OnlyBlockedLeftPending`), `ProgressCountsCompleted` (`ProgressIsExact`), when the ids of every plan are distinct, for any number of permits.
`ExecInv` adds to the sort invariant, phase by phase: tasks of levels left behind have ended, and are
completed, or lost with their id in `failed_task_ids`, or had a dependency no task has; tasks of later
levels are untouched; what the filter admitted depends on nothing lost (`GatheredAreFree`); and
`failed_task_ids` names lost tasks only. With `LevelsAreDepths`, "depends on nothing in
`failed_task_ids`" then means "all dependencies completed", which is what `DagExecution` asks of a start.
`ProgressInv` adds that the counter is the number of completed tasks outside the gather that is running: it is wrong
for the tasks of that gather, which complete one by one and are counted at once when it returns, and no earlier level
is counted again.

**`PlanExecution_proofs`, loop.** `LoopTypesHold`, `FailuresKept` (`FailuresAreKept`), `SuccessIsWhole`
(`SuccessHidesNoLoss`), `TurnsClosed` (`TurnsAreClosed`), `EmittedOnceEachTurn` (`EmittedOnce`), for any plans, supplements and number of turns. Here ids may
repeat, tasks have been run before, and neither `SortInv` nor `ExecInv` holds: a shadowed task is never looked at, and
a level may hold a task whose dependency comes later. What is left is `TurnInv`: a failed task is not admitted, so none
waits for a permit or is started again; and if anything is cancelled, or `failed_task_ids` is not empty, some task has
failed. The second half is why a success hides no loss: a cancellation needs an id in `failed_task_ids`, and the first
one in there in a turn is that of a failed task. `LoopInv` adds where the last hook stands, by the place in the loop; `SortedOnce` that `NoneLeft`, the fact behind
`DispatchedOnce`, holds in every turn of the plan as it is then.

**`StreamExecution_proofs`.** `StreamTypesHold`, `UnsafeAlone` (`UnsafeRunsAlone`), `OutcomesDelivered`
(`EveryOutcomeDelivered`) for any plan; `ClientViewSound` (`ClientViewIsSound`) and `StreamImplementsDag`
(`ImplementsDagExecution`) when the ids of every plan are distinct. Three layers. `ControlInv` says where every task
stands, by the sets of the generator, its phase and the event it is suspended on: a task told to start is still
`pending` while the client reads of it. It suffices for the first theorem, since in the sequential half `OneByOne`
has at most one task running and only when no event is on its way. `StoryInv` has six stories of a task, of what the client was told, what is in the outbox and
what the status is; none of them has an outcome the client can miss, once the outbox is empty and nothing is
`Awaited`. `FreedomInv` needs `SortInv`: a task that may still start depends on nothing in `failed_task_ids`, and what
it depends on is in a level that was left, so it completed and the client was told. A closed stream changes nothing, so
what held when the consumer left holds ever after.

**`Requests_proofs`.** Every invariant the run checks, for any requests, sessions, agents, configured providers and
crashes, with the types (`RequestsTypesHold`): `AgentIsShared` (`ServedByOneAgent`), `ProgressFollowsMode`
(`ProgressOnlyInTask`), `SessionsEndInChat` (`QuietInChat`), `MessagesAreKept` (`NothingForgotten`), `CallsFallBack`
(`CallFallsBack`), `CallsAreRecordedOnce` (`RecordedOnce`), `RecordsAreOwn` (`RecordsOwnCalls`). All rest on `BaseInv`:
who has an agent, who may await a provider, which stores hold sessions. `TaskIsUnderWay` and `HeardIsFound` speak of
what `Get` *would* find, in memory or by restoring the file, since a session moves between the two. `CallInv` says
which attempts a call that is waiting has behind it; `Listed` that whatever a list or a record holds is an attempt its
request made, so a new attempt, which is in nobody's history, is in none of them; `ListIsOwn` that the list of an agent
is the history of the request that has it for itself. The bound on calls is on their sum, a fold (`Calls`), of which
the proofs need nothing: a call number is any natural number to them.

**`Requests_proofs`, metrics.** `MetricsTypesHold`, `NothingIsMissed` (`NothingMissed`) and `DashboardAgrees`
(`DashboardAddsUp`), for any size of the store, records, clock and units of time in which a day is a number of hours. `MetricsInv`: the records are in the order of their timestamps (they are stamped as they are
stored), and `events` is what trimming all of them at once would leave. The search is a function defined by halving, so
two things are to be shown of it without an induction: that such a function exists (`ClampSearches` gives it in closed
form) and that every one of them finds the place (`HalvingFinds`: of the ranges where it does not, one with the
fewest places leads to a smaller one). `NothingMissed` says of the answer that it is one run of the kept records and
has exactly those in the range.

`DashboardAgrees` is the conjunction of three theorems, and rests on nothing but what a range shows (`RangeType`).
The totals are folds of the community modules, each a function on sets defined by taking one element away, and get the
same treatment as the search: counting what falls into a set of parts is one such function (`CountingSums`), and every
one agrees with it (`SummingCounts`: else take a smallest set where it does not), so that the sizes of the parts add up
to the size of the whole (`SizesSum`). What is left is to name the parts.
- `TimelineAgrees`: the parts are the entries of the timeline. A moment of the range is rounded to the beginning of
  exactly one of them (`OneBucket`), which for a bucket nobody knows, days listed by the hour, takes `DayAssumption`.
- `CallsAgree`: the calls of a range, as places in lists of lists, fall into requests (`ByRequest`) and into callees
  (`ByCallee`).
- `PercentilesInOrder`: `sorted` gives every value a place of its own (`BeforeGrows`), so every place is taken and
  the result is ordered (`SortedOrders`); between neighbours the interpolation follows the weight, and the rank
  grows with the percentage (`PercentilesGrow`).

**`StsIdentity_proofs`.** `StsTypesHold`, `CredentialsAreFresh` (`HandedOutFresh`), `RefresherIsOne` (`OneRefresher`),
for any callers, tasks and durations. Assumed: a caller is not a background task (`WorkerAssumption`), and what
`DurationAssumption` says: `RefreshBefore` and the delay of an answer together are less than a credential lives.
`AskingInv` is what `HandedOutFresh` needs: an answer that is on its way has lost no more of its life than it was
allowed to take.

**`McpStdio_proofs`.** `StdioTypesHold`, `AnswersAreLate` (`LateByGivenUp`), `PipesAreAQueue`
(`ImplementsAnswerQueue`), for any callers and bounds. `Order` says that requests, the one in the server and the
answers are consecutive numbers up to `written`: a later piece repeats the number of its answer, and every number from
the head of the pipe to its end begins there (`Chain`), so that no answer is lost among the pieces. Then
the mapped queue is `Run(First, written)`: `CountUpTo` has as many beginnings up to a piece as there are numbers up to
its own, by a bijection. `Turns` says that the task at the head of the event loop's queue is one that may run, which
makes `Read` the step of a caller with a request. `Debt` is the balance behind `LateByGivenUp` and holds only until two
tasks were in the client together.

**`Tools_proofs`, registry.** `McpTypesHold`, `LookupFindsOpen` (`LookupIsOpen`), `MappedNamesAreServed`
(`MappedIsServed`), for any servers, tools, callers and clients. `HeldOnce`: one server or one suspended operation has
a client, never two; `HeldIsOpen`: whoever has it, has it open. A look-up goes through a server, so what it finds is
open and no operation is closing it.

**`SkillRegistry_proofs`.** `RegistryTypeCorrect`, `DefaultVersionRegistered`
(`DefaultIsRegistered`), `HealthyVersionsReachable` (`HealthyIsReachable`), for any versions, callers and
interleaving, hooks that raise included. `RegistryInv` adds what a suspended `unregister` holds; its step is
one lemma for each half of a suspended operation.
Of `SkillHealth`: `HealthTypesHold`, `HealthUsesTheRegistry` (`HealthSpec => RegistrySpec`, so the registry's theorems hold under the
calls of the orchestrator) and `BurstsNoticed` (`BurstsAreNoticed`), for any threshold and window. `PrunedAreOld` is what
it needs: a failure that was pruned was out of the window then, and the clock does not step back.

**`Tools_proofs`, executor.** `ToolTypes`, `PermittedOnly` (`OnlyPermitted`), `RetriesOnlyNetwork`,
`RecordsMatch` (`RecordedAsReturned`), `Downgraded` (`DowngradedToBoth`) and `EffectiveKeepsNames`.
`ToolInv` is the conjunction of four: `CallInv` (where the call is, its attempts: only the last is open, all
before it ended in a network error), `PermitInv` (from the first attempt on, the verdict was yes),
`RecordInv` (what is recorded so far, place by place, with the status the call will return), and `AnswerInv`
(nothing has answered while the call goes on, and once it is over an answer makes it a success). `Downgraded` rests on
`CoversAssumption`: a star matches whatever a star inside of what it matches does, which is true of
`fnmatch` for patterns of stars.

**Only model-checked:** the liveness properties (`StreamEnds`, `RequestEnds`, `CallReturns`, `KeptFresh`): fairness and
`ENABLED` are outside what the provers do.

## 6. What the code does that a reader would not expect

Two disagreements are runs of their own. **With `max_tokens` set, a request whose first turn did not fail altogether
ends as `INTERNAL_ERROR`** (`AgentLoopBudget`): `orchestrator.py:947` reads `LLMCallEvent` dataclasses with
`c.get(...)`. The comment at :927 and the repository's README promise `budget_exhausted`. **The synchronous path runs unsafe skills
together with others** (`PlanExecutionUnsafe`): `concurrency_safe = False`, of which the repository's README says
"Skill executes sequentially", is honoured by the streaming path only; `_execute_plan` gathers every task of a
level (`orchestrator.py:832`).

The models do the same as the code in the following cases too; no property claims otherwise.

*Planning and execution*
- A success may cover tasks that never ran: of a cycle, of an unknown dependency, or appended after the last
  turn (`orchestrator.py:321` looks for FAILED only).
- Each turn runs the whole grown plan again, completed tasks included (:232).
- Appended tasks may reuse ids; the sort keeps the last task of that name and the edges of both
  (`task_planner.py:153`), so a task can run before its dependency.
- A request that ends in an exception has no terminal and triggers no `ON_TERMINAL` (:332): what a hook handler began
  with the turn is not ended. `POST_LOOP_TURN` is triggered only when another turn follows (:281), and what
  handlers return is dropped. `PRE_SKILL_EXECUTE`, `POST_SKILL_EXECUTE` and `ON_ERROR` are never triggered.
- `NO_TASKS` streams and abandoned streams are not recorded (:423); synchronous requests are recorded
  without skill calls (:363).
- Requests that overlap share one list of LLM calls, which each clears (:122, :354, :370), and one session,
  which the first that ends switches back to chat (:793).

*Skills*
- An `on_unregister` that raises leaves the default on the removed version (`registry.py:100`); a version
  registered during `unregister` of all is dropped, without its hook (:114).
- `get_skill` returns an unhealthy skill all the same (:181); a health verdict may be written to another version
  than the one asked (:233).
- A failure counts although calls in between succeeded (`orchestrator.py:1091`), and the mark is a task of its
  own that may overrule a later success (:1109).

*MCP*
- After a timeout every answer is taken for that of the next request (`mcp_client.py:200`, :266).
- An answer above 64 KiB, the limit of the reader, is an error, and its rest is read as the answer to the next
  request (:193). The server logs to a stderr that is a pipe nobody reads (:237): once it is full the server
  blocks, and every call to it times out. When requests have filled the other pipe and the write buffer, calls do not even
  time out: `drain` (:189) is not inside the `wait_for`. A request above 64 KiB ends the server (`mcp_servers/base.py:50`).
- A `list_tools` that fails leaks the client (`mcp_registry.py:57`); of two registrations of one server at once
  the first client leaks (:59); `close` stops at a server that has exited (:161); an unregistered server leaves
  names it had taken from others unserved (:61).

*Credentials, tools*
- The background task renews with the token of the request that started it (`identity.py:203`); an
  `assume_role` under way at `close` brings credential and task back (:157).
- A tool call cancelled in mid-air is recorded as a success, the initial value (`executor.py:120`); one cancelled
  in the audit may leave no record (`audit_logger.py:85`).
- The level is read from CamelCase verbs while tool names are snake_case, so every tool is read-only
  (`permission_gate.py:45`). The resource takes no part in the verdict: `_is_action_allowed` (:225) ignores the
  `resource_arn` it is given, although :63 and :107 say that ARN patterns are matched and the refusal at :144 names the
  resource; only a test calls `_match_resource_arn` (:249), and no caller of `execute` passes an ARN. The RAM policies are
  loaded (:302, `main.py:149`) and never consulted, their Deny statements included: nothing calls `get_policy` (:316).
  `OnlyPermitted` speaks of names only. What two overlapping patterns both allow is lost, although the comment at :266
  says it is kept; `user_permissions` is never passed (`executor.py:125`).
- Skills call tools under names the identity's permissions do not match; the calls are denied and the skill
  reports a success with empty data (`skills/monitoring.py:95`).
- Every `ConnectionError` and `OSError` counts as a network error and is retried (`executor.py:255`), one raised after
  the request was sent, or by a local handler that failed to open a file, included: a tool may act up to three times.
- `ToolExecutor` is built without a local registry (`main.py:166`); the third-party cache never hits
  (`credential_manager.py:203`).

*Sessions, metrics, wiring*
- An idle session whose file cannot be written is dropped (`session.py:110`). Nothing in the program calls the
  idle check, `persist`, `cancel_task`, `pause_task` or `remove`: in `SessionStore` they come at any time. As the
  program is, then, no session survives its process; a file that was written in the middle of a request
  leaves the session in task mode when it is restored after a crash.
- Requests that arrive while the first one awaits `create_agent`, which it does when a role is configured, create one
  agent each (`web/server.py:37`); the last one stays, and what the others hold of sessions, health and credentials is not
  seen again. A region that is not allowed ends the process with the first request, not at the start (`main.py:66`).
- The list of recent requests is the whole store for `limit=0`, and all but the oldest for a negative limit
  (`metrics_store.py:289`); a bucket nobody knows is a day wide in one place and an hour in another (:145, :153), so its
  timeline has empty hours.
- A stream that falls back repeats what the primary had already sent (`provider.py:246`).
- The queries bisect by timestamp, which needs a clock that does not step back (`metrics_store.py:72`).

## 7. Not modelled

- `state_machine.py`: guards nothing; the orchestrator makes one for each call, at PENDING, and drops it.
- The clients of LLM vendors and of cloud APIs, OpenTelemetry: wrappers of other software. To the models they
  are answers, failures and silence. The summary the demo provider words from results is text.
- `HookRegistry.register`, `unregister` and `list_hooks`: called by nobody, so the handlers do not change.
- `memory.py`, `resource_resolver.py`: lists and searches without a property that could go wrong
  over several steps; nothing reads the memory back.
- `security_guard.py`: injected, and its windows of rates never called. `sanitizer.py`: a pure function over regular
  expressions.
- What skills compute, prompts, wording, static pages, configuration, manifests. Sums and means of durations
  and tokens in the metrics.
- The HTTP transport of the MCP client keeps no state between requests.
- A crash is modelled where something survives it: sessions (`Requests`). Plans, tool calls and credentials are
  in memory only, and begin anew.

`PROJECT.json` lists every component with its status, and every hazard with the properties aimed at it.

## 8. Plan

Done, in this order: the planner; the abstract execution and its synchronous refinement; the stream; the loop;
skills; MCP; credentials; tools; requests with sessions and LLM calls; metrics. Proofs of the planner, the
synchronous execution, the skill registry and the tool call. Then hooks and the demo provider in the loop; the server
loop and `AnswerQueue`; agents created in a race and the crash; all queries of the dashboard. Then proofs of the stream
with its refinement, the progress, the loop, requests, credentials and the MCP registry, of the stdio client with its
refinement, of the skill health, and of the metrics store with what its dashboard adds up.

Every safety property of a run that is expected to pass has a theorem now. Next, once the code calls or persists them:
the windows of rates of `security_guard.py`, and the memory layer.
