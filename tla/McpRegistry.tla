------------------------------ MODULE McpRegistry ------------------------------
(***************************************************************************)
(* MCPRegistry (tools/mcp_registry.py): the MCP servers that are connected *)
(* and the tool names that lead to them.                                   *)
(*                                                                         *)
(* The registry has no lock.  unregister takes the client out, waits for   *)
(* it to disconnect and only then removes the tools; register waits for    *)
(* the connection and the tool list before it writes either table.  Other  *)
(* callers run in between.                                                 *)
(*                                                                         *)
(* An MCPClient is a number, in the order of connect.  connect and         *)
(* list_tools are one step here: nothing of the registry changes between.  *)
(***************************************************************************)
EXTENDS Naturals

CONSTANTS
    Server,        \* server names
    Tool,          \* tool names
    Caller,        \* concurrent callers
    None,          \* no server
    MaxClients,    \* bound: clients that are created
    MayCrash       \* whether a server process may exit by itself

ASSUME ServerAssumption == None \notin Server
ASSUME MaxClientsAssumption == MaxClients \in Nat
ASSUME MayCrashAssumption == MayCrash \in BOOLEAN

VARIABLES
    clients,   \* self._clients: client by server, 0 if absent
    tool_map,  \* self._tool_map (and self._tools): server by tool, or None
    last,      \* the latest client
    open,      \* connection by client: "new", "up", "crashed", "down"
    offers,    \* the tools that client was told its server has
    call       \* what each caller is suspended in

mcpVars == <<clients, tool_map, last, open, offers, call>>

Client == 1..MaxClients
Connection == {"new", "up", "crashed", "down"}

Idle == [op |-> "idle"]
Closed == [op |-> "closed"]   \* close has returned, or raised: the caller is done
Connecting(s, n) == [op |-> "connect", server |-> s, client |-> n]
\* The unregister of s: alone, at the start of a register, or in close, which
\* has the servers of `left' before it.
Removing(by, s, n, left) ==
    [op |-> "remove", by |-> by, server |-> s, client |-> n, left |-> left]

Purpose == {"unregister", "register", "close"}
Call == {Idle, Closed}
    \cup {Connecting(s, n) : s \in Server, n \in Client}
    \cup {Removing(by, s, n, left) :
            by \in Purpose, s \in Server, n \in Client, left \in SUBSET Server}

Registered == {s \in Server : clients[s] # 0}

-----------------------------------------------------------------------------
(* Steps the operations are made of.                                       *)

\* Variant: no name is dropped.
NothingCleaned(S) == tool_map

\* The tools of the servers S are dropped, whichever client they came from.
Cleaned(S) == [t \in Tool |-> IF tool_map[t] \in S THEN None ELSE tool_map[t]]

\* MCPClient.connect starts the process, or the HTTP session, before it can fail.
StartConnect(c, s) ==
    /\ last < MaxClients
    /\ last' = last + 1
    /\ open' = [open EXCEPT ![last + 1] = "up"]
    /\ call' = [call EXCEPT ![c] = Connecting(s, last + 1)]

\* Variant: the client is taken out when it has been disconnected.
PopLate(c, by, s, left) ==
    /\ clients[s] # 0
    /\ call' = [call EXCEPT ![c] = Removing(by, s, clients[s], left)]
    /\ UNCHANGED <<clients, tool_map, last, open, offers>>

\* unregister up to the disconnect.
Pop(c, by, s, left) ==
    /\ clients[s] # 0
    /\ clients' = [clients EXCEPT ![s] = 0]
    /\ call' = [call EXCEPT ![c] = Removing(by, s, clients[s], left)]
    /\ UNCHANGED <<tool_map, last, open, offers>>

\* The process has exited: terminate raises, the kill of its handler raises as
\* well, and the operation ends here, without waiting and without removing the
\* tools.
PopRaises(c, s, after) ==
    /\ clients[s] # 0
    /\ open[clients[s]] = "crashed"
    /\ clients' = [clients EXCEPT ![s] = 0]
    /\ call' = [call EXCEPT ![c] = after]
    /\ UNCHANGED <<tool_map, last, open, offers>>

-----------------------------------------------------------------------------
(* Operations.                                                             *)

\* A server that is registered is unregistered first.
Register(c, s) ==
    /\ call[c] = Idle
    /\ \/ Pop(c, "register", s, {})
       \/ PopRaises(c, s, Idle)
       \/ /\ clients[s] = 0
          /\ StartConnect(c, s)
          /\ UNCHANGED <<clients, tool_map, offers>>

\* connect or list_tools raised: the client is dropped as it is.  The process
\* may not even have been started.
ConnectFails(c) ==
    /\ call[c].op = "connect"
    /\ \E state \in {open[call[c].client], "down"} :
          open' = [open EXCEPT ![call[c].client] = state]
    /\ call' = [call EXCEPT ![c] = Idle]
    /\ UNCHANGED <<clients, tool_map, last, offers>>

\* Later registrations take over the names of earlier ones.
Mapped(s, T) == [t \in Tool |-> IF t \in T THEN s ELSE tool_map[t]]

Connected(c) ==
    /\ call[c].op = "connect"
    /\ \E T \in SUBSET Tool :
          /\ offers' = [offers EXCEPT ![call[c].client] = T]
          /\ tool_map' = Mapped(call[c].server, T)
    /\ clients' = [clients EXCEPT ![call[c].server] = call[c].client]
    /\ call' = [call EXCEPT ![c] = Idle]
    /\ UNCHANGED <<last, open>>

\* A server that is not registered only has its tools removed.
Unregister(c, s) ==
    /\ call[c] = Idle
    /\ \/ Pop(c, "unregister", s, {})
       \/ PopRaises(c, s, Idle)
       \/ /\ clients[s] = 0
          /\ tool_map' = Cleaned({s})
          /\ UNCHANGED <<clients, last, open, offers, call>>

\* The names are those at the time of the call.
Close(c) ==
    /\ call[c] = Idle
    /\ \E s \in Registered :
          Pop(c, "close", s, Registered \ {s}) \/ PopRaises(c, s, Closed)

\* The client is disconnected, the tools of the server are removed, and the
\* operation goes on to where it waits next.  close passes over the servers G
\* that somebody else has unregistered meanwhile.
Disconnected(c) ==
    /\ call[c].op = "remove"
    /\ LET s == call[c].server  n == call[c].client  left == call[c].left IN
       \/ /\ call[c].by = "unregister"
          /\ tool_map' = Cleaned({s})
          /\ open' = [open EXCEPT ![n] = "down"]
          /\ call' = [call EXCEPT ![c] = Idle]
          /\ UNCHANGED <<clients, last>>
       \/ /\ call[c].by = "register"
          /\ tool_map' = Cleaned({s})
          /\ last < MaxClients
          /\ last' = last + 1
          /\ open' = [open EXCEPT ![n] = "down", ![last + 1] = "up"]
          /\ call' = [call EXCEPT ![c] = Connecting(s, last + 1)]
          /\ UNCHANGED clients
       \/ /\ call[c].by = "close"
          /\ left \cap Registered = {}
          /\ tool_map' = Cleaned({s} \cup left)
          /\ open' = [open EXCEPT ![n] = "down"]
          /\ call' = [call EXCEPT ![c] = Closed]
          /\ UNCHANGED <<clients, last>>
       \/ /\ call[c].by = "close"
          /\ \E r \in left \cap Registered, G \in SUBSET (left \ Registered) :
                /\ tool_map' = Cleaned({s} \cup G)
                /\ clients' = [clients EXCEPT ![r] = 0]
                /\ \/ call' = [call EXCEPT ![c] =
                               Removing("close", r, clients[r], left \ ({r} \cup G))]
                   \/ /\ open[clients[r]] = "crashed"
                      /\ call' = [call EXCEPT ![c] = Closed]
          /\ open' = [open EXCEPT ![n] = "down"]
          /\ UNCHANGED last
    /\ UNCHANGED offers

ServerExits(n) ==
    /\ MayCrash
    /\ open[n] = "up"
    /\ open' = [open EXCEPT ![n] = "crashed"]
    /\ UNCHANGED <<clients, tool_map, last, offers, call>>

\* get_client_for_tool, which the executor asks at every attempt.
ClientForTool(t) == IF tool_map[t] = None THEN 0 ELSE clients[tool_map[t]]

-----------------------------------------------------------------------------
(* The specification.                                                      *)

McpInit ==
    /\ clients = [s \in Server |-> 0]
    /\ tool_map = [t \in Tool |-> None]
    /\ last = 0
    /\ open = [n \in Client |-> "new"]
    /\ offers = [n \in Client |-> {}]
    /\ call = [c \in Caller |-> Idle]

McpNext ==
    \/ \E c \in Caller, s \in Server : Register(c, s) \/ Unregister(c, s)
    \/ \E c \in Caller :
          Connected(c) \/ ConnectFails(c) \/ Close(c) \/ Disconnected(c)
    \/ \E n \in Client : ServerExits(n)

McpSpec == McpInit /\ [][McpNext]_mcpVars

-----------------------------------------------------------------------------
(* Properties.                                                             *)

McpTypeOK ==
    /\ clients \in [Server -> 0..last]
    /\ tool_map \in [Tool -> Server \cup {None}]
    /\ last \in 0..MaxClients
    /\ open \in [Client -> Connection]
    /\ offers \in [Client -> SUBSET Tool]
    /\ call \in [Caller -> Call]

\* The client a tool call is sent to has not been disconnected: no other
\* caller is closing it, and none has closed it.
LookupIsOpen ==
    \A t \in Tool :
        ClientForTool(t) # 0 =>
            /\ open[ClientForTool(t)] \in {"up", "crashed"}
            /\ \A c \in Caller :
                  call[c].op = "remove" => call[c].client # ClientForTool(t)

\* Neither a server nor the removal of one holds this client any more.
Forgotten(n) ==
    /\ \A s \in Server : clients[s] # n
    /\ \A c \in Caller : call[c].op \in {"connect", "remove"} => call[c].client # n

\* A tool name leads to a server that is registered, or whose removal is
\* still under way and will drop the name.  A name is left over only where a
\* process had exited before its client was removed.
MappedIsServed ==
    \A t \in Tool :
        tool_map[t] # None =>
            \/ clients[tool_map[t]] # 0
            \/ \E c \in Caller :
                  call[c].op = "remove" /\ call[c].server = tool_map[t]
            \/ \E n \in Client : open[n] = "crashed" /\ Forgotten(n)
=============================================================================
