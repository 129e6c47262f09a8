---------------------------- MODULE Tools_proofs ----------------------------
(***************************************************************************)
(* Proofs about the two ends of a tool call: the executor that runs it     *)
(* (ToolExecution) and the registry of the MCP servers it may be sent to   *)
(* (McpRegistry).  Neither knows the state of the other.                   *)
(*                                                                         *)
(* The registry, for any servers, tools and callers and any number of      *)
(* clients: its types; the client a tool call is sent to has not been      *)
(* disconnected; and a tool name leads to a server that is registered or   *)
(* being removed, unless a process had exited by itself.  The argument: a  *)
(* client is held by one server or by one operation that is connecting or  *)
(* removing it, never by two, and it is open as long as it is held.        *)
(*                                                                         *)
(* The executor, for any permissions, schemas and arguments: a tool is     *)
(* attempted only when the call is permitted, and again only after a       *)
(* network error; a returned call was recorded with its result; and acting *)
(* for a user never adds to what an agent may do.                          *)
(***************************************************************************)
EXTENDS McpRegistry, ToolExecution, TLAPS

-----------------------------------------------------------------------------
(* The registry of MCP servers.                                            *)

USE ServerAssumption, MaxClientsAssumption, MayCrashAssumption

Holds(c) == call[c].op \in {"connect", "remove"}

\* One server or one operation has the client.
HeldOnce ==
    /\ \A s, r \in Server : clients[s] # 0 /\ clients[s] = clients[r] => s = r
    /\ \A c, d \in Caller : Holds(c) /\ Holds(d) /\ call[c].client = call[d].client => c = d
    /\ \A s \in Server, c \in Caller : Holds(c) => call[c].client # clients[s]

\* A client that is held has been connected and not been closed.
HeldIsOpen ==
    /\ \A s \in Server : clients[s] # 0 => open[clients[s]] \in {"up", "crashed"}
    /\ \A c \in Caller :
          Holds(c) => call[c].client <= last /\ open[call[c].client] \in {"up", "crashed"}
    /\ \A n \in Client : n > last => open[n] = "new"

McpInv ==
    /\ McpTypeOK
    /\ HeldOnce
    /\ HeldIsOpen
    /\ MappedIsServed

-----------------------------------------------------------------------------
(* The forms of a call.                                                    *)

LEMMA CallForms ==
    ASSUME NEW k \in Call
    PROVE  /\ k.op \in {"idle", "closed", "connect", "remove"}
           /\ k.op \in {"connect", "remove"} => k.client \in Client /\ k.server \in Server
           /\ k.op = "remove" => k.by \in Purpose /\ k.left \in SUBSET Server
BY DEF Call, Idle, Closed, Connecting, Removing

LEMMA Forms ==
    /\ Idle \in Call /\ Idle.op = "idle"
    /\ Closed \in Call /\ Closed.op = "closed"
BY DEF Call, Idle, Closed

LEMMA ConnectingForm ==
    ASSUME NEW s \in Server, NEW n \in Client
    PROVE  /\ Connecting(s, n) \in Call
           /\ Connecting(s, n).op = "connect" /\ Connecting(s, n).client = n
           /\ Connecting(s, n).server = s
<1>1. Connecting(s, n) \in Call
  BY DEF Call
<1> QED BY <1>1 DEF Connecting

LEMMA RemovingForm ==
    ASSUME NEW by \in Purpose, NEW s \in Server, NEW n \in Client, NEW left \in SUBSET Server
    PROVE  /\ Removing(by, s, n, left) \in Call
           /\ Removing(by, s, n, left).op = "remove" /\ Removing(by, s, n, left).client = n
           /\ Removing(by, s, n, left).server = s
<1>1. Removing(by, s, n, left) \in Call
  BY DEF Call
<1> QED BY <1>1 DEF Removing

LEMMA CallOf ==
    ASSUME McpTypeOK, NEW c \in Caller
    PROVE  /\ call[c] \in Call
           /\ call[c].op \in {"idle", "closed", "connect", "remove"}
           /\ Holds(c) => call[c].client \in Client /\ call[c].server \in Server
           /\ call[c].op = "remove" => call[c].by \in Purpose /\ call[c].left \in SUBSET Server
           /\ call[c] = Idle => ~Holds(c)
<1>1. call[c] \in Call
  BY DEF McpTypeOK
<1> QED BY <1>1, CallForms, Forms DEF Holds

LEMMA ClientOf ==
    ASSUME McpTypeOK, NEW s \in Server, clients[s] # 0
    PROVE  clients[s] \in Client /\ clients[s] <= last
<1>1. clients[s] \in 0..last /\ last \in 0..MaxClients
  BY DEF McpTypeOK
<1> QED BY <1>1 DEF Client

-----------------------------------------------------------------------------
(* One caller takes another call.                                          *)

LEMMA CallChanges ==
    ASSUME McpTypeOK, NEW c \in Caller, NEW k \in Call, call' = [call EXCEPT ![c] = k]
    PROVE  /\ call' \in [Caller -> Call]
           /\ call'[c] = k
           /\ \A d \in Caller : d # c => call'[d] = call[d]
           /\ \A d \in Caller : d # c => (Holds(d)' <=> Holds(d))
BY DEF McpTypeOK, Holds

LEMMA McpInvInit == McpInit => McpInv
<1> SUFFICES ASSUME McpInit PROVE McpInv
  OBVIOUS
<1>1. \A c \in Caller : call[c] = Idle /\ ~Holds(c)
  BY Forms DEF McpInit, Holds
<1>2. McpTypeOK
  BY Forms DEF McpInit, McpTypeOK, Connection
<1>3. HeldOnce
  BY <1>1 DEF McpInit, HeldOnce
<1>4. HeldIsOpen
  BY <1>1 DEF McpInit, HeldIsOpen
<1>5. MappedIsServed
  BY DEF McpInit, MappedIsServed
<1> QED BY <1>2, <1>3, <1>4, <1>5 DEF McpInv

(* What the end of a call of c does to the others: it touches the client   *)
(* it holds only, and drops names, all those of the server it removes.     *)
TouchesOwn(c) == \A m \in Client : open'[m] # open[m] => Holds(c) /\ m = call[c].client

Drops(c) ==
    /\ \A t \in Tool : tool_map'[t] # None => tool_map'[t] = tool_map[t]
    /\ call[c].op = "remove" => \A t \in Tool : tool_map'[t] # call[c].server

(* A name that leads nowhere after such a step led nowhere before it, and  *)
(* the exited client that explains it is held by nobody.                   *)
LEMMA LeftOver ==
    ASSUME McpInv, NEW c \in Caller, NEW k \in Call, call' = [call EXCEPT ![c] = k], Drops(c),
           NEW t \in Tool, tool_map'[t] # None, clients[tool_map[t]] = 0,
           ~ \E d \in Caller : call'[d].op = "remove" /\ call'[d].server = tool_map'[t]
    PROVE  \E m \in Client : open[m] = "crashed" /\ Forgotten(m)
<1>1. tool_map[t] = tool_map'[t]
  BY DEF Drops
<1>2. \A d \in Caller : d # c => call'[d] = call[d]
  BY CallChanges DEF McpInv
<1>3. ~ \E d \in Caller : call[d].op = "remove" /\ call[d].server = tool_map[t]
  BY <1>1, <1>2 DEF Drops
<1> QED BY <1>1, <1>3 DEF McpInv, MappedIsServed

(* A connection is started; the client c held before is closed.            *)
LEMMA Begins ==
    ASSUME McpInv, NEW c \in Caller, NEW s \in Server,
           last < MaxClients, last' = last + 1,
           call' = [call EXCEPT ![c] = Connecting(s, last + 1)],
           open' \in [Client -> Connection], open'[last + 1] = "up",
           \A m \in Client : m # last + 1 /\ open'[m] # open[m] => Holds(c) /\ m = call[c].client,
           tool_map' \in [Tool -> Server \cup {None}], Drops(c),
           UNCHANGED <<clients, offers>>
    PROVE  McpInv'
<1> DEFINE n == last + 1
<1>1. /\ last \in Nat /\ n \in Client /\ n # 0 /\ last' = n /\ n > last /\ n <= MaxClients
      /\ n = last + 1 /\ open'[n] = "up" /\ call' = [call EXCEPT ![c] = Connecting(s, n)]
      /\ \A m \in Client : m # n /\ open'[m] # open[m] => Holds(c) /\ m = call[c].client
  BY DEF McpInv, McpTypeOK, Client
<1> HIDE DEF n
<1>2. /\ Connecting(s, n) \in Call
      /\ Connecting(s, n).op = "connect" /\ Connecting(s, n).client = n
  BY <1>1, ConnectingForm
<1>3. /\ call' \in [Caller -> Call] /\ call'[c] = Connecting(s, n)
      /\ \A d \in Caller : d # c => call'[d] = call[d] /\ (Holds(d)' <=> Holds(d))
  BY <1>1, <1>2, CallChanges DEF McpInv
<1>4. Holds(c)' /\ call'[c].client = n /\ call'[c].op = "connect"
  BY <1>2, <1>3 DEF Holds
<1>5. \A r \in Server : clients[r] # 0 => clients[r] \in Client /\ clients[r] # n
  BY <1>1, ClientOf DEF McpInv, Client
<1>6. \A d \in Caller : Holds(d) => call[d].client \in Client /\ call[d].client # n
  BY <1>1, CallOf DEF McpInv, HeldIsOpen, Client
<1>7. McpTypeOK'
  <2>1. clients \in [Server -> 0..last] /\ last \in 0..MaxClients
    BY DEF McpInv, McpTypeOK
  <2>2. last' \in 0..MaxClients /\ 0..last \subseteq 0..last'
    BY <1>1, <2>1
  <2>3. clients' \in [Server -> 0..last']
    BY <2>1, <2>2
  <2> QED BY <1>3, <2>2, <2>3 DEF McpInv, McpTypeOK
<1>8. HeldOnce'
  BY <1>1, <1>3, <1>4, <1>5, <1>6 DEF McpInv, HeldOnce
<1>9. HeldIsOpen'
  <2>1. ASSUME NEW r \in Server, clients[r] # 0
        PROVE  open'[clients[r]] \in {"up", "crashed"}
    <3>1. /\ clients[r] \in Client /\ clients[r] # n
          /\ Holds(c) => clients[r] # call[c].client
      BY <1>5, <2>1 DEF McpInv, HeldOnce
    <3>2. open'[clients[r]] = open[clients[r]]
      BY <1>1, <3>1
    <3> QED BY <2>1, <3>2 DEF McpInv, HeldIsOpen
  <2>2. ASSUME NEW d \in Caller, Holds(d)'
        PROVE  call'[d].client <= last' /\ open'[call'[d].client] \in {"up", "crashed"}
    <3>1. CASE d = c
      BY <1>1, <1>4, <3>1
    <3>2. CASE d # c
      <4>1. Holds(d) /\ call'[d] = call[d]
        BY <1>3, <2>2, <3>2
      <4>2. /\ call[d].client \in Client /\ call[d].client # n /\ call[d].client <= last
            /\ open[call[d].client] \in {"up", "crashed"}
        BY <1>6, <4>1 DEF McpInv, HeldIsOpen
      <4>3. open'[call[d].client] = open[call[d].client]
        BY <1>1, <3>2, <4>1, <4>2 DEF McpInv, HeldOnce
      <4> QED BY <1>1, <4>1, <4>2, <4>3 DEF Client
    <3> QED BY <3>1, <3>2
  <2>3. ASSUME NEW m \in Client, m > last'
        PROVE  open'[m] = "new"
    <3>1. m # n /\ m > last
      BY <1>1, <2>3 DEF Client
    <3>2. Holds(c) => m # call[c].client
      BY <1>6, <3>1 DEF McpInv, HeldIsOpen, Client
    <3> QED BY <1>1, <3>1, <3>2 DEF McpInv, HeldIsOpen
  <2> QED BY <2>1, <2>2, <2>3 DEF HeldIsOpen
<1>10. MappedIsServed'
  <2> SUFFICES ASSUME NEW t \in Tool, tool_map'[t] # None, clients[tool_map'[t]] = 0,
                      ~ \E d \in Caller :
                           call'[d].op = "remove" /\ call'[d].server = tool_map'[t]
               PROVE  \E m \in Client : open'[m] = "crashed" /\ Forgotten(m)'
    BY DEF MappedIsServed
  <2>1. PICK m \in Client : open[m] = "crashed" /\ Forgotten(m)
    <3>1. clients[tool_map[t]] = 0
      BY DEF Drops
    <3> QED BY <1>1, <1>2, <3>1, LeftOver
  <2>2. m # n
    BY <1>1, <2>1 DEF McpInv, HeldIsOpen
  <2>3. Forgotten(m)'
    BY <1>3, <1>4, <2>1, <2>2 DEF Forgotten, Holds
  <2>4. open'[m] = open[m]
    BY <1>1, <2>1, <2>2 DEF Forgotten, Holds
  <2> QED BY <2>1, <2>3, <2>4
<1> QED BY <1>7, <1>8, <1>9, <1>10 DEF McpInv

(* A call ends; the client it held is nobody's.                            *)
LEMMA Ends ==
    ASSUME McpInv, NEW c \in Caller, NEW k \in {Idle, Closed}, call' = [call EXCEPT ![c] = k],
           open' \in [Client -> Connection], TouchesOwn(c),
           tool_map' \in [Tool -> Server \cup {None}], Drops(c),
           UNCHANGED <<clients, last, offers>>
    PROVE  McpInv'
<1>1. k \in Call /\ k.op \notin {"connect", "remove"}
  BY Forms
<1>2. /\ call' \in [Caller -> Call] /\ call'[c] = k
      /\ \A d \in Caller : d # c => call'[d] = call[d] /\ (Holds(d)' <=> Holds(d))
  BY <1>1, CallChanges DEF McpInv
<1>3. ~Holds(c)'
  BY <1>1, <1>2 DEF Holds
<1>4. McpTypeOK'
  BY <1>2 DEF McpInv, McpTypeOK
<1>5. HeldOnce'
  BY <1>2, <1>3 DEF McpInv, HeldOnce
<1>6. HeldIsOpen'
  <2>1. ASSUME NEW r \in Server, clients[r] # 0
        PROVE  open'[clients[r]] \in {"up", "crashed"}
    <3>1. clients[r] \in Client /\ (Holds(c) => clients[r] # call[c].client)
      BY <2>1, ClientOf DEF McpInv, HeldOnce
    <3> QED BY <2>1, <3>1 DEF McpInv, HeldIsOpen, TouchesOwn
  <2>2. ASSUME NEW d \in Caller, Holds(d)'
        PROVE  call'[d].client <= last' /\ open'[call'[d].client] \in {"up", "crashed"}
    <3>1. d # c /\ Holds(d) /\ call'[d] = call[d]
      BY <1>2, <1>3, <2>2
    <3>2. call[d].client \in Client
      BY <3>1, CallOf DEF McpInv
    <3> QED BY <3>1, <3>2 DEF McpInv, HeldIsOpen, HeldOnce, TouchesOwn
  <2>3. ASSUME NEW m \in Client, m > last
        PROVE  open'[m] = "new"
    <3>1. Holds(c) => call[c].client \in Client /\ call[c].client <= last
      BY CallOf DEF McpInv, HeldIsOpen
    <3>2. last \in Nat
      BY DEF McpInv, McpTypeOK
    <3>3. Holds(c) => m # call[c].client
      BY <2>3, <3>1, <3>2 DEF Client
    <3> QED BY <2>3, <3>3 DEF McpInv, HeldIsOpen, TouchesOwn
  <2> QED BY <2>1, <2>2, <2>3 DEF HeldIsOpen
<1>7. MappedIsServed'
  <2> SUFFICES ASSUME NEW t \in Tool, tool_map'[t] # None, clients[tool_map'[t]] = 0,
                      ~ \E d \in Caller :
                           call'[d].op = "remove" /\ call'[d].server = tool_map'[t]
               PROVE  \E m \in Client : open'[m] = "crashed" /\ Forgotten(m)'
    BY DEF MappedIsServed
  <2>1. PICK m \in Client : open[m] = "crashed" /\ Forgotten(m)
    <3>1. clients[tool_map[t]] = 0
      BY DEF Drops
    <3> QED BY <1>1, <3>1, LeftOver
  <2>2. Forgotten(m)'
    BY <1>2, <1>3, <2>1 DEF Forgotten, Holds
  <2>3. open'[m] = open[m]
    BY <2>1 DEF Forgotten, Holds, TouchesOwn
  <2> QED BY <2>1, <2>2, <2>3
<1> QED BY <1>4, <1>5, <1>6, <1>7 DEF McpInv

(* A server loses its client to the call of c that removes it, or, when    *)
(* its process has exited, to nobody; the client c held before is closed.  *)
LEMMA Moves ==
    ASSUME McpInv, NEW c \in Caller, NEW s \in Server, clients[s] # 0,
           NEW k \in Call, call' = [call EXCEPT ![c] = k],
           \/ k \in {Idle, Closed} /\ open[clients[s]] = "crashed"
           \/ k.op = "remove" /\ k.client = clients[s] /\ k.server = s,
           clients' = [clients EXCEPT ![s] = 0],
           open' \in [Client -> Connection], TouchesOwn(c),
           tool_map' \in [Tool -> Server \cup {None}], Drops(c),
           UNCHANGED <<last, offers>>
    PROVE  McpInv'
<1> DEFINE n == clients[s]
<1>1. n # 0 /\ n \in Client /\ n <= last /\ n = clients[s] /\ last \in Nat
  BY ClientOf DEF McpInv, McpTypeOK
<1>2. /\ clients'[s] = 0 /\ \A r \in Server : r # s => clients'[r] = clients[r]
      /\ clients' \in [Server -> 0..last]
  BY <1>1 DEF McpInv, McpTypeOK
<1>3. \A r \in Server : r # s => clients[r] # n
  BY <1>1 DEF McpInv, HeldOnce
<1>4. \A d \in Caller : Holds(d) => call[d].client # n /\ call[d].client \in Client
  BY CallOf DEF McpInv, HeldOnce
<1>5. open[n] \in {"up", "crashed"} /\ open'[n] = open[n]
  <2>1. open[n] \in {"up", "crashed"}
    BY <1>1 DEF McpInv, HeldIsOpen
  <2> QED BY <1>1, <1>4, <2>1 DEF TouchesOwn
<1> HIDE DEF n
<1>6. /\ call' \in [Caller -> Call] /\ call'[c] = k
      /\ \A d \in Caller : d # c => call'[d] = call[d] /\ (Holds(d)' <=> Holds(d))
  BY CallChanges DEF McpInv
<1>7. Holds(c)' => k.op = "remove" /\ k.client = n
  BY <1>1, <1>6, Forms DEF Holds
<1>8. McpTypeOK'
  BY <1>2, <1>6 DEF McpInv, McpTypeOK
<1>9. HeldOnce'
  <2>1. \A r, q \in Server : clients'[r] # 0 /\ clients'[r] = clients'[q] => r = q
    BY <1>2 DEF McpInv, HeldOnce
  <2>2. \A d, e \in Caller :
           Holds(d)' /\ Holds(e)' /\ call'[d].client = call'[e].client => d = e
    BY <1>4, <1>6, <1>7 DEF McpInv, HeldOnce
  <2>3. ASSUME NEW r \in Server, NEW d \in Caller, Holds(d)'
        PROVE  call'[d].client # clients'[r]
    <3>1. CASE d = c
      BY <1>1, <1>2, <1>3, <1>6, <1>7, <2>3, <3>1
    <3>2. CASE d # c
      <4>1. Holds(d) /\ call'[d] = call[d] /\ call[d].client # clients[r]
        BY <1>6, <2>3, <3>2 DEF McpInv, HeldOnce
      <4>2. call[d].client # 0
        BY <1>4, <4>1 DEF Client
      <4> QED BY <1>2, <4>1, <4>2
    <3> QED BY <3>1, <3>2
  <2> QED BY <2>1, <2>2, <2>3 DEF HeldOnce
<1>10. HeldIsOpen'
  <2>1. ASSUME NEW r \in Server, clients'[r] # 0
        PROVE  open'[clients'[r]] \in {"up", "crashed"}
    <3>1. clients'[r] = clients[r] /\ clients[r] # 0
      BY <1>2, <2>1
    <3>2. clients[r] \in Client /\ (Holds(c) => clients[r] # call[c].client)
      BY <3>1, ClientOf DEF McpInv, HeldOnce
    <3> QED BY <3>1, <3>2 DEF McpInv, HeldIsOpen, TouchesOwn
  <2>2. ASSUME NEW d \in Caller, Holds(d)'
        PROVE  call'[d].client <= last' /\ open'[call'[d].client] \in {"up", "crashed"}
    <3>1. CASE d = c
      BY <1>1, <1>5, <1>6, <1>7, <2>2, <3>1
    <3>2. CASE d # c
      <4>1. Holds(d) /\ call'[d] = call[d] /\ call[d].client \in Client
        BY <1>4, <1>6, <2>2, <3>2
      <4> QED BY <3>2, <4>1 DEF McpInv, HeldIsOpen, HeldOnce, TouchesOwn
    <3> QED BY <3>1, <3>2
  <2>3. ASSUME NEW m \in Client, m > last
        PROVE  open'[m] = "new"
    <3>1. Holds(c) => call[c].client \in Client /\ call[c].client <= last
      BY <1>4 DEF McpInv, HeldIsOpen
    <3>2. Holds(c) => m # call[c].client
      BY <1>1, <2>3, <3>1 DEF Client
    <3> QED BY <2>3, <3>2 DEF McpInv, HeldIsOpen, TouchesOwn
  <2> QED BY <2>1, <2>2, <2>3 DEF HeldIsOpen
<1>11. MappedIsServed'
  <2> SUFFICES ASSUME NEW t \in Tool, tool_map'[t] # None, clients'[tool_map'[t]] = 0,
                      ~ \E d \in Caller :
                           call'[d].op = "remove" /\ call'[d].server = tool_map'[t]
               PROVE  \E m \in Client : open'[m] = "crashed" /\ Forgotten(m)'
    BY DEF MappedIsServed
  <2>1. CASE k.op = "remove"
    <3>1. k.server = s /\ k.client = n
      BY <1>1, <2>1, Forms
    <3>2. tool_map'[t] # s
      BY <1>6, <2>1, <3>1
    <3>3. clients[tool_map[t]] = 0
      BY <1>2, <3>2 DEF Drops
    <3>4. PICK m \in Client : open[m] = "crashed" /\ Forgotten(m)
      BY <3>3, LeftOver
    <3>5. m # n /\ m # 0
      BY <1>1, <3>4 DEF Forgotten, Client
    <3>6. Forgotten(m)'
      BY <1>2, <1>6, <1>7, <3>4, <3>5 DEF Forgotten, Holds
    <3>7. open'[m] = open[m]
      BY <3>4 DEF Forgotten, Holds, TouchesOwn
    <3> QED BY <3>4, <3>6, <3>7
  <2>2. CASE k.op # "remove"
    <3>1. k \in {Idle, Closed} /\ open[n] = "crashed"
      BY <1>1, <2>2
    <3>2. ~Holds(c)'
      BY <1>7, <2>2
    <3>3. PICK m \in Client : m = n
      BY <1>1
    <3>4. Forgotten(m)'
      BY <1>1, <1>2, <1>3, <1>4, <1>6, <3>2, <3>3 DEF Forgotten, Holds
    <3> QED BY <1>5, <3>1, <3>3, <3>4
  <2> QED BY <2>1, <2>2
<1> QED BY <1>8, <1>9, <1>10, <1>11 DEF McpInv

-----------------------------------------------------------------------------
(* The operations.                                                         *)

(* Nothing is dropped by a caller that removes no server.                  *)
LEMMA NothingDropped ==
    ASSUME McpInv, NEW c \in Caller, call[c].op # "remove", UNCHANGED <<tool_map, open>>
    PROVE  /\ Drops(c) /\ TouchesOwn(c)
           /\ tool_map' \in [Tool -> Server \cup {None}] /\ open' \in [Client -> Connection]
BY DEF McpInv, McpTypeOK, Drops, TouchesOwn

LEMMA PopStep ==
    ASSUME McpInv, NEW c \in Caller, call[c] = Idle, NEW by \in Purpose, NEW s \in Server,
           NEW left \in SUBSET Server, Pop(c, by, s, left)
    PROVE  McpInv'
<1> DEFINE k == Removing(by, s, clients[s], left)
<1>1. clients[s] # 0 /\ clients[s] \in Client
  BY ClientOf DEF Pop, McpInv
<1>2. k \in Call /\ k.op = "remove" /\ k.client = clients[s] /\ k.server = s
  BY <1>1, RemovingForm
<1>3. /\ call' = [call EXCEPT ![c] = k] /\ clients' = [clients EXCEPT ![s] = 0]
      /\ UNCHANGED <<tool_map, last, open, offers>>
  BY DEF Pop
<1> HIDE DEF k
<1> QED BY <1>1, <1>2, <1>3, Forms, NothingDropped, Moves

LEMMA PopRaisesStep ==
    ASSUME McpInv, NEW c \in Caller, call[c] = Idle, NEW s \in Server,
           NEW after \in {Idle, Closed}, PopRaises(c, s, after)
    PROVE  McpInv'
<1>1. /\ clients[s] # 0 /\ open[clients[s]] = "crashed" /\ clients' = [clients EXCEPT ![s] = 0]
      /\ call' = [call EXCEPT ![c] = after] /\ UNCHANGED <<tool_map, last, open, offers>>
  BY DEF PopRaises
<1>2. after \in Call
  BY Forms
<1> QED BY <1>1, <1>2, Forms, NothingDropped, Moves

LEMMA RegisterStep ==
    ASSUME McpInv, NEW c \in Caller, NEW s \in Server, Register(c, s)
    PROVE  McpInv'
<1>1. call[c] = Idle /\ call[c].op = "idle"
  BY Forms DEF Register
<1>2. CASE Pop(c, "register", s, {})
  BY <1>1, <1>2, PopStep DEF Purpose
<1>3. CASE PopRaises(c, s, Idle)
  BY <1>1, <1>3, PopRaisesStep
<1>4. CASE StartConnect(c, s) /\ UNCHANGED <<clients, tool_map, offers>>
  <2>1. /\ last < MaxClients /\ last' = last + 1 /\ open' = [open EXCEPT ![last + 1] = "up"]
        /\ call' = [call EXCEPT ![c] = Connecting(s, last + 1)]
    BY <1>4 DEF StartConnect
  <2>2. last \in 0..MaxClients /\ open \in [Client -> Connection] /\ last + 1 \in Client
    BY <2>1 DEF McpInv, McpTypeOK, Client
  <2>3. /\ open' \in [Client -> Connection] /\ open'[last + 1] = "up"
        /\ \A m \in Client : m # last + 1 => open'[m] = open[m]
    BY <2>1, <2>2 DEF Connection
  <2>4. Drops(c) /\ tool_map' \in [Tool -> Server \cup {None}]
    BY <1>1, <1>4 DEF McpInv, McpTypeOK, Drops
  <2> QED BY <1>4, <2>1, <2>3, <2>4, Begins
<1> QED BY <1>2, <1>3, <1>4 DEF Register

LEMMA ConnectFailsStep ==
    ASSUME McpInv, NEW c \in Caller, ConnectFails(c)
    PROVE  McpInv'
<1>1. /\ call[c].op = "connect" /\ Holds(c) /\ call[c].client \in Client
  BY CallOf DEF ConnectFails, Holds, McpInv
<1>2. /\ call' = [call EXCEPT ![c] = Idle] /\ UNCHANGED <<clients, tool_map, last, offers>>
      /\ \E state \in {open[call[c].client], "down"} :
            open' = [open EXCEPT ![call[c].client] = state]
  BY DEF ConnectFails
<1>3. open' \in [Client -> Connection] /\ TouchesOwn(c)
  BY <1>1, <1>2 DEF McpInv, McpTypeOK, Connection, TouchesOwn
<1>4. Drops(c) /\ tool_map' \in [Tool -> Server \cup {None}]
  BY <1>1, <1>2 DEF McpInv, McpTypeOK, Drops
<1> QED BY <1>2, <1>3, <1>4, Ends

LEMMA UnregisterStep ==
    ASSUME McpInv, NEW c \in Caller, NEW s \in Server, Unregister(c, s)
    PROVE  McpInv'
<1>1. call[c] = Idle /\ call[c].op = "idle"
  BY Forms DEF Unregister
<1>2. CASE Pop(c, "unregister", s, {})
  BY <1>1, <1>2, PopStep DEF Purpose
<1>3. CASE PopRaises(c, s, Idle)
  BY <1>1, <1>3, PopRaisesStep
<1>4. CASE tool_map' = Cleaned({s}) /\ UNCHANGED <<clients, last, open, offers, call>>
  <2>1. call' = [call EXCEPT ![c] = Idle]
    BY <1>1, <1>4 DEF McpInv, McpTypeOK
  <2>2. open' \in [Client -> Connection] /\ TouchesOwn(c)
    BY <1>4 DEF McpInv, McpTypeOK, TouchesOwn
  <2>3. Drops(c) /\ tool_map' \in [Tool -> Server \cup {None}]
    BY <1>1, <1>4 DEF McpInv, McpTypeOK, Drops, Cleaned
  <2> QED BY <1>4, <2>1, <2>2, <2>3, Ends
<1> QED BY <1>2, <1>3, <1>4 DEF Unregister

LEMMA CloseStep ==
    ASSUME McpInv, NEW c \in Caller, Close(c)
    PROVE  McpInv'
<1>1. PICK s \in Registered :
         Pop(c, "close", s, Registered \ {s}) \/ PopRaises(c, s, Closed)
  BY DEF Close
<1>2. call[c] = Idle /\ s \in Server /\ Registered \ {s} \in SUBSET Server
  BY DEF Close, Registered
<1> QED BY <1>1, <1>2, PopStep, PopRaisesStep DEF Purpose

LEMMA ServerExitsStep ==
    ASSUME McpInv, NEW n \in Client, ServerExits(n)
    PROVE  McpInv'
<1>1. /\ open[n] = "up" /\ open' = [open EXCEPT ![n] = "crashed"]
      /\ UNCHANGED <<clients, tool_map, last, offers, call>>
  BY DEF ServerExits
<1>2. McpTypeOK'
  BY <1>1 DEF McpInv, McpTypeOK, Connection
<1>3. HeldOnce'
  BY <1>1 DEF McpInv, HeldOnce, Holds
<1>4. HeldIsOpen'
  <2>1. \A m \in Client : open'[m] = IF m = n THEN "crashed" ELSE open[m]
    BY <1>1 DEF McpInv, McpTypeOK
  <2>2. \A s \in Server : clients[s] # 0 => clients[s] \in Client
    BY ClientOf DEF McpInv
  <2>3. \A c \in Caller : Holds(c) => call[c].client \in Client
    BY CallOf DEF McpInv
  <2> QED BY <1>1, <2>1, <2>2, <2>3 DEF McpInv, HeldIsOpen, Holds
<1>5. MappedIsServed'
  <2>1. \A m \in Client : open[m] = "crashed" => open'[m] = "crashed"
    BY <1>1 DEF McpInv, McpTypeOK
  <2>2. \A m \in Client : Forgotten(m)' <=> Forgotten(m)
    BY <1>1 DEF Forgotten
  <2> QED BY <1>1, <2>1, <2>2 DEF McpInv, MappedIsServed
<1> QED BY <1>2, <1>3, <1>4, <1>5 DEF McpInv

(* The client that was connected becomes the client of its server, and the *)
(* one the server had, if any, is forgotten.                               *)
LEMMA ConnectedStep ==
    ASSUME McpInv, NEW c \in Caller, Connected(c)
    PROVE  McpInv'
<1>1. PICK s \in Server : s = call[c].server
  BY CallOf DEF Connected, Holds, McpInv
<1>2. PICK n \in Client : n = call[c].client
  BY CallOf DEF Connected, Holds, McpInv
<1>3. PICK T \in SUBSET Tool : offers' = [offers EXCEPT ![n] = T] /\ tool_map' = Mapped(s, T)
  BY <1>1, <1>2 DEF Connected
<1>4. /\ Holds(c) /\ call[c].op = "connect" /\ UNCHANGED <<last, open>>
      /\ clients' = [clients EXCEPT ![s] = n] /\ call' = [call EXCEPT ![c] = Idle]
  BY <1>1, <1>2 DEF Connected, Holds
<1>5. /\ n <= last /\ n # 0 /\ open[n] \in {"up", "crashed"} /\ last \in Nat
  BY <1>2, <1>4 DEF McpInv, McpTypeOK, HeldIsOpen, Client
<1>6. /\ \A r \in Server : clients[r] # n
      /\ \A d \in Caller : d # c /\ Holds(d) => call[d].client # n
  BY <1>2, <1>4 DEF McpInv, HeldOnce
<1>7. /\ clients'[s] = n /\ \A r \in Server : r # s => clients'[r] = clients[r]
      /\ clients' \in [Server -> 0..last]
  BY <1>4, <1>5 DEF McpInv, McpTypeOK, Client
<1>8. /\ call' \in [Caller -> Call] /\ call'[c] = Idle
      /\ \A d \in Caller : d # c => call'[d] = call[d] /\ (Holds(d)' <=> Holds(d))
  BY <1>4, Forms, CallChanges DEF McpInv
<1>9. ~Holds(c)'
  BY <1>8, Forms DEF Holds
<1>10. McpTypeOK'
  <2>1. tool_map' \in [Tool -> Server \cup {None}]
    BY <1>3 DEF McpInv, McpTypeOK, Mapped
  <2>2. offers' \in [Client -> SUBSET Tool]
    BY <1>3 DEF McpInv, McpTypeOK
  <2> QED BY <1>4, <1>7, <1>8, <2>1, <2>2 DEF McpInv, McpTypeOK
<1>11. HeldOnce'
  BY <1>5, <1>6, <1>7, <1>8, <1>9 DEF McpInv, HeldOnce
<1>12. HeldIsOpen'
  BY <1>4, <1>5, <1>7, <1>8, <1>9 DEF McpInv, HeldIsOpen
<1>13. MappedIsServed'
  <2> SUFFICES ASSUME NEW t \in Tool, tool_map'[t] # None, clients'[tool_map'[t]] = 0,
                      ~ \E d \in Caller :
                           call'[d].op = "remove" /\ call'[d].server = tool_map'[t]
               PROVE  \E m \in Client : open'[m] = "crashed" /\ Forgotten(m)'
    BY DEF MappedIsServed
  <2>1. tool_map'[t] = tool_map[t] /\ tool_map[t] # s /\ tool_map[t] \in Server
    BY <1>3, <1>5, <1>7, <1>10 DEF Mapped, McpTypeOK
  <2>2. ~ \E d \in Caller : call[d].op = "remove" /\ call[d].server = tool_map[t]
    BY <1>4, <1>8, <2>1
  <2>3. PICK m \in Client : open[m] = "crashed" /\ Forgotten(m)
    BY <1>7, <2>1, <2>2 DEF McpInv, MappedIsServed
  <2>4. m # n
    BY <1>2, <1>4, <2>3 DEF Forgotten, Holds
  <2>5. Forgotten(m)'
    BY <1>7, <1>8, <1>9, <2>3, <2>4 DEF Forgotten, Holds
  <2> QED BY <1>4, <2>3, <2>5
<1> QED BY <1>10, <1>11, <1>12, <1>13 DEF McpInv

(* The client has been disconnected: the names of the servers S, the one   *)
(* that is removed among them, are dropped.                                *)
LEMMA CleanedDrops ==
    ASSUME McpInv, NEW c \in Caller, NEW S \in SUBSET Server, call[c].op = "remove",
           call[c].server \in S, tool_map' = Cleaned(S)
    PROVE  Drops(c) /\ tool_map' \in [Tool -> Server \cup {None}]
BY DEF McpInv, McpTypeOK, Drops, Cleaned

LEMMA DisconnectedStep ==
    ASSUME McpInv, NEW c \in Caller, Disconnected(c)
    PROVE  McpInv'
<1>1. call[c].op = "remove" /\ Holds(c) /\ UNCHANGED offers
  BY DEF Disconnected, Holds
<1>2. PICK s \in Server : s = call[c].server
  BY <1>1, CallOf DEF McpInv
<1>3. PICK n \in Client : n = call[c].client
  BY <1>1, CallOf DEF McpInv
<1>4. PICK left \in SUBSET Server : left = call[c].left
  BY <1>1, CallOf DEF McpInv
<1>5. open \in [Client -> Connection] /\ last \in 0..MaxClients
  BY DEF McpInv, McpTypeOK
<1>6. ASSUME open' = [open EXCEPT ![n] = "down"]
      PROVE  open' \in [Client -> Connection] /\ TouchesOwn(c)
  BY <1>1, <1>3, <1>5, <1>6 DEF TouchesOwn, Connection
<1>7. CASE /\ tool_map' = Cleaned({s})
           /\ open' = [open EXCEPT ![n] = "down"]
           /\ call' = [call EXCEPT ![c] = Idle]
           /\ UNCHANGED <<clients, last>>
  <2>1. Drops(c) /\ tool_map' \in [Tool -> Server \cup {None}]
    BY <1>1, <1>2, <1>7, CleanedDrops
  <2> QED BY <1>1, <1>6, <1>7, <2>1, Ends
<1>8. CASE /\ tool_map' = Cleaned({s})
           /\ last < MaxClients
           /\ last' = last + 1
           /\ open' = [open EXCEPT ![n] = "down", ![last + 1] = "up"]
           /\ call' = [call EXCEPT ![c] = Connecting(s, last + 1)]
           /\ UNCHANGED clients
  <2>1. Drops(c) /\ tool_map' \in [Tool -> Server \cup {None}]
    BY <1>1, <1>2, <1>8, CleanedDrops
  <2>2. last + 1 \in Client
    BY <1>5, <1>8 DEF Client
  <2>3. /\ open' \in [Client -> Connection] /\ open'[last + 1] = "up"
        /\ \A m \in Client : m # last + 1 /\ m # n => open'[m] = open[m]
    BY <1>5, <1>8, <2>2 DEF Connection
  <2> QED BY <1>1, <1>3, <1>8, <2>1, <2>3, Begins
<1>9. CASE /\ tool_map' = Cleaned({s} \cup left)
           /\ open' = [open EXCEPT ![n] = "down"]
           /\ call' = [call EXCEPT ![c] = Closed]
           /\ UNCHANGED <<clients, last>>
  <2>1. Drops(c) /\ tool_map' \in [Tool -> Server \cup {None}]
    <3>1. {s} \cup left \in SUBSET Server
      OBVIOUS
    <3> QED BY <1>1, <1>2, <1>9, <3>1, CleanedDrops
  <2> QED BY <1>1, <1>6, <1>9, <2>1, Ends
<1>10. ASSUME NEW r \in left \cap Registered, NEW G \in SUBSET (left \ Registered),
              tool_map' = Cleaned({s} \cup G),
              clients' = [clients EXCEPT ![r] = 0],
              open' = [open EXCEPT ![n] = "down"],
              UNCHANGED last,
              \/ call' = [call EXCEPT ![c] =
                             Removing("close", r, clients[r], left \ ({r} \cup G))]
              \/ /\ open[clients[r]] = "crashed"
                 /\ call' = [call EXCEPT ![c] = Closed]
       PROVE  McpInv'
  <2>1. Drops(c) /\ tool_map' \in [Tool -> Server \cup {None}]
    <3>1. {s} \cup G \in SUBSET Server
      BY DEF Registered
    <3> QED BY <1>1, <1>2, <1>10, <3>1, CleanedDrops
  <2>2. r \in Server /\ clients[r] # 0 /\ clients[r] \in Client
    BY ClientOf DEF McpInv, Registered
  <2>3. PICK k \in Call :
           /\ call' = [call EXCEPT ![c] = k]
           /\ \/ k \in {Idle, Closed} /\ open[clients[r]] = "crashed"
              \/ k.op = "remove" /\ k.client = clients[r] /\ k.server = r
    <3>1. CASE call' = [call EXCEPT ![c] =
                           Removing("close", r, clients[r], left \ ({r} \cup G))]
      <4>1. left \ ({r} \cup G) \in SUBSET Server /\ "close" \in Purpose
        BY DEF Purpose
      <4> DEFINE k == Removing("close", r, clients[r], left \ ({r} \cup G))
      <4>2. k \in Call /\ k.op = "remove" /\ k.client = clients[r] /\ k.server = r
        BY <2>2, <4>1, RemovingForm
      <4>3. call' = [call EXCEPT ![c] = k]
        BY <3>1
      <4> HIDE DEF k
      <4> QED BY <4>2, <4>3
    <3>2. CASE open[clients[r]] = "crashed" /\ call' = [call EXCEPT ![c] = Closed]
      BY <3>2, Forms
    <3> QED BY <1>10, <3>1, <3>2
  <2>4. open' \in [Client -> Connection] /\ TouchesOwn(c)
    BY <1>6, <1>10
  <2> QED BY <1>1, <1>10, <2>1, <2>2, <2>3, <2>4, Moves
<1> QED BY <1>1, <1>2, <1>3, <1>4, <1>7, <1>8, <1>9, <1>10 DEF Disconnected

LEMMA McpInvStep == McpInv /\ [McpNext]_mcpVars => McpInv'
<1> SUFFICES ASSUME McpInv, [McpNext]_mcpVars PROVE McpInv'
  OBVIOUS
<1>1. ASSUME NEW c \in Caller, NEW s \in Server, Register(c, s) \/ Unregister(c, s)
      PROVE  McpInv'
  BY <1>1, RegisterStep, UnregisterStep
<1>2. ASSUME NEW c \in Caller,
             Connected(c) \/ ConnectFails(c) \/ Close(c) \/ Disconnected(c)
      PROVE  McpInv'
  BY <1>2, ConnectedStep, ConnectFailsStep, CloseStep, DisconnectedStep
<1>3. ASSUME NEW n \in Client, ServerExits(n)
      PROVE  McpInv'
  BY <1>3, ServerExitsStep
<1>4. CASE UNCHANGED mcpVars
  <2>1. UNCHANGED <<clients, tool_map, last, open, offers, call>>
    BY <1>4 DEF mcpVars
  <2> QED BY <2>1 DEF McpInv, McpTypeOK, HeldOnce, HeldIsOpen, MappedIsServed, Holds, Forgotten
<1> QED BY <1>1, <1>2, <1>3, <1>4 DEF McpNext

LEMMA McpInvariant == McpSpec => []McpInv
<1> QED BY McpInvInit, McpInvStep, PTL DEF McpSpec

-----------------------------------------------------------------------------
(* The theorems.                                                           *)

\* Whatever register, unregister, close and the processes do, the tables of the
\* registry keep their types: no table names a client that was not created.
THEOREM McpTypesHold == McpSpec => []McpTypeOK
<1>1. McpInv => McpTypeOK
  BY DEF McpInv
<1> QED BY <1>1, McpInvariant, PTL

\* get_client_for_tool never returns a client that another caller is closing or
\* has closed, although unregister and register wait between their table writes
\* without a lock.
THEOREM LookupFindsOpen == McpSpec => []LookupIsOpen
<1>1. McpInv => LookupIsOpen
  <2> SUFFICES ASSUME McpInv, NEW t \in Tool, ClientForTool(t) # 0
               PROVE  /\ open[ClientForTool(t)] \in {"up", "crashed"}
                      /\ \A c \in Caller :
                            call[c].op = "remove" => call[c].client # ClientForTool(t)
    BY DEF LookupIsOpen
  <2>1. tool_map[t] \in Server /\ ClientForTool(t) = clients[tool_map[t]]
    BY DEF ClientForTool, McpInv, McpTypeOK
  <2> QED BY <2>1 DEF McpInv, HeldOnce, HeldIsOpen, Holds
<1> QED BY <1>1, McpInvariant, PTL

\* A name in the tool map belongs to a registered server or to one whose removal
\* will drop it; what is left over otherwise is left over by a process that had
\* exited before its client was taken out.
THEOREM MappedNamesAreServed == McpSpec => []MappedIsServed
<1>1. McpInv => MappedIsServed
  BY DEF McpInv
<1> QED BY <1>1, McpInvariant, PTL

-----------------------------------------------------------------------------
(* The executor.                                                           *)

USE CoversAssumption, SchemasAssumption, MayCancelAssumption

-----------------------------------------------------------------------------
(* On behalf of a user.                                                    *)

(* A permission that remains is covered by one of the agent and by one of     *)
(* the user, so that whatever it matches is matched on both sides.            *)
LEMMA RemainsCovered ==
    ASSUME NEW agent \in SUBSET Permission, NEW user \in SUBSET Permission,
           NEW p \in Effective(agent, user), NEW a \in Covers[p]
    PROVE  IsActionAllowed(a, agent) /\ IsActionAllowed(a, user)
<1>1. ASSUME NEW mine \in SUBSET Permission, NEW others \in SUBSET Permission,
             p \in CoveredBy(mine, others)
      PROVE  IsActionAllowed(a, mine) /\ IsActionAllowed(a, others)
    <2>1. p \in mine
        BY <1>1 DEF CoveredBy
    <2>2. PICK w \in others \cap Wildcard : p \in Covers[w]
        BY <1>1 DEF CoveredBy
    <2>3. Covers[p] \subseteq Covers[w]
        BY <2>1, <2>2
    <2> QED
        BY <2>1, <2>2, <2>3 DEF IsActionAllowed
<1>2. CASE p \in agent \cap user
    BY <1>2 DEF IsActionAllowed
<1>3. CASE p \in CoveredBy(user, agent)
    BY <1>1, <1>3
<1>4. CASE p \in CoveredBy(agent, user)
    BY <1>1, <1>4
<1> QED
    BY <1>2, <1>3, <1>4 DEF Effective

(* For a user the agent may do nothing that one of the two may not do alone.  *)
LEMMA EffectiveWithinBoth ==
    ASSUME permissions \in SUBSET Permission
    PROVE  DowngradedToBoth
<1> SUFFICES ASSUME NEW user \in SUBSET Permission, NEW a \in Action,
                    IsActionAllowed(a, Effective(permissions, user))
             PROVE  IsActionAllowed(a, permissions) /\ IsActionAllowed(a, user)
    BY DEF DowngradedToBoth
<1>1. PICK p \in Effective(permissions, user) : a \in Covers[p]
    BY DEF IsActionAllowed
<1> QED
    BY <1>1, RemainsCovered

(* What the user is granted by name and the agent by any permission is kept.  *)
(* Of two patterns that only overlap nothing remains.                         *)
THEOREM EffectiveKeepsNames ==
    ASSUME NEW agent \in SUBSET Permission, NEW user \in SUBSET Permission,
           NEW a \in user, a \notin Wildcard, IsActionAllowed(a, agent)
    PROVE  IsActionAllowed(a, Effective(agent, user))
<1>1. Covers[a] = {a}
    OBVIOUS
<1>2. PICK w \in agent : a \in Covers[w]
    BY DEF IsActionAllowed
<1>3. CASE w \in Wildcard
    <2>1. a \in CoveredBy(user, agent)
        BY <1>2, <1>3 DEF CoveredBy
    <2> QED
        BY <1>1, <2>1 DEF Effective, IsActionAllowed
<1>4. CASE w \notin Wildcard
    <2>1. w = a
        BY <1>2, <1>4
    <2> QED
        BY <1>1, <2>1 DEF Effective, IsActionAllowed
<1> QED
    BY <1>3, <1>4

-----------------------------------------------------------------------------
(* Types.                                                                  *)

Attempts == [tool : {"mcp", "local"},
             end : {"open", "answered", "refused", "network", "timeout", "error"}]

(* What an attempt is set to leaves its length and the others alone.       *)
LEMMA EndedAttempts ==
    ASSUME attempts \in Seq(Attempts), attempts # <<>>,
           NEW how \in {"answered", "network", "timeout", "error"}
    PROVE  /\ Ended(how) \in Seq(Attempts)
           /\ Ended(how) # <<>>
           /\ Len(Ended(how)) = Len(attempts)
           /\ \A i \in 1..Len(attempts) :
                 Ended(how)[i].end =
                     IF i = Len(attempts) THEN how ELSE attempts[i].end
<1>1. Len(attempts) \in 1..Len(attempts)
    OBVIOUS
<1>2. [attempts[Len(attempts)] EXCEPT !.end = how] \in Attempts
    <2>1. \A a \in Attempts : [a EXCEPT !.end = how] \in Attempts
        BY DEF Attempts
    <2>2. attempts[Len(attempts)] \in Attempts
        BY <1>1
    <2> QED
        BY <2>1, <2>2
<1>3. /\ Ended(how) \in Seq(Attempts)
      /\ Len(Ended(how)) = Len(attempts)
    BY <1>1, <1>2 DEF Ended
<1>4. \A i \in 1..Len(attempts) :
         Ended(how)[i] = IF i = Len(attempts)
                         THEN [attempts[i] EXCEPT !.end = how] ELSE attempts[i]
    BY DEF Ended
<1>5. \A i \in 1..Len(attempts) :
         /\ attempts[i] \in Attempts
         /\ [attempts[i] EXCEPT !.end = how].end = how
    <2>1. \A a \in Attempts : [a EXCEPT !.end = how].end = how
        BY DEF Attempts
    <2> QED
        BY <2>1
<1>6. \A i \in 1..Len(attempts) :
         Ended(how)[i].end = IF i = Len(attempts) THEN how ELSE attempts[i].end
    BY <1>4, <1>5
<1>7. Ended(how) # <<>>
    BY <1>1, <1>3
<1> QED
    BY <1>3, <1>6, <1>7

(* The end of a call, whatever ended it.                                   *)
LEMMA FinishMoves ==
    ASSUME NEW s, NEW r, Finish(s, r)
    PROVE  /\ at' \in {"trail", "returned"} /\ status' = s /\ result' = r
           /\ at' = "trail" => endpoint /\ records' = records
           /\ at' = "returned" =>
                 ~endpoint /\ records' = Written(records, "local", s)
BY DEF Finish, WriteLocal

(* A record is added or it is not.                                         *)
LEMMA WrittenRecords ==
    ASSUME NEW from \in SUBSET [place : Place, status : Status],
           NEW place \in Place, NEW s \in Status
    PROVE  Written(from, place, s) \in SUBSET [place : Place, status : Status]
BY DEF Written, Record

(* ToolTypeOK, with attempts typed as above, and what is known of the      *)
(* attempts in each step: they are none before the tool is due, the last   *)
(* is open while it runs, all were network errors where another may follow. *)
CallInv ==
    /\ ToolTypeOK
    /\ at = "tool" => attempts # <<>>
    /\ at \in {"start", "approval", "credential"} => attempts = <<>>
    /\ at \in {"attempt", "backoff"} =>
          /\ Len(attempts) < MaxRetries
          /\ \A i \in 1..Len(attempts) : attempts[i].end = "network"
    /\ RetriedOnlyOnNetworkErrors

LEMMA CallInvInit == ToolInit => CallInv
<1> SUFFICES ASSUME ToolInit PROVE CallInv
    OBVIOUS
<1>1. attempts = <<>> /\ at = "start" /\ Len(attempts) = 0
    BY DEF ToolInit
<1>2. ToolTypeOK
    <2>1. attempts \in Seq(Attempts)
        BY <1>1
    <2>2. {approved, callback, endpoint, disk, mcp, local} \subseteq BOOLEAN
        BY DEF ToolInit
    <2> QED
        BY <2>1, <2>2 DEF ToolInit, ToolTypeOK, Status, Attempts
<1>3. RetriedOnlyOnNetworkErrors
    BY <1>1 DEF RetriedOnlyOnNetworkErrors, MaxRetries
<1> QED
    BY <1>1, <1>2, <1>3 DEF CallInv

(* A step that leaves the attempts alone, and does not take the call back.    *)
LEMMA AttemptsKept ==
    ASSUME CallInv, ToolTypeOK', UNCHANGED attempts,
           at' = "tool" => attempts # <<>>,
           at' \in {"start", "approval", "credential"} => attempts = <<>>,
           at' \in {"attempt", "backoff"} =>
               attempts = <<>> \/ at \in {"attempt", "backoff"}
    PROVE  CallInv'
BY DEF CallInv, RetriedOnlyOnNetworkErrors, MaxRetries

(* An attempt is added to network errors only.                             *)
LEMMA AttemptAdded ==
    ASSUME CallInv, at = "attempt", ToolTypeOK', NEW tool \in {"mcp", "local"},
           NEW end \in {"open", "refused"}, Attempt(tool, end),
           at' \notin {"start", "approval", "credential", "attempt", "backoff"}
    PROVE  CallInv'
<1> DEFINE new == [tool |-> tool, end |-> end]
<1>1. attempts \in Seq(Attempts) /\ new \in Attempts /\ attempts' = Append(attempts, new)
    BY DEF CallInv, ToolTypeOK, Attempts, Attempt
<1> HIDE DEF new
<1>2. /\ Len(attempts') = Len(attempts) + 1
      /\ \A i \in 1..Len(attempts) : attempts'[i] = attempts[i]
      /\ attempts' # <<>>
      /\ Len(attempts) \in Nat
    BY <1>1
<1> QED
    BY <1>2 DEF CallInv, RetriedOnlyOnNetworkErrors, MaxRetries

(* The types after the end of a call; the attempts are looked at where     *)
(* they change.                                                            *)
LEMMA FinishTypes ==
    ASSUME ToolTypeOK, NEW s \in Status, NEW r \in Status \cup {"cancelled"},
           Finish(s, r)
    PROVE  /\ at' \in {"trail", "returned"}
           /\ status' \in Status
           /\ result' \in Status \cup {"none", "cancelled"}
           /\ records' \in SUBSET [place : Place, status : Status]
<1>1. Written(records, "local", s) \in SUBSET [place : Place, status : Status]
    BY WrittenRecords DEF ToolTypeOK, Place
<1> QED
    BY <1>1, FinishMoves DEF ToolTypeOK

LEMMA ProceedTypes ==
    ASSUME ToolTypeOK, Proceed
    PROVE  /\ at' \in {"credential", "attempt", "trail", "returned"}
           /\ status' \in Status
           /\ result' \in Status \cup {"none", "cancelled"}
           /\ records' \in SUBSET [place : Place, status : Status]
<1>1. CASE Finish("failure", "failure")
    BY <1>1, FinishTypes DEF Status
<1>2. CASE at' \in {"credential", "attempt"} /\ UNCHANGED <<status, result, records>>
    BY <1>2 DEF ToolTypeOK
<1> QED
    BY <1>1, <1>2 DEF Proceed, ThirdParty

LEMMA CallInvStep == CallInv /\ [ToolNext]_toolVars => CallInv'
<1> SUFFICES ASSUME CallInv, [ToolNext]_toolVars PROVE CallInv'
    OBVIOUS
<1> USE DEF settings
<1>0. ToolTypeOK /\ attempts \in Seq(Attempts)
    BY DEF CallInv, ToolTypeOK, Attempts
<1>1. CASE Execute
    <2>1. /\ at' \in {"approval", "credential", "attempt", "trail", "returned"}
          /\ status' \in Status
          /\ result' \in Status \cup {"none", "cancelled"}
          /\ records' \in SUBSET [place : Place, status : Status]
        <3>1. CASE Finish("denied", "denied")
            BY <1>0, <3>1, FinishTypes DEF Status
        <3>2. CASE at' = "approval" /\ UNCHANGED <<status, result, records>>
            BY <1>0, <3>2 DEF ToolTypeOK
        <3>3. CASE Proceed
            BY <1>0, <3>3, ProceedTypes
        <3> QED
            BY <1>1, <3>1, <3>2, <3>3 DEF Execute
    <2>2. ToolTypeOK' /\ UNCHANGED attempts
        BY <1>0, <1>1, <2>1 DEF Execute, ToolTypeOK, Waiting, Auditing
    <2> QED
        BY <1>1, <2>1, <2>2, AttemptsKept DEF Execute, CallInv
<1>2. CASE ApprovalEnds
    <2>1. /\ at' \in {"credential", "attempt", "trail", "returned"}
          /\ status' \in Status
          /\ result' \in Status \cup {"none", "cancelled"}
          /\ records' \in SUBSET [place : Place, status : Status]
        <3>1. CASE Finish("denied", "denied")
            BY <1>0, <3>1, FinishTypes DEF Status
        <3>2. CASE Finish("failure", "failure")
            BY <1>0, <3>2, FinishTypes DEF Status
        <3>3. CASE Proceed
            BY <1>0, <3>3, ProceedTypes
        <3> QED
            BY <1>2, <3>1, <3>2, <3>3 DEF ApprovalEnds
    <2>2. ToolTypeOK' /\ UNCHANGED attempts
        BY <1>0, <1>2, <2>1 DEF ApprovalEnds, ToolTypeOK, Waiting, Auditing
    <2> QED
        BY <1>2, <2>1, <2>2, AttemptsKept DEF ApprovalEnds, CallInv
<1>3. CASE CredentialEnds
    <2>1. /\ at' \in {"attempt", "trail", "returned"}
          /\ status' \in Status
          /\ result' \in Status \cup {"none", "cancelled"}
          /\ records' \in SUBSET [place : Place, status : Status]
        <3>1. CASE Finish("failure", "failure")
            BY <1>0, <3>1, FinishTypes DEF Status
        <3>2. CASE at' = "attempt" /\ UNCHANGED <<status, result, records>>
            BY <1>0, <3>2 DEF ToolTypeOK
        <3> QED
            BY <1>3, <3>1, <3>2 DEF CredentialEnds
    <2>2. ToolTypeOK' /\ UNCHANGED attempts
        BY <1>0, <1>3, <2>1 DEF CredentialEnds, ToolTypeOK, Waiting, Auditing
    <2> QED
        BY <1>3, <2>1, <2>2, AttemptsKept DEF CredentialEnds, CallInv
<1>4. CASE Dispatch
    <2>1. UNCHANGED <<settings, approved, mcp, local, report>> /\ at = "attempt"
        BY <1>4 DEF Dispatch
    <2>2. ASSUME NEW tool \in {"mcp", "local"}, Reach(tool)
          PROVE  CallInv'
        <3>1. attempts' \in Seq(Attempts)
            BY <1>0, <2>2 DEF Reach, Attempt, Attempts
        <3>2. ToolTypeOK'
            BY <1>0, <2>1, <2>2, <3>1 DEF Reach, ToolTypeOK, Waiting, Attempts
        <3> QED
            BY <2>1, <2>2, <3>2, AttemptAdded DEF Reach
    <2>3. CASE Attempt("local", "refused") /\ Finish("failure", "failure")
        <3>1. attempts' \in Seq(Attempts)
            BY <1>0, <2>3 DEF Attempt, Attempts
        <3>2. /\ at' \in {"trail", "returned"}
              /\ status' \in Status
              /\ result' \in Status \cup {"none", "cancelled"}
              /\ records' \in SUBSET [place : Place, status : Status]
            BY <1>0, <2>3, FinishTypes DEF Status
        <3>3. ToolTypeOK'
            BY <1>0, <2>1, <3>1, <3>2 DEF ToolTypeOK, Auditing, Attempts
        <3> QED
            BY <2>1, <2>3, <3>2, <3>3, AttemptAdded
    <2>4. CASE Finish("failure", "failure") /\ UNCHANGED attempts
        <3>1. /\ at' \in {"trail", "returned"}
              /\ status' \in Status
              /\ result' \in Status \cup {"none", "cancelled"}
              /\ records' \in SUBSET [place : Place, status : Status]
            BY <1>0, <2>4, FinishTypes DEF Status
        <3>2. ToolTypeOK'
            BY <1>0, <2>1, <2>4, <3>1 DEF ToolTypeOK, Auditing
        <3> QED
            BY <2>1, <2>4, <3>1, <3>2, AttemptsKept
    <2> QED
        BY <1>4, <2>2, <2>3, <2>4 DEF Dispatch, CallLocal
<1>5. ASSUME NEW how \in {"answered", "network", "timeout", "error"}, at = "tool",
             attempts' = Ended(how), ToolTypeOK', at' \in {"trail", "returned", "backoff"},
             at' = "backoff" => how = "network" /\ Len(attempts) < MaxRetries
      PROVE  CallInv'
    <2>1. attempts # <<>>
        BY <1>5 DEF CallInv
    <2>2. /\ Len(attempts') = Len(attempts) /\ Len(attempts) \in Nat
          /\ \A i \in 1..Len(attempts) :
                attempts'[i].end = IF i = Len(attempts) THEN how ELSE attempts[i].end
        BY <1>0, <1>5, <2>1, EndedAttempts
    <2>3. \A i \in 1..(Len(attempts) - 1) : attempts[i].end = "network"
        BY DEF CallInv, RetriedOnlyOnNetworkErrors
    <2> QED
        BY <1>5, <2>2, <2>3 DEF CallInv, RetriedOnlyOnNetworkErrors, MaxRetries
<1>6. CASE ToolReturns
    <2>1. /\ at' \in {"trail", "returned"}
          /\ status' \in Status
          /\ result' \in Status \cup {"none", "cancelled"}
          /\ records' \in SUBSET [place : Place, status : Status]
        BY <1>0, <1>6, FinishTypes DEF ToolReturns, Status
    <2>2. attempts' \in Seq(Attempts)
        BY <1>0, <1>6, EndedAttempts DEF ToolReturns, CallInv
    <2>3. ToolTypeOK'
        BY <1>0, <1>6, <2>1, <2>2 DEF ToolReturns, ToolTypeOK, Auditing, Attempts
    <2> QED
        BY <1>5, <1>6, <2>1, <2>3 DEF ToolReturns
<1>7. CASE ToolFails
    <2>1. PICK how \in {"network", "timeout", "error"} :
              /\ attempts' = Ended(how)
              /\ IF how \in Retried /\ Len(attempts) < MaxRetries
                 THEN at' = "backoff" /\ UNCHANGED <<status, result, records>>
                 ELSE Finish("failure", "failure")
        BY <1>7 DEF ToolFails
    <2>2. /\ at' \in {"trail", "returned", "backoff"}
          /\ status' \in Status
          /\ result' \in Status \cup {"none", "cancelled"}
          /\ records' \in SUBSET [place : Place, status : Status]
          /\ at' = "backoff" => how = "network" /\ Len(attempts) < MaxRetries
        <3>1. CASE how \in Retried /\ Len(attempts) < MaxRetries
            BY <1>0, <2>1, <3>1 DEF ToolTypeOK, Retried
        <3>2. CASE Finish("failure", "failure")
            <4>1. at' \in {"trail", "returned"}
                BY <1>0, <3>2, FinishTypes DEF Status
            <4> QED
                BY <1>0, <3>2, <4>1, FinishTypes DEF Status
        <3> QED
            BY <2>1, <3>1, <3>2
    <2>3. attempts' \in Seq(Attempts)
        BY <1>0, <1>7, <2>1, EndedAttempts DEF ToolFails, CallInv
    <2>4. ToolTypeOK'
        BY <1>0, <1>7, <2>2, <2>3 DEF ToolFails, ToolTypeOK, Auditing, Waiting, Attempts
    <2> QED
        BY <1>5, <1>7, <2>1, <2>2, <2>4 DEF ToolFails
<1>8. CASE BackoffEnds
    <2>1. ToolTypeOK'
        BY <1>0, <1>8 DEF BackoffEnds, ToolTypeOK
    <2> QED
        BY <1>8, <2>1, AttemptsKept DEF BackoffEnds
<1>9. CASE SkillReports
    <2>1. ToolTypeOK'
        BY <1>0, <1>9 DEF SkillReports, ToolTypeOK
    <2> QED
        BY <1>9, <2>1, AttemptsKept DEF SkillReports
<1>10. CASE TrailAccepts \/ TrailFails \/ Alerted
    <2>1. records' \in SUBSET [place : Place, status : Status]
        <3>1. /\ records \in SUBSET [place : Place, status : Status]
              /\ status \in Status
              /\ records \cup {Record("trail", status)} \in SUBSET [place : Place, status : Status]
            BY <1>0 DEF ToolTypeOK, Record, Place
        <3>2. CASE TrailAccepts
            <4>1. records' = Written(records \cup {Record("trail", status)}, "local", status)
                BY <3>2 DEF TrailAccepts, WriteLocal
            <4> QED
                BY <3>1, <4>1, WrittenRecords DEF Place
        <3>3. CASE TrailFails
            BY <3>1, <3>3, WrittenRecords DEF TrailFails, Place
        <3>4. CASE Alerted
            BY <3>1, <3>4, WrittenRecords DEF Alerted, WriteLocal, Place
        <3> QED
            BY <1>10, <3>2, <3>3, <3>4
    <2>2. at' \in {"alert", "returned"} /\ UNCHANGED attempts
        BY <1>10 DEF TrailAccepts, TrailFails, Alerted, WriteLocal
    <2>3. ToolTypeOK'
        BY <1>0, <1>10, <2>1, <2>2
           DEF TrailAccepts, TrailFails, Alerted, WriteLocal, ToolTypeOK, Auditing
    <2> QED
        BY <2>2, <2>3, AttemptsKept
<1>11. CASE RegistryChanges
    <2>1. ToolTypeOK'
        BY <1>0, <1>11 DEF RegistryChanges, ToolTypeOK
    <2> QED
        BY <1>11, <2>1, AttemptsKept DEF RegistryChanges, CallInv, Waiting
<1>12. CASE Cancel
    <2>1. /\ at' \in {"trail", "returned"}
          /\ status' \in Status
          /\ result' \in Status \cup {"none", "cancelled"}
          /\ records' \in SUBSET [place : Place, status : Status]
        <3>1. CASE Finish(status, "cancelled")
            BY <1>0, <3>1, FinishTypes DEF ToolTypeOK
        <3> QED
            BY <1>0, <1>12, <3>1 DEF Cancel, ToolTypeOK
    <2>2. ToolTypeOK'
        BY <1>0, <1>12, <2>1 DEF Cancel, ToolTypeOK, Auditing
    <2> QED
        BY <1>12, <2>1, <2>2, AttemptsKept DEF Cancel
<1>13. CASE UNCHANGED toolVars
    BY <1>13 DEF toolVars, CallInv, ToolTypeOK, RetriedOnlyOnNetworkErrors
<1> QED
    BY <1>1, <1>2, <1>3, <1>4, <1>6, <1>7, <1>8, <1>9, <1>10, <1>11, <1>12, <1>13
       DEF ToolNext
-----------------------------------------------------------------------------
(* Permission.                                                             *)

(* Where the call is past the gate it was allowed, and past the approval   *)
(* it was approved when that was required.                                 *)
PermitInv ==
    /\ at \in {"approval", "credential", "attempt", "tool", "backoff"} => Allowed
    /\ at \in {"credential", "attempt", "tool", "backoff"} =>
          (RequiresApproval => approved)
    /\ OnlyPermitted

LEMMA PermitInvStep == CallInv /\ PermitInv /\ [ToolNext]_toolVars => PermitInv'
<1> SUFFICES ASSUME CallInv, PermitInv, [ToolNext]_toolVars PROVE PermitInv'
    OBVIOUS
<1> USE DEF settings
<1>0. UNCHANGED settings /\ (Allowed' = Allowed) /\ (RequiresApproval' = RequiresApproval)
    <2>1. UNCHANGED settings
        BY DEF ToolNext, toolVars, Execute, ApprovalEnds, CredentialEnds, Dispatch,
               ToolReturns, ToolFails, BackoffEnds, SkillReports, TrailAccepts,
               TrailFails, Alerted, RegistryChanges, Cancel
    <2> QED
        BY <2>1 DEF Allowed, RequiresApproval
<1>1. CASE Execute
    <2>1. attempts' = <<>>
        BY <1>1 DEF Execute, CallInv
    <2>2. CASE ~Allowed \/ (RequiresApproval /\ ~callback)
        BY <1>0, <1>1, <2>1, <2>2, FinishMoves
           DEF Execute, PermitInv, OnlyPermitted, Proceed, ThirdParty
    <2>3. CASE Allowed /\ (~RequiresApproval \/ callback)
        BY <1>0, <1>1, <2>1, <2>3 DEF Execute, PermitInv, OnlyPermitted, Finish, WriteLocal
    <2> QED
        BY <2>2, <2>3
<1>2. CASE ApprovalEnds
    <2>1. attempts' = <<>>
        BY <1>2 DEF ApprovalEnds, CallInv
    <2>2. Allowed
        BY <1>2 DEF ApprovalEnds, PermitInv
    <2>3. approved' \/ at' \in {"trail", "returned"}
        BY <1>2, FinishMoves DEF ApprovalEnds
    <2> QED
        BY <1>0, <2>1, <2>2, <2>3 DEF PermitInv, OnlyPermitted
<1>3. ASSUME UNCHANGED approved,
             at \in {"credential", "attempt", "tool", "backoff"},
             at' \in {"attempt", "tool", "backoff", "trail", "returned"}
      PROVE  PermitInv'
    BY <1>0, <1>3 DEF PermitInv, OnlyPermitted
<1>4. CASE CredentialEnds
    BY <1>3, <1>4, FinishMoves DEF CredentialEnds
<1>5. CASE Dispatch
    BY <1>3, <1>5, FinishMoves DEF Dispatch, CallLocal, Reach
<1>6. CASE ToolReturns
    BY <1>3, <1>6, FinishMoves DEF ToolReturns
<1>7. CASE ToolFails
    BY <1>3, <1>7, FinishMoves DEF ToolFails
<1>8. CASE BackoffEnds
    BY <1>3, <1>8 DEF BackoffEnds
<1>9. ASSUME UNCHANGED <<approved, attempts>>,
             at' \in {"trail", "alert", "returned"} \/ UNCHANGED at
      PROVE  PermitInv'
    BY <1>0, <1>9 DEF PermitInv, OnlyPermitted
<1>10. CASE SkillReports \/ RegistryChanges \/ UNCHANGED toolVars
    BY <1>9, <1>10 DEF SkillReports, RegistryChanges, toolVars
<1>11. CASE TrailAccepts \/ TrailFails \/ Alerted
    BY <1>9, <1>11 DEF TrailAccepts, TrailFails, Alerted, WriteLocal
<1>12. CASE Cancel
    BY <1>9, <1>12, FinishMoves DEF Cancel
<1> QED
    BY <1>1, <1>2, <1>4, <1>5, <1>6, <1>7, <1>8, <1>10, <1>11, <1>12 DEF ToolNext

-----------------------------------------------------------------------------
(* The audit record.                                                       *)

(* Nothing is recorded while the call goes on, and a call that is being    *)
(* cancelled is recorded as the success it began as.  ActionTrail is tried *)
(* first where there is one, and a failure of it leaves a backup.          *)
RecordInv ==
    /\ at \in Waiting \cup {"start", "attempt"} => records = {}
    /\ at \in Auditing =>
          /\ endpoint
          /\ result \in {status, "cancelled"}
          /\ \A rec \in records : rec.status = status
    /\ at = "trail" => records = {}
    /\ at = "alert" /\ disk => Record("backup", status) \in records
    /\ RecordsAgree

(* The end of a call of which nothing is recorded yet.                     *)
LEMMA FinishRecords ==
    ASSUME NEW s, NEW r \in {s, "cancelled"}, Finish(s, r), records = {}, UNCHANGED settings
    PROVE  RecordInv'
<1> USE DEF settings
<1>1. CASE at' = "trail"
    BY <1>1, FinishMoves DEF RecordInv, RecordsAgree, Waiting, Auditing
<1>2. CASE at' = "returned"
    <2>1. ~endpoint /\ result' = r /\ records' = Written({}, "local", s)
        BY <1>2, FinishMoves
    <2>2. /\ Record("local", s).status = s
          /\ records' = IF disk THEN {Record("local", s)} ELSE {}
        BY <2>1 DEF Written, Record
    <2> QED
        BY <1>2, <2>1, <2>2 DEF RecordInv, RecordsAgree, Waiting, Auditing
<1> QED
    BY <1>1, <1>2, FinishMoves

LEMMA RecordInvStep == RecordInv /\ [ToolNext]_toolVars => RecordInv'
<1> SUFFICES ASSUME RecordInv, [ToolNext]_toolVars PROVE RecordInv'
    OBVIOUS
<1> USE DEF settings
<1>0. UNCHANGED settings
    BY DEF ToolNext, toolVars, Execute, ApprovalEnds, CredentialEnds, Dispatch,
           ToolReturns, ToolFails, BackoffEnds, SkillReports, TrailAccepts,
           TrailFails, Alerted, RegistryChanges, Cancel
<1>1. ASSUME at \in Waiting \cup {"start", "attempt"},
             at' \in Waiting \cup {"start", "attempt"}, UNCHANGED records
      PROVE  RecordInv'
    BY <1>1 DEF RecordInv, RecordsAgree, Waiting, Auditing
<1>2. ASSUME at \in Waiting \cup {"start", "attempt"}, NEW s,
             NEW r \in {s, "cancelled"}, Finish(s, r)
      PROVE  RecordInv'
    BY <1>0, <1>2, FinishRecords DEF RecordInv
<1>3. CASE Execute \/ ApprovalEnds \/ CredentialEnds
    BY <1>1, <1>2, <1>3
       DEF Execute, ApprovalEnds, CredentialEnds, Proceed, ThirdParty, Waiting
<1>4. CASE Dispatch
    BY <1>1, <1>2, <1>4 DEF Dispatch, CallLocal, Reach, Waiting
<1>5. CASE ToolReturns \/ ToolFails \/ BackoffEnds
    BY <1>1, <1>2, <1>5 DEF ToolReturns, ToolFails, BackoffEnds, Waiting
<1>6. CASE RegistryChanges
    BY <1>1, <1>6 DEF RegistryChanges
<1>7. CASE SkillReports \/ UNCHANGED toolVars
    BY <1>7 DEF SkillReports, toolVars, RecordInv, RecordsAgree
<1>8. ASSUME NEW from, at \in Auditing, \A rec \in from : rec.status = status,
             UNCHANGED status, WriteLocal(from, status, result),
             disk => {Record("trail", status), Record("backup", status)} \cap from # {}
      PROVE  RecordInv'
    <2>1. /\ at' = "returned" /\ result' = result /\ result \in {status, "cancelled"}
          /\ records' = IF disk THEN from \cup {Record("local", status)} ELSE from
        BY <1>8 DEF WriteLocal, Written, RecordInv
    <2>2. Record("local", status).status = status
        BY DEF Record
    <2> QED
        BY <1>0, <1>8, <2>1, <2>2 DEF RecordInv, RecordsAgree, Waiting, Auditing
<1>9. CASE TrailAccepts
    <2>1. records = {} /\ at \in Auditing
        BY <1>9 DEF TrailAccepts, RecordInv, Auditing
    <2>2. Record("trail", status).status = status
        BY DEF Record
    <2> QED
        BY <1>8, <1>9, <2>1, <2>2 DEF TrailAccepts
<1>10. CASE TrailFails
    <2>1. /\ records' = IF disk THEN {Record("backup", status)} ELSE {}
          /\ endpoint /\ result \in {status, "cancelled"}
        BY <1>10 DEF TrailFails, Written, RecordInv, Auditing
    <2>2. Record("backup", status).status = status
        BY DEF Record
    <2> QED
        BY <1>0, <1>10, <2>1, <2>2
           DEF TrailFails, RecordInv, RecordsAgree, Waiting, Auditing
<1>11. CASE Alerted
    BY <1>8, <1>11 DEF Alerted, RecordInv, Auditing
<1>12. CASE Cancel
    <2>1. CASE at \in Waiting /\ Finish(status, "cancelled")
        BY <1>2, <2>1
    <2>2. CASE at' = "returned" /\ result' = "cancelled"
        BY <2>2 DEF RecordInv, RecordsAgree, Waiting, Auditing
    <2> QED
        BY <1>12, <2>1, <2>2 DEF Cancel
<1> QED
    BY <1>3, <1>4, <1>5, <1>6, <1>7, <1>9, <1>10, <1>11, <1>12 DEF ToolNext

-----------------------------------------------------------------------------
(* The answer of the tool.                                                 *)

Over == Auditing \cup {"returned"}

(* Until the call is over no tool has answered, and when it is, an answer  *)
(* makes it a success, which is what the skill reports.                    *)
AnswerInv ==
    /\ at \notin Over => ~Answered
    /\ at \in Over => result = "cancelled" \/ (result = "success" <=> Answered)
    /\ report # "none" =>
          at = "returned" /\ result # "cancelled" /\ (report = "data" <=> Answered)

(* A call that was not over goes on without an answer, fails, or is        *)
(* cancelled.                                                              *)
LEMMA Unanswered ==
    ASSUME AnswerInv, at \notin Over, UNCHANGED report, ~Answered',
           at' \notin Over \/ \E s \in Status, r \in {"denied", "failure", "cancelled"} : Finish(s, r)
    PROVE  AnswerInv'
<1>1. report' = "none"
    BY DEF AnswerInv, Over
<1>2. CASE at' \notin Over
    BY <1>1, <1>2 DEF AnswerInv
<1>3. ASSUME NEW s \in Status, NEW r \in {"denied", "failure", "cancelled"}, Finish(s, r)
      PROVE  AnswerInv'
    <2>1. at' \in Over /\ result' # "success"
        BY <1>3, FinishMoves DEF Over, Auditing
    <2> QED
        BY <1>1, <2>1 DEF AnswerInv
<1> QED
    BY <1>2, <1>3

LEMMA AnswerInvStep ==
    CallInv /\ RecordInv /\ AnswerInv /\ [ToolNext]_toolVars => AnswerInv'
<1> SUFFICES ASSUME CallInv, RecordInv, AnswerInv, [ToolNext]_toolVars PROVE AnswerInv'
    OBVIOUS
<1>0. attempts \in Seq(Attempts) /\ status \in Status
    BY DEF CallInv, ToolTypeOK, Attempts
<1>1. CASE Execute \/ ApprovalEnds \/ CredentialEnds
    <2>1. at \notin Over /\ UNCHANGED <<attempts, report>>
        BY <1>1 DEF Execute, ApprovalEnds, CredentialEnds, Over, Auditing
    <2>2. ~Answered'
        BY <2>1 DEF AnswerInv, Answered
    <2>3. \/ at' \in {"approval", "credential", "attempt"}
          \/ \E s \in {"denied", "failure"} : Finish(s, s)
        BY <1>1 DEF Execute, ApprovalEnds, CredentialEnds, Proceed, ThirdParty
    <2> QED
        BY <2>1, <2>2, <2>3, Unanswered DEF Over, Auditing, Status
<1>2. CASE Dispatch
    <2>1. at \notin Over /\ UNCHANGED report
        BY <1>2 DEF Dispatch, Over, Auditing
    <2>2. ASSUME NEW tool \in {"mcp", "local"}, NEW end \in {"open", "refused"},
                 Attempt(tool, end)
          PROVE  ~Answered'
        <3> DEFINE new == [tool |-> tool, end |-> end]
        <3>1. new.end # "answered" /\ attempts' = Append(attempts, new)
            BY <2>2 DEF Attempt
        <3> HIDE DEF new
        <3>2. \A i \in DOMAIN Append(attempts, new) :
                 \/ Append(attempts, new)[i] = new
                 \/ i \in DOMAIN attempts /\ Append(attempts, new)[i] = attempts[i]
            BY <1>0
        <3>3. ~Answered
            BY <2>1 DEF AnswerInv
        <3> QED
            BY <3>1, <3>2, <3>3 DEF Answered
    <2>3. ASSUME attempts' = attempts PROVE ~Answered'
        BY <2>1, <2>3 DEF AnswerInv, Answered
    <2>4. \/ attempts' = attempts
          \/ \E tool \in {"mcp", "local"}, end \in {"open", "refused"} : Attempt(tool, end)
        BY <1>2 DEF Dispatch, CallLocal, Reach
    <2>5. at' = "tool" \/ Finish("failure", "failure")
        BY <1>2 DEF Dispatch, CallLocal, Reach
    <2> QED
        BY <2>1, <2>2, <2>3, <2>4, <2>5, Unanswered DEF Over, Auditing, Status
<1>3. CASE ToolReturns
    <2>1. /\ at = "tool" /\ attempts # <<>> /\ attempts' = Ended("answered")
          /\ Finish("success", "success") /\ UNCHANGED report
        BY <1>3 DEF ToolReturns, CallInv
    <2>2. /\ Len(attempts) \in DOMAIN attempts'
          /\ attempts'[Len(attempts)].end = "answered"
        <3>1. /\ Ended("answered") \in Seq(Attempts) /\ Len(Ended("answered")) = Len(attempts)
              /\ \A i \in 1..Len(attempts) :
                    Ended("answered")[i].end =
                        IF i = Len(attempts) THEN "answered" ELSE attempts[i].end
            BY <1>0, <2>1, EndedAttempts
        <3>2. /\ DOMAIN Ended("answered") = 1..Len(attempts)
              /\ Len(attempts) \in 1..Len(attempts)
            BY <1>0, <2>1, <3>1
        <3> QED
            BY <2>1, <3>1, <3>2
    <2>3. Answered'
        BY <2>2 DEF Answered
    <2>4. at' \in Over /\ result' = "success"
        BY <2>1, FinishMoves DEF Over, Auditing
    <2>5. report' = "none"
        BY <2>1 DEF AnswerInv
    <2> QED
        BY <2>3, <2>4, <2>5 DEF AnswerInv
<1>4. CASE ToolFails
    <2>1. PICK how \in {"network", "timeout", "error"} :
              /\ attempts' = Ended(how)
              /\ at' = "backoff" \/ Finish("failure", "failure")
        BY <1>4 DEF ToolFails
    <2>2. at = "tool" /\ at \notin Over /\ attempts # <<>> /\ UNCHANGED report
        BY <1>4 DEF ToolFails, CallInv, Over, Auditing
    <2>3. \A i \in DOMAIN attempts' :
             \/ attempts'[i].end = how
             \/ i \in DOMAIN attempts /\ attempts'[i].end = attempts[i].end
        <3>1. /\ Ended(how) \in Seq(Attempts) /\ Len(Ended(how)) = Len(attempts)
              /\ \A i \in 1..Len(attempts) :
                    Ended(how)[i].end = IF i = Len(attempts) THEN how ELSE attempts[i].end
            BY <1>0, <2>2, EndedAttempts
        <3>2. DOMAIN Ended(how) = 1..Len(attempts) /\ DOMAIN attempts = 1..Len(attempts)
            BY <1>0, <3>1
        <3> QED
            BY <2>1, <3>1, <3>2
    <2>4. ~Answered
        BY <2>2 DEF AnswerInv
    <2>5. ~Answered'
        BY <2>1, <2>3, <2>4 DEF Answered
    <2> QED
        BY <2>1, <2>2, <2>5, Unanswered DEF Over, Auditing, Status
<1>5. CASE BackoffEnds \/ RegistryChanges
    <2>1. at \notin Over /\ at' \notin Over /\ UNCHANGED <<attempts, report>>
        BY <1>5 DEF BackoffEnds, RegistryChanges, Over, Auditing, Waiting
    <2> QED
        BY <2>1, Unanswered DEF AnswerInv, Answered
<1>6. CASE SkillReports
    BY <1>6 DEF SkillReports, AnswerInv, Answered, Over
<1>7. CASE TrailAccepts \/ TrailFails \/ Alerted
    <2>1. /\ at \in Auditing /\ at' \in Over /\ UNCHANGED <<attempts, report, result>>
        BY <1>7 DEF TrailAccepts, TrailFails, Alerted, WriteLocal, Over, Auditing
    <2> QED
        BY <2>1 DEF AnswerInv, Answered, Over, Auditing
<1>8. CASE Cancel
    <2>1. UNCHANGED <<attempts, report>>
        BY <1>8 DEF Cancel
    <2>2. CASE at \in Waiting /\ Finish(status, "cancelled")
        <3>1. at \notin Over
            BY <2>2 DEF Over, Auditing, Waiting
        <3> QED
            BY <1>0, <2>1, <2>2, <3>1, Unanswered DEF AnswerInv, Answered
    <2>3. CASE at \in Auditing /\ at' = "returned" /\ result' = "cancelled"
        BY <2>1, <2>3 DEF AnswerInv, Over, Auditing
    <2> QED
        BY <1>8, <2>2, <2>3 DEF Cancel
<1>9. CASE UNCHANGED toolVars
    BY <1>9 DEF toolVars, AnswerInv, Answered
<1> QED
    BY <1>1, <1>2, <1>3, <1>4, <1>5, <1>6, <1>7, <1>8, <1>9 DEF ToolNext

-----------------------------------------------------------------------------
(* The theorems.                                                           *)

ToolInv == CallInv /\ PermitInv /\ RecordInv /\ AnswerInv

LEMMA ToolInvariant == ToolSpec => []ToolInv
<1>1. ToolInit => ToolInv
    BY CallInvInit
       DEF ToolInit, ToolInv, PermitInv, OnlyPermitted, RecordInv, RecordsAgree,
           AnswerInv, Answered, Over, Auditing
<1>2. ToolInv /\ [ToolNext]_toolVars => ToolInv'
    BY CallInvStep, PermitInvStep, RecordInvStep, AnswerInvStep DEF ToolInv
<1> QED
    BY <1>1, <1>2, PTL DEF ToolSpec

(* Every variable of a tool call keeps its type.                           *)
THEOREM ToolTypes == ToolSpec => []ToolTypeOK
<1>1. ToolInv => ToolTypeOK
    BY DEF ToolInv, CallInv
<1> QED
    BY <1>1, ToolInvariant, PTL

(* No attempt is made at a tool whose name no permission matches, or       *)
(* without the approval it requires.                                       *)
THEOREM PermittedOnly == ToolSpec => []OnlyPermitted
<1>1. ToolInv => OnlyPermitted
    BY DEF ToolInv, PermitInv
<1> QED
    BY <1>1, ToolInvariant, PTL

(* Only a network error is followed by another attempt; three is the most. *)
THEOREM RetriesOnlyNetwork == ToolSpec => []RetriedOnlyOnNetworkErrors
<1>1. ToolInv => RetriedOnlyOnNetworkErrors
    BY DEF ToolInv, CallInv
<1> QED
    BY <1>1, ToolInvariant, PTL

(* A call that returns was recorded with the result that was returned,     *)
(* which is a success, with data for the skill, where the tool answered.   *)
THEOREM RecordsMatch == ToolSpec => []RecordedAsReturned
<1>1. ToolInv => RecordedAsReturned
    <2>1. ToolInv => RecordsAgree
        BY DEF ToolInv, RecordInv
    <2>2. ToolInv => AnswersAgree
        BY DEF ToolInv, AnswerInv, AnswersAgree, Over
    <2> QED
        BY <2>1, <2>2 DEF RecordedAsReturned
<1> QED
    BY <1>1, ToolInvariant, PTL

(* For a user the agent may do nothing that it or the user may not do.     *)
THEOREM Downgraded == ToolSpec => []DowngradedToBoth
<1>1. ToolInv => DowngradedToBoth
    BY EffectiveWithinBoth DEF ToolInv, CallInv, ToolTypeOK
<1> QED
    BY <1>1, ToolInvariant, PTL
=============================================================================
