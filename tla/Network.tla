------------------------------ MODULE Network ------------------------------
(***************************************************************************)
(* NetworkController (server.h, server.cpp): the list of connections, the  *)
(* UDP-then-TCP handshake that fills it, the dispatch of the other packets *)
(* to typed events, and disconnect.                                        *)
(*                                                                         *)
(* A client's InitializeConnection datagram puts a Connection, not yet     *)
(* activated, on the list and starts one async_accept bound to it; the     *)
(* acceptor serves these in the order they were started, whoever connects  *)
(* to the TCP port.  The handler of the accept activates the Connection,   *)
(* announces it with a NewConnectionEvent, which carries only the username,*)
(* and answers "success".                                                  *)
(*                                                                         *)
(* The dispatcher behind event::enqueueEvent is not in this repository: an *)
(* enqueued event is delivered later, in the order of its own event type   *)
(* and in any order with respect to the other types.                       *)
(***************************************************************************)
EXTENDS Wire

CONSTANTS
  RawNames,       \* names as packets carry them, before sanitizeUsername
  Sanitize,       \* what sanitizeUsername makes of each of them
  PacketKinds,    \* the packet ids other than `connect`
  Bodies,         \* what the packets of each kind can carry
  MaxEvents       \* bound: the events of one type that wait for delivery

ASSUME NetworkAssumption ==
  /\ Sanitize \in [RawNames -> Usernames]
  /\ Bodies \in [PacketKinds -> SUBSET Payloads]
  /\ MaxEvents \in Nat

VARIABLES
  con,             \* the Connection objects handleConnect has kept so far
  connections,     \* which of them are on the list
  accepts,         \* those an async_accept is outstanding for
  newConnections,  \* those whose NewConnectionEvent waits for delivery
  packets          \* the PacketReceivedEvents that wait, by packet kind

networkVars == <<con, connections, accepts, newConnections, packets>>

Connection == [username: Usernames, endpoint: Endpoints, activated: BOOLEAN,
               peer: Endpoints \cup {Nobody}]

\* PacketReceivedEvent.  `from` is history, for the properties only: the
\* connection the packet was attributed to when it was received.
PacketEvent == [username: Usernames, payload: Payloads, from: Ids]

NetworkTypeOK ==
  /\ WireTypeOK
  /\ con \in Seq(Connection) /\ Len(con) <= MaxConnections
  /\ connections \subseteq 1 .. Len(con)
  /\ accepts \subseteq 1 .. Len(con)
  /\ newConnections \subseteq 1 .. Len(con)
  /\ packets \in [PacketKinds -> Seq(PacketEvent)]

NetworkInit ==
  /\ con = <<>>
  /\ connections = {}
  /\ accepts = {}
  /\ newConnections = {}
  /\ packets = [k \in PacketKinds |-> <<>>]
-----------------------------------------------------------------------------
(* getConnection and disconnectForce *)

\* Mutation: half-open connections are not found by name.
NamedActivated(u) ==
  {i \in connections : con[i].username = u /\ con[i].activated}

\* The entries getConnection(username) chooses among.
Named(u) == {i \in connections : con[i].username = u}

\* Mutation: a new entry is put at the front of the list.
AtNewest(e) ==
  {i \in connections : /\ con[i].endpoint = e
                       /\ \A j \in connections : con[j].endpoint = e => j <= i}

\* The entries getConnection(endpoint) chooses among.
At(e) == {i \in connections : con[i].endpoint = e}

\* Mutation: every entry of the address is erased.
WithoutEndpointOf(u) ==
  connections \ UNION {At(con[i].endpoint) : i \in Named(u)}

\* The list disconnectForce leaves: every entry of that username is erased.
Without(u) == {i \in connections : con[i].username # u}

IsValid(i) == con[i].username # EmptyName /\ con[i].activated
-----------------------------------------------------------------------------
(* handleConnect *)

\* The name is on the list: the refusal goes to the connection that has it.
AlreadyConnected(e, u) ==
  \E i \in Ids :
    /\ IsFirst(i, Named(u))
    /\ sent' = {Datagram(con[i].endpoint, "alreadyConnected")}
    /\ UNCHANGED networkVars

\* Mutation: the refused entry is not erased.
RefuseOnly(e, u, verdict) ==
  /\ Named(u) = {}
  /\ Len(con) < MaxConnections
  /\ sent' = {Datagram(e, verdict)}
  /\ con' = Append(con, [username |-> u, endpoint |-> e,
                         activated |-> FALSE, peer |-> Nobody])
  /\ connections' = connections \cup {Len(con) + 1}
  /\ UNCHANGED <<accepts, newConnections, packets>>

\* Mutation: every entry of the address is erased.
RefuseAddress(e, u, verdict) ==
  /\ Named(u) = {}
  /\ sent' = {Datagram(e, verdict)}
  /\ connections' = connections \ At(e)
  /\ UNCHANGED <<con, accepts, newConnections, packets>>

\* A listener of newConnectionUnavailable or newConnectionBanned objects.  The
\* entry is put on the list, refused and erased in one handler, so it takes no
\* number; the erasure is by username.
Refuse(e, u, verdict) ==
  /\ Named(u) = {}
  /\ sent' = {Datagram(e, verdict)}
  /\ connections' = Without(u)
  /\ UNCHANGED <<con, accepts, newConnections, packets>>

\* Mutation: the accept is bound to the entry before.
AwaitTcpOfPrevious(e, u) ==
  /\ Named(u) = {}
  /\ Len(con) < MaxConnections
  /\ con' = Append(con, [username |-> u, endpoint |-> e,
                         activated |-> FALSE, peer |-> Nobody])
  /\ connections' = connections \cup {Len(con) + 1}
  /\ accepts' = accepts \cup {Len(con)}
  /\ sent' = {}
  /\ UNCHANGED <<newConnections, packets>>

\* The entry stays on the list and an accept is started for it.
AwaitTcp(e, u) ==
  /\ Named(u) = {}
  /\ Len(con) < MaxConnections
  /\ con' = Append(con, [username |-> u, endpoint |-> e,
                         activated |-> FALSE, peer |-> Nobody])
  /\ connections' = connections \cup {Len(con) + 1}
  /\ accepts' = accepts \cup {Len(con) + 1}
  /\ sent' = {}
  /\ UNCHANGED <<newConnections, packets>>

HandleConnect(e, n) ==
  LET u == Sanitize[n] IN
  /\ Running
  /\ \/ AlreadyConnected(e, u)
     \/ \E verdict \in {"unavailable", "banned"} : Refuse(e, u, verdict)
     \/ AwaitTcp(e, u)
  /\ UNCHANGED fault
-----------------------------------------------------------------------------
(* handleAccept *)

\* A client at `peer` connected to the TCP port: the oldest outstanding accept
\* completes with its socket.
HandleAccept(i, peer) ==
  /\ Running
  /\ IsFirst(i, accepts)
  /\ accepts' = accepts \ {i}
  /\ con' = [con EXCEPT ![i].activated = TRUE, ![i].peer = peer]
  /\ newConnections' = newConnections \cup {i}
  /\ sent' = {Datagram(con[i].endpoint, "success")}
  /\ UNCHANGED <<connections, packets, fault>>

\* The error code is not looked at: remote_endpoint() throws for the log line,
\* before anything else is done.
AcceptFails(i) ==
  /\ Running
  /\ IsFirst(i, accepts)
  /\ accepts' = accepts \ {i}
  /\ fault' = "accept"
  /\ sent' = {}
  /\ UNCHANGED <<con, connections, newConnections, packets>>
-----------------------------------------------------------------------------
(* handlePacketRaw, for the packets that are not `connect` *)

\* A packet of a wrong constant, of no listed endpoint or of a connection that
\* is not valid changes nothing, so only the others are steps.
HandlePacket(e, k, d) ==
  /\ Running
  /\ \E i \in Ids :
       /\ IsFirst(i, At(e))
       /\ IsValid(i)
       /\ Len(packets[k]) < MaxEvents
       /\ packets' = [packets EXCEPT ![k] =
            Append(@, [username |-> con[i].username, payload |-> d,
                      from |-> i])]
  /\ sent' = {}
  /\ UNCHANGED <<con, connections, accepts, newConnections, fault>>

NetworkHandlers ==
  \/ \E e \in Endpoints, n \in RawNames : HandleConnect(e, n)
  \/ \E i \in Ids, peer \in Endpoints : HandleAccept(i, peer)
  \/ \E i \in Ids : AcceptFails(i)
  \/ \E e \in Endpoints, k \in PacketKinds : \E d \in Bodies[k] :
       HandlePacket(e, k, d)
-----------------------------------------------------------------------------
(* What the rest of the server does to this component. *)

\* disconnect(connection), by a holder of a copy of an activated Connection:
\* disconnect only calls disconnectForce.
Disconnect(i) ==
  /\ Running
  /\ con[i].activated
  /\ connections' = Without(con[i].username)
  /\ sent' = {}
  /\ UNCHANGED <<con, accepts, newConnections, packets, fault>>

\* The dispatcher takes the oldest event of a type to deliver it.
TakeNewConnection(i) ==
  /\ IsFirst(i, newConnections)
  /\ newConnections' = newConnections \ {i}
  /\ UNCHANGED <<con, accepts, packets>>

TakePacket(k) ==
  /\ packets[k] # <<>>
  /\ packets' = [packets EXCEPT ![k] = Tail(@)]
  /\ UNCHANGED <<con, accepts, newConnections>>

(***************************************************************************)
(* The component by itself, for any use of it: events may be delivered to  *)
(* handlers that do nothing, and any copy of a Connection disconnected.    *)
(***************************************************************************)
NetworkUsers ==
  \/ \E i \in DOMAIN con : Disconnect(i)
  \/ /\ Running
     /\ sent' = {}
     /\ \/ \E i \in Ids : TakeNewConnection(i)
        \/ \E k \in PacketKinds : TakePacket(k)
     /\ UNCHANGED <<connections, fault>>

NetworkNext == NetworkHandlers \/ NetworkUsers

NetworkUseInit == WireInit /\ NetworkInit

NetworkSpec ==
  NetworkUseInit /\ [][NetworkNext]_<<networkVars, sent, fault>>
-----------------------------------------------------------------------------
\* No two entries of the list have the same username: events name their client
\* by username alone, and getConnection and disconnect find entries by it.
\* handleConnect refuses a name that is listed, whatever state its entry is in.
UniqueUsernames ==
  \A i, j \in connections : con[i].username = con[j].username => i = j

\* Accepts complete in the order in which handleConnect started them, so no
\* connection is activated while an older one still waits for its TCP connect:
\* a client that stays away from the TCP port holds up, or is given the socket
\* of, everybody behind it.
HandshakesCompleteInOrder ==
  \A i, j \in DOMAIN con : i < j /\ con[j].activated => con[i].activated

\* handleConnect logs that the connection it answers is refused, so the answer
\* goes to the endpoint that asked for it.
RefusalGoesToRequester ==
  [][\A e \in Endpoints, n \in RawNames :
       HandleConnect(e, n) => \A m \in sent' : m.to = e]_<<networkVars, sent>>

\* handleAccept logs that the named user connected by TCP, so two clients that
\* both went through the handshake do not hold each other's sockets.
SocketsNotCrossed ==
  \A i, j \in DOMAIN con :
    con[i].endpoint # con[j].endpoint =>
      ~(con[i].peer = con[j].endpoint /\ con[j].peer = con[i].endpoint)
=============================================================================
