--------------------------- MODULE NetworkProofs ---------------------------
(***************************************************************************)
(* Proofs about Network by itself, for any use of it: events may go        *)
(* unheard and any connection may be disconnected (NetworkSpec), and       *)
(* whoever does so may also send and stop the process (OpenNetworkSpec).   *)
(* The second is the form in which the rest of the server uses Network;    *)
(* that it does is proved in ServiceProofs.                                *)
(*                                                                         *)
(* That accepts complete in the order of the connections rests on every    *)
(* connection without a TCP socket still having its accept outstanding     *)
(* (WaitingAreAccepting), whether or not it has been taken off the list.   *)
(***************************************************************************)
EXTENDS Network, SequenceTheorems, TLAPS

WaitingAreAccepting ==
  Running => \A i \in DOMAIN con : ~con[i].activated => i \in accepts

\* The part of a step of the rest of the server that Network can see: it
\* disconnects a copied connection, takes an event out of a queue or does
\* neither, and whatever it sends, it may end the process.
UseOfNetwork ==
  /\ Running
  /\ \/ \E i \in DOMAIN con :
          /\ con[i].activated
          /\ connections' = Without(con[i].username)
          /\ UNCHANGED <<con, accepts, newConnections, packets>>
     \/ (\E i \in Ids : TakeNewConnection(i)) /\ UNCHANGED connections
     \/ (\E k \in PacketKinds : TakePacket(k)) /\ UNCHANGED connections
     \/ UNCHANGED networkVars
  /\ sent' \subseteq Datagrams
  /\ fault' \in Faults

OpenNetworkNext == NetworkHandlers \/ UseOfNetwork

OpenNetworkSpec ==
  NetworkUseInit /\ [][OpenNetworkNext]_<<networkVars, sent, fault>>

\* Every packet that waits was attributed to the oldest entry of its address,
\* and still is: entries that come later have higher numbers.
OldestSpeaks ==
  \A k \in PacketKinds : \A p \in DOMAIN packets[k] :
    LET i == packets[k][p].from IN
    /\ i \in DOMAIN con
    /\ \A j \in connections : con[j].endpoint = con[i].endpoint => i <= j

NetInv ==
  /\ NetworkTypeOK
  /\ UniqueUsernames
  /\ WaitingAreAccepting
  /\ HandshakesCompleteInOrder
  /\ OldestSpeaks

USE WireAssumption, NetworkAssumption DEF WireAssumption, NetworkAssumption
-----------------------------------------------------------------------------
LEMMA NetInit == NetworkUseInit => NetInv
<1> SUFFICES ASSUME NetworkUseInit PROVE NetInv
  OBVIOUS
<1> USE DEF NetworkUseInit, WireInit, NetworkInit
<1>1. NetworkTypeOK
  BY DEF NetworkTypeOK, WireTypeOK, Faults
<1>2. QED
  BY <1>1 DEF NetInv, UniqueUsernames, WaitingAreAccepting,
    HandshakesCompleteInOrder, OldestSpeaks

LEMMA ConnectionsAreTyped ==
  ASSUME NetInv
  PROVE  /\ con \in Seq(Connection) /\ DOMAIN con = 1 .. Len(con) /\ Len(con) \in Nat
         /\ \A i \in DOMAIN con : con[i] \in Connection
         /\ connections \subseteq DOMAIN con
BY DEF NetInv, NetworkTypeOK

\* A step that changes no connection object and adds no packet.
LEMMA NetSameConnections ==
  ASSUME NetInv, Running, UNCHANGED con, connections' \subseteq connections,
         accepts' = accepts \/ (accepts' \subseteq accepts /\ ~Running'),
         newConnections' \subseteq newConnections,
         packets' \in [PacketKinds -> Seq(PacketEvent)],
         \A k \in PacketKinds : \A p \in DOMAIN packets'[k] :
           \E q \in DOMAIN packets[k] : packets'[k][p] = packets[k][q],
         sent' \subseteq Datagrams, fault' \in Faults
  PROVE  NetInv'
<1>1. NetworkTypeOK'
  BY DEF NetInv, NetworkTypeOK, WireTypeOK
<1>2. UniqueUsernames' /\ WaitingAreAccepting' /\ HandshakesCompleteInOrder'
  BY DEF NetInv, UniqueUsernames, WaitingAreAccepting, HandshakesCompleteInOrder
<1>3. OldestSpeaks'
  <2>1. ASSUME NEW k \in PacketKinds, NEW p \in DOMAIN packets'[k]
        PROVE  /\ packets'[k][p].from \in DOMAIN con
               /\ \A j \in connections' :
                    con[j].endpoint = con[packets'[k][p].from].endpoint =>
                      packets'[k][p].from <= j
    <3>1. PICK q \in DOMAIN packets[k] : packets'[k][p] = packets[k][q]
      BY <2>1
    <3>2. QED
      BY <3>1 DEF NetInv, OldestSpeaks
  <2>2. QED
    BY <2>1 DEF OldestSpeaks
<1>4. QED
  BY <1>1, <1>2, <1>3 DEF NetInv

LEMMA NetAwaitTcp ==
  ASSUME NetInv, Running, UNCHANGED fault,
         NEW e \in Endpoints, NEW u \in Usernames, AwaitTcp(e, u)
  PROVE  NetInv'
<1> DEFINE entry == [username |-> u, endpoint |-> e, activated |-> FALSE,
                     peer |-> Nobody]
<1>0. PICK new : new = Len(con) + 1
  OBVIOUS
<1>1. /\ con \in Seq(Connection) /\ Len(con) \in Nat /\ entry \in Connection
      /\ Len(con) < MaxConnections /\ con' = Append(con, entry)
      /\ connections' = connections \cup {new} /\ accepts' = accepts \cup {new}
      /\ UNCHANGED <<newConnections, packets, fault>> /\ sent' = {}
      /\ \A i \in connections : con[i].username # u
      /\ ~entry.activated /\ entry.username = u
  BY <1>0 DEF NetInv, NetworkTypeOK, Connection, AwaitTcp, Named
<1> HIDE DEF entry
<1>2. /\ con' \in Seq(Connection) /\ Len(con') = new /\ con'[new] = entry
      /\ \A i \in DOMAIN con : i # new /\ con'[i] = con[i]
      /\ DOMAIN con' = DOMAIN con \cup {new}
      /\ \A i \in DOMAIN con : i \in Nat /\ i < new
      /\ new \in Nat
  BY <1>0, <1>1, AppendProperties, LenProperties
<1>3. /\ connections \subseteq DOMAIN con /\ accepts \subseteq DOMAIN con
      /\ newConnections \subseteq DOMAIN con /\ Len(con') <= MaxConnections
      /\ DOMAIN con' = 1 .. Len(con')
  BY <1>0, <1>1, <1>2 DEF NetInv, NetworkTypeOK
<1>4. NetworkTypeOK'
  BY <1>1, <1>2, <1>3 DEF NetInv, NetworkTypeOK, WireTypeOK
<1>5. UniqueUsernames'
  BY <1>1, <1>2, <1>3 DEF NetInv, UniqueUsernames
<1>6. WaitingAreAccepting'
  BY <1>1, <1>2 DEF NetInv, WaitingAreAccepting
<1>7. HandshakesCompleteInOrder'
  BY <1>1, <1>2 DEF NetInv, HandshakesCompleteInOrder
<1>8. OldestSpeaks'
  BY <1>0, <1>1, <1>2, <1>3 DEF NetInv, OldestSpeaks
<1>9. QED
  BY <1>4, <1>5, <1>6, <1>7, <1>8 DEF NetInv

LEMMA NetHandleConnect ==
  ASSUME NetInv, NEW e \in Endpoints, NEW n \in RawNames, HandleConnect(e, n)
  PROVE  NetInv'
<1> DEFINE u == Sanitize[n]
<1>1. u \in Usernames /\ Running /\ UNCHANGED fault
  BY DEF HandleConnect
<1>2. fault \in Faults /\ packets \in [PacketKinds -> Seq(PacketEvent)]
  BY DEF NetInv, NetworkTypeOK, WireTypeOK
<1> HIDE DEF u
<1>3. CASE AlreadyConnected(e, u)
  <2>1. PICK i \in Ids : /\ IsFirst(i, Named(u))
                         /\ sent' = {Datagram(con[i].endpoint, "alreadyConnected")}
                         /\ UNCHANGED networkVars
    BY <1>3 DEF AlreadyConnected
  <2>2. con[i] \in Connection
    BY <2>1, ConnectionsAreTyped DEF IsFirst, Named
  <2>3. sent' \subseteq Datagrams
    BY <2>1, <2>2 DEF Datagrams, Datagram, Responses, Connection
  <2>4. QED
    BY <1>1, <1>2, <2>1, <2>3, NetSameConnections DEF networkVars
<1>4. CASE \E verdict \in {"unavailable", "banned"} : Refuse(e, u, verdict)
  <2>1. sent' \subseteq Datagrams
    BY <1>4 DEF Refuse, Datagrams, Datagram, Responses
  <2>2. UNCHANGED <<con, connections, accepts, newConnections, packets>>
    BY <1>4 DEF Refuse, Without, Named
  <2>3. QED
    BY <1>1, <1>2, <2>1, <2>2, NetSameConnections
<1>5. CASE AwaitTcp(e, u)
  BY <1>1, <1>5, NetAwaitTcp
<1>6. QED
  BY <1>3, <1>4, <1>5 DEF HandleConnect, u

LEMMA NetHandleAccept ==
  ASSUME NetInv, NEW a \in Ids, NEW peer \in Endpoints, HandleAccept(a, peer)
  PROVE  NetInv'
<1> DEFINE entry == [con[a] EXCEPT !.activated = TRUE, !.peer = peer]
<1>1. /\ Running /\ a \in accepts /\ \A i \in accepts : a <= i
      /\ accepts \subseteq 1 .. Len(con) /\ accepts' = accepts \ {a}
      /\ newConnections' = newConnections \cup {a}
      /\ con' = [con EXCEPT ![a].activated = TRUE, ![a].peer = peer]
      /\ sent' = {Datagram(con[a].endpoint, "success")}
      /\ UNCHANGED <<connections, packets, fault>>
  BY DEF HandleAccept, IsFirst, NetInv, NetworkTypeOK
<1>2. con[a] \in Connection /\ a \in DOMAIN con
  BY <1>1, ConnectionsAreTyped
<1>3. /\ entry \in Connection /\ entry.activated
      /\ entry.username = con[a].username /\ entry.endpoint = con[a].endpoint
      /\ con' = [con EXCEPT ![a] = entry]
  BY <1>1, <1>2 DEF Connection
<1> HIDE DEF entry
<1>4. /\ con' \in Seq(Connection) /\ Len(con') = Len(con)
      /\ DOMAIN con' = DOMAIN con
      /\ con'[a] = entry /\ \A i \in DOMAIN con : i # a => con'[i] = con[i]
  <2>1. con \in Seq(Connection) /\ a \in DOMAIN con /\ entry \in Connection
        /\ con' = [con EXCEPT ![a] = entry]
    BY <1>2, <1>3, ConnectionsAreTyped
  <2>2. QED
    BY <2>1
<1>5. \A i \in DOMAIN con : /\ con'[i].username = con[i].username
                            /\ con'[i].endpoint = con[i].endpoint
  BY <1>3, <1>4
<1>6. \A i \in DOMAIN con : con[i].activated => con'[i].activated
  BY <1>3, <1>4
<1>7. NetworkTypeOK'
  <2>1. sent' \subseteq Datagrams
    BY <1>1, <1>2 DEF Datagrams, Datagram, Responses, Connection
  <2>2. QED
    BY <1>1, <1>4, <2>1 DEF NetInv, NetworkTypeOK, WireTypeOK
<1>8. UniqueUsernames'
  BY <1>1, <1>5, ConnectionsAreTyped DEF NetInv, UniqueUsernames
<1>9. WaitingAreAccepting'
  BY <1>1, <1>3, <1>4 DEF NetInv, WaitingAreAccepting
<1>10. HandshakesCompleteInOrder'
  <2>1. ASSUME NEW i \in DOMAIN con, NEW j \in DOMAIN con, i < j, con'[j].activated
        PROVE  con'[i].activated
    <3>1. CASE j = a
      <4>1. i \notin accepts
        BY <1>1, <2>1, <3>1, ConnectionsAreTyped
      <4>2. con[i].activated
        BY <1>1, <4>1 DEF NetInv, WaitingAreAccepting
      <4>3. QED
        BY <1>6, <4>2
    <3>2. CASE j # a
      BY <1>4, <1>6, <2>1, <3>2 DEF NetInv, HandshakesCompleteInOrder
    <3>3. QED
      BY <3>1, <3>2
  <2>2. QED
    BY <1>4, <2>1 DEF HandshakesCompleteInOrder
<1>11. OldestSpeaks'
  BY <1>1, <1>4, <1>5, ConnectionsAreTyped DEF NetInv, OldestSpeaks
<1>12. QED
  BY <1>7, <1>8, <1>9, <1>10, <1>11 DEF NetInv

LEMMA NetAcceptFails ==
  ASSUME NetInv, NEW a \in Ids, AcceptFails(a)
  PROVE  NetInv'
<1>1. /\ Running /\ ~Running' /\ fault' \in Faults /\ accepts' \subseteq accepts
      /\ UNCHANGED <<con, connections, newConnections, packets>> /\ sent' = {}
      /\ packets \in [PacketKinds -> Seq(PacketEvent)]
  BY DEF AcceptFails, Running, Faults, NetInv, NetworkTypeOK
<1>2. QED
  BY <1>1, NetSameConnections

LEMMA NetHandlePacket ==
  ASSUME NetInv, NEW e \in Endpoints, NEW k \in PacketKinds, NEW d \in Bodies[k],
         HandlePacket(e, k, d)
  PROVE  NetInv'
<1>1. PICK i \in Ids :
        /\ IsFirst(i, At(e)) /\ IsValid(i)
        /\ packets' = [packets EXCEPT ![k] =
             Append(@, [username |-> con[i].username, payload |-> d, from |-> i])]
  BY DEF HandlePacket
<1> DEFINE event == [username |-> con[i].username, payload |-> d, from |-> i]
<1>2. /\ UNCHANGED <<con, connections, accepts, newConnections, fault>>
      /\ sent' = {}
  BY DEF HandlePacket
<1>3. /\ i \in DOMAIN con /\ con[i] \in Connection /\ d \in Payloads
      /\ \A j \in connections : con[j].endpoint = con[i].endpoint => i <= j
  BY <1>1, ConnectionsAreTyped DEF IsFirst, At
<1>4. event \in PacketEvent /\ event.from = i
  BY <1>3 DEF PacketEvent, Connection
<1>5. packets \in [PacketKinds -> Seq(PacketEvent)]
  BY DEF NetInv, NetworkTypeOK
<1> HIDE DEF event
<1>6. packets' = [packets EXCEPT ![k] = Append(packets[k], event)]
  BY <1>1, <1>5 DEF event
<1>7. /\ packets' \in [PacketKinds -> Seq(PacketEvent)]
      /\ packets'[k] = Append(packets[k], event)
      /\ \A l \in PacketKinds \ {k} : packets'[l] = packets[l]
  BY <1>4, <1>5, <1>6
<1>8. \A p \in DOMAIN packets'[k] :
        \/ packets'[k][p] = event
        \/ p \in DOMAIN packets[k] /\ packets'[k][p] = packets[k][p]
  BY <1>4, <1>5, <1>7, AppendProperties, LenProperties
<1>9. (NetworkTypeOK /\ UniqueUsernames /\ WaitingAreAccepting
         /\ HandshakesCompleteInOrder)'
  BY <1>2, <1>7 DEF NetInv, NetworkTypeOK, WireTypeOK, UniqueUsernames,
    WaitingAreAccepting, HandshakesCompleteInOrder, Running
<1>10. OldestSpeaks'
  <2>1. ASSUME NEW l \in PacketKinds, NEW p \in DOMAIN packets'[l]
        PROVE  /\ packets'[l][p].from \in DOMAIN con
               /\ \A j \in connections :
                    con[j].endpoint = con[packets'[l][p].from].endpoint =>
                      packets'[l][p].from <= j
    <3>1. CASE l = k /\ packets'[l][p] = event
      BY <1>3, <1>4, <3>1
    <3>2. CASE p \in DOMAIN packets[l] /\ packets'[l][p] = packets[l][p]
      BY <3>2 DEF NetInv, OldestSpeaks
    <3>3. QED
      BY <1>7, <1>8, <2>1, <3>1, <3>2
  <2>2. QED
    BY <1>2, <2>1 DEF OldestSpeaks
<1>11. QED
  BY <1>9, <1>10 DEF NetInv

LEMMA NetUse ==
  ASSUME NetInv, UseOfNetwork
  PROVE  NetInv'
<1>1. /\ packets \in [PacketKinds -> Seq(PacketEvent)]
      /\ Running /\ sent' \subseteq Datagrams /\ fault' \in Faults
  BY DEF NetInv, NetworkTypeOK, UseOfNetwork
<1>2. ASSUME NEW i \in DOMAIN con, connections' = Without(con[i].username),
             UNCHANGED <<con, accepts, newConnections, packets>>
      PROVE  NetInv'
  BY <1>1, <1>2, NetSameConnections DEF Without
<1>3. ASSUME UNCHANGED connections, NEW i \in Ids, TakeNewConnection(i)
      PROVE  NetInv'
  BY <1>1, <1>3, NetSameConnections DEF TakeNewConnection
<1>4. ASSUME UNCHANGED connections, NEW kind \in PacketKinds, TakePacket(kind)
      PROVE  NetInv'
  <2>1. /\ packets[kind] \in Seq(PacketEvent) /\ packets[kind] # <<>>
        /\ packets' = [packets EXCEPT ![kind] = Tail(packets[kind])]
        /\ UNCHANGED <<con, accepts, newConnections>>
    BY <1>1, <1>4 DEF TakePacket
  <2>2. /\ Tail(packets[kind]) \in Seq(PacketEvent)
        /\ \A p \in DOMAIN Tail(packets[kind]) :
             /\ p + 1 \in DOMAIN packets[kind]
             /\ Tail(packets[kind])[p] = packets[kind][p + 1]
    BY <2>1, HeadTailProperties, LenProperties
  <2>3. /\ packets' \in [PacketKinds -> Seq(PacketEvent)]
        /\ packets'[kind] = Tail(packets[kind])
        /\ \A l \in PacketKinds \ {kind} : packets'[l] = packets[l]
    BY <1>1, <2>1, <2>2
  <2>4. \A k \in PacketKinds : \A p \in DOMAIN packets'[k] :
          \E q \in DOMAIN packets[k] : packets'[k][p] = packets[k][q]
    BY <2>2, <2>3
  <2>5. QED
    BY <1>1, <1>4, <2>1, <2>3, <2>4, NetSameConnections
<1>5. CASE UNCHANGED networkVars
  BY <1>1, <1>5, NetSameConnections DEF networkVars
<1>6. QED
  BY <1>2, <1>3, <1>4, <1>5 DEF UseOfNetwork

LEMMA NetNext == NetInv /\ [OpenNetworkNext]_<<networkVars, sent, fault>> => NetInv'
<1> SUFFICES ASSUME NetInv, [OpenNetworkNext]_<<networkVars, sent, fault>>
             PROVE  NetInv'
  OBVIOUS
<1>1. CASE NetworkHandlers
  BY <1>1, NetHandleConnect, NetHandleAccept, NetAcceptFails, NetHandlePacket
     DEF NetworkHandlers
<1>2. CASE UseOfNetwork
  BY <1>2, NetUse
<1>3. CASE UNCHANGED <<networkVars, sent, fault>>
  BY <1>3 DEF networkVars, NetInv, NetworkTypeOK, WireTypeOK, UniqueUsernames,
    WaitingAreAccepting, HandshakesCompleteInOrder, OldestSpeaks,
    Running
<1>4. QED
  BY <1>1, <1>2, <1>3 DEF OpenNetworkNext

LEMMA OpenNetInvariant == OpenNetworkSpec => []NetInv
BY NetInit, NetNext, PTL DEF OpenNetworkSpec

\* The users of NetworkSpec are some of those of OpenNetworkSpec.
LEMMA NetUsers ==
  ASSUME NetInv, NetworkUsers
  PROVE  UseOfNetwork
<1>1. fault \in Faults
  BY DEF NetInv, NetworkTypeOK, WireTypeOK
<1>2. CASE \E i \in DOMAIN con : Disconnect(i)
  BY <1>1, <1>2 DEF Disconnect, UseOfNetwork
<1>3. CASE /\ Running /\ sent' = {} /\ UNCHANGED <<connections, fault>>
           /\ \/ \E i \in Ids : TakeNewConnection(i)
              \/ \E k \in PacketKinds : TakePacket(k)
  BY <1>1, <1>3 DEF UseOfNetwork
<1>4. QED
  BY <1>2, <1>3 DEF NetworkUsers

LEMMA NetInvariant == NetworkSpec => []NetInv
<1>1. NetInv /\ [NetworkNext]_<<networkVars, sent, fault>> =>
        [OpenNetworkNext]_<<networkVars, sent, fault>>
  BY NetUsers DEF NetworkNext, OpenNetworkNext
<1>2. NetInv /\ [NetworkNext]_<<networkVars, sent, fault>> => NetInv'
  BY <1>1, NetNext
<1>3. QED
  BY <1>2, NetInit, PTL DEF NetworkSpec
-----------------------------------------------------------------------------
\* The list, the accepts and the queues keep their types, and every datagram has
\* the address of a client, for any use of NetworkController.
THEOREM NetworkTypes == NetworkSpec => []NetworkTypeOK
<1>1. NetInv => NetworkTypeOK
  BY DEF NetInv
<1>2. QED
  BY <1>1, NetInvariant, PTL

\* handleConnect never lists a name twice, also when connections are
\* disconnected that are still being connected.
THEOREM ListedNamesAreUnique == NetworkSpec => []UniqueUsernames
<1>1. NetInv => UniqueUsernames
  BY DEF NetInv
<1>2. QED
  BY <1>1, NetInvariant, PTL

\* handleAccept activates the connections in the order handleConnect made them.
THEOREM HandshakesAreOrdered == NetworkSpec => []HandshakesCompleteInOrder
<1>1. NetInv => HandshakesCompleteInOrder
  BY DEF NetInv
<1>2. QED
  BY <1>1, NetInvariant, PTL

=============================================================================
