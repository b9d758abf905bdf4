---------------------------- MODULE ServerProofs ----------------------------
(***************************************************************************)
(* Proofs about Server, for every choice of its constants.                 *)
(*                                                                         *)
(* The parts of the inductive invariant lean on each other: a Client's     *)
(* connection is found because its NewConnectionEvent owns an entry of the *)
(* list, the entry is the right one because names are unique, a blocked    *)
(* client frees its own entry because its copy is current, and names stay  *)
(* unique because only a client's own entry is freed.                      *)
(***************************************************************************)
EXTENDS Server, SequenceTheorems, TLAPS

\* Whoever is announced has finished the TCP handshake.
AnnouncedAreActivated ==
  \A i \in newConnections \cup clients : i \in 1 .. Len(con) /\ con[i].activated

\* An AuthorizationProcess that still has something to decide has not gone past
\* the limit.
CountersInRange == \A i \in asking : counter[i] <= MaxUpdates + 1

Inv ==
  /\ TypeOK
  /\ UniqueUsernames
  /\ EveryConnectionIsOwned
  /\ AnnouncedAreActivated
  /\ CopyIsCurrent
  /\ ConnectionAlwaysFound
  /\ UndecidedAreAsked
  /\ OneGamePerAuthorizedClient
  /\ CountersInRange

USE WireAssumption, NetworkAssumption, SessionsAssumption, ServerAssumption
  DEF WireAssumption, NetworkAssumption, SessionsAssumption, ServerAssumption
-----------------------------------------------------------------------------
LEMMA ListedIsConnection ==
  ASSUME TypeOK, NEW i \in connections
  PROVE  con[i] \in Connection
BY ElementOfSeq DEF TypeOK, NetworkTypeOK

\* Unique names make a lookup by name find the entry it was meant for.
LEMMA OwnNameFound ==
  ASSUME UniqueUsernames, NEW i \in connections
  PROVE  Named(con[i].username) = {i}
BY DEF UniqueUsernames, Named

\* The live clients of one name are at most one.
LEMMA OneClientPerName ==
  ASSUME UniqueUsernames, CopyIsCurrent,
         NEW c \in clients, NEW d \in clients,
         copy[c].username = copy[d].username
  PROVE  c = d
BY DEF UniqueUsernames, CopyIsCurrent
-----------------------------------------------------------------------------
LEMMA InvInit == Init => Inv
<1> SUFFICES ASSUME Init PROVE Inv
  OBVIOUS
<1> USE DEF Init, WireInit, NetworkInit, SessionsInit
<1>1. TypeOK
  BY DEF TypeOK, NetworkTypeOK, WireTypeOK, SessionsTypeOK, Ids, NoCopy, Faults
<1>2. QED
  BY <1>1 DEF Inv, UniqueUsernames, EveryConnectionIsOwned,
    AnnouncedAreActivated, CopyIsCurrent, ConnectionAlwaysFound,
    UndecidedAreAsked, OneGamePerAuthorizedClient, CountersInRange, Running

LEMMA InvAwaitTcp ==
  ASSUME Inv, Running, UNCHANGED <<sessionVars, fault>>,
         NEW e \in Endpoints, NEW u \in Usernames, AwaitTcp(e, u)
  PROVE  Inv'
<1> DEFINE new == Len(con) + 1
<1> DEFINE entry == [username |-> u, endpoint |-> e, activated |-> FALSE,
                     peer |-> Nobody]
<1>1. /\ con \in Seq(Connection) /\ Len(con) \in Nat
      /\ entry \in Connection
      /\ Len(con) < MaxConnections
      /\ con' = Append(con, entry)
  BY DEF Inv, TypeOK, NetworkTypeOK, Connection, AwaitTcp
<1>2. /\ con' \in Seq(Connection)
      /\ Len(con') = new /\ con'[new] = entry
      /\ \A i \in 1 .. Len(con) : con'[i] = con[i]
  BY <1>1
<1>3. /\ connections \subseteq 1 .. Len(con) /\ accepts \subseteq 1 .. Len(con)
      /\ newConnections \subseteq 1 .. Len(con)
      /\ clients \subseteq 1 .. Len(con)
  BY DEF Inv, TypeOK, NetworkTypeOK, AnnouncedAreActivated
<1>4. /\ connections' = connections \cup {new}
      /\ accepts' = accepts \cup {new}
      /\ UNCHANGED <<newConnections, packets, fault>>
      /\ UNCHANGED <<clients, copy, authorized, window, asking, processes,
                     counter, games>>
      /\ sent' = {}
      /\ \A i \in connections : con[i].username # u
  BY DEF AwaitTcp, Named, sessionVars
<1>5. \A i \in 1 .. Len(con) : i \in 1 .. new /\ i # new
  BY <1>1
<1> HIDE DEF new, entry
<1>6. TypeOK'
  <2>1. SessionsTypeOK'
    BY <1>4 DEF Inv, TypeOK, SessionsTypeOK
  <2>2. WireTypeOK'
    BY <1>4 DEF Inv, TypeOK, NetworkTypeOK, WireTypeOK
  <2>3. Len(con') <= MaxConnections
    BY <1>1, <1>2 DEF new
  <2>4. new \in 1 .. new
    BY <1>1 DEF new
  <2>5. /\ connections' \subseteq 1 .. Len(con')
        /\ accepts' \subseteq 1 .. Len(con')
        /\ newConnections' \subseteq 1 .. Len(con')
    BY <1>2, <1>3, <1>4, <1>5, <2>4
  <2>6. packets' \in [PacketKinds -> Seq(PacketEvent)]
    BY <1>4 DEF Inv, TypeOK, NetworkTypeOK
  <2>7. QED
    BY <1>2, <2>1, <2>2, <2>3, <2>5, <2>6 DEF TypeOK, NetworkTypeOK
<1>7. UniqueUsernames'
  BY <1>2, <1>3, <1>4, <1>5 DEF Inv, UniqueUsernames, entry
<1>8. EveryConnectionIsOwned'
  <2>1. /\ connections = accepts \cup newConnections \cup clients
        /\ accepts = {i \in connections : ~con[i].activated}
        /\ newConnections \cap clients = {}
    BY DEF Inv, EveryConnectionIsOwned
  <2>2. ~con'[new].activated
    BY <1>2 DEF entry
  <2>3. connections' = accepts' \cup newConnections' \cup clients'
    BY <1>4, <2>1
  <2>4. accepts' = {i \in connections' : ~con'[i].activated}
    BY <1>2, <1>3, <1>4, <1>5, <2>1, <2>2
  <2>5. newConnections' \cap clients' = {}
    BY <1>4, <2>1
  <2>6. QED
    BY <2>3, <2>4, <2>5 DEF EveryConnectionIsOwned
<1>9. AnnouncedAreActivated' /\ CopyIsCurrent'
  BY <1>2, <1>3, <1>4, <1>5 DEF Inv, AnnouncedAreActivated, CopyIsCurrent
<1>10. QED
  BY <1>4, <1>6, <1>7, <1>8, <1>9 DEF Inv, ConnectionAlwaysFound,
    UndecidedAreAsked, OneGamePerAuthorizedClient, CountersInRange

\* A step that changes no more than the waiting packets keeps the invariant.
LEMMA InvSameState ==
  ASSUME Inv, UNCHANGED <<con, connections, accepts, newConnections>>,
         UNCHANGED sessionVars,
         packets' \in [PacketKinds -> Seq(PacketEvent)],
         sent' \subseteq Datagrams, fault' \in Faults \ {"connection"},
         Running' => Running
  PROVE  Inv'
<1> USE DEF sessionVars
<1>1. NetworkTypeOK'
  BY DEF Inv, TypeOK, NetworkTypeOK, WireTypeOK
<1>2. SessionsTypeOK'
  BY DEF Inv, TypeOK, SessionsTypeOK
<1>3. EveryConnectionIsOwned'
  BY DEF Inv, EveryConnectionIsOwned
<1>4. UniqueUsernames' /\ AnnouncedAreActivated' /\ CopyIsCurrent'
  BY DEF Inv, UniqueUsernames, AnnouncedAreActivated, CopyIsCurrent
<1>5. ConnectionAlwaysFound'
  BY DEF ConnectionAlwaysFound
<1>6. QED
  BY <1>1, <1>2, <1>3, <1>4, <1>5 DEF Inv, TypeOK, UndecidedAreAsked,
    OneGamePerAuthorizedClient, CountersInRange

LEMMA InvHandleConnect ==
  ASSUME Inv, UNCHANGED sessionVars,
         NEW e \in Endpoints, NEW n \in RawNames, HandleConnect(e, n)
  PROVE  Inv'
<1> DEFINE u == Sanitize[n]
<1>1. u \in Usernames /\ Running /\ UNCHANGED fault
  BY DEF HandleConnect
<1>2. /\ fault \in Faults \ {"connection"} /\ (Running' => Running)
      /\ packets \in [PacketKinds -> Seq(PacketEvent)]
  BY <1>1 DEF Running, Faults, Inv, TypeOK, NetworkTypeOK
<1> HIDE DEF u
<1>3. CASE AlreadyConnected(e, u)
  <2>1. PICK i \in Ids : /\ IsFirst(i, Named(u))
                         /\ sent' = {Datagram(con[i].endpoint, "alreadyConnected")}
                         /\ UNCHANGED networkVars
    BY <1>3 DEF AlreadyConnected
  <2>2. con[i].endpoint \in Endpoints
    BY <2>1, ListedIsConnection DEF IsFirst, Named, Inv, Connection
  <2>3. sent' \subseteq Datagrams
    BY <2>1, <2>2 DEF Datagrams, Datagram, Responses
  <2>4. UNCHANGED <<con, connections, accepts, newConnections, packets>>
    BY <2>1 DEF networkVars
  <2>5. QED
    BY <1>1, <1>2, <2>3, <2>4, InvSameState
<1>4. CASE \E verdict \in {"unavailable", "banned"} : Refuse(e, u, verdict)
  <2>1. PICK verdict \in {"unavailable", "banned"} : Refuse(e, u, verdict)
    BY <1>4
  <2>2. sent' \subseteq Datagrams
    BY <2>1 DEF Refuse, Datagrams, Datagram, Responses
  <2>3. UNCHANGED <<con, connections, accepts, newConnections, packets>>
    BY <2>1 DEF Refuse, Without, Named
  <2>4. QED
    BY <1>1, <1>2, <2>2, <2>3, InvSameState
<1>5. CASE AwaitTcp(e, u)
  BY <1>1, <1>5, InvAwaitTcp
<1>6. QED
  BY <1>3, <1>4, <1>5 DEF HandleConnect, u

LEMMA InvHandlePacket ==
  ASSUME Inv, UNCHANGED sessionVars,
         NEW e \in Endpoints, NEW k \in PacketKinds, NEW d \in Bodies[k],
         HandlePacket(e, k, d)
  PROVE  Inv'
<1>1. PICK i \in Ids :
        /\ IsFirst(i, At(e))
        /\ packets' = [packets EXCEPT ![k] =
             Append(@, [username |-> con[i].username, payload |-> d, from |-> i])]
  BY DEF HandlePacket
<1>2. /\ con[i].username \in Usernames /\ d \in Payloads
      /\ packets \in [PacketKinds -> Seq(PacketEvent)]
  BY <1>1, ListedIsConnection
    DEF IsFirst, At, Inv, TypeOK, NetworkTypeOK, Connection
<1>3. [username |-> con[i].username, payload |-> d, from |-> i] \in PacketEvent
  BY <1>2 DEF PacketEvent
<1>4. packets' \in [PacketKinds -> Seq(PacketEvent)]
  BY <1>1, <1>2, <1>3
<1>5. /\ UNCHANGED <<con, connections, accepts, newConnections, fault>>
      /\ sent' = {} /\ Running
  BY DEF HandlePacket
<1>6. fault' \in Faults \ {"connection"} /\ (Running' => Running)
  BY <1>5 DEF Running, Faults
<1>7. QED
  BY <1>4, <1>5, <1>6, InvSameState

LEMMA InvHandleAccept ==
  ASSUME Inv, UNCHANGED sessionVars,
         NEW i \in Ids, NEW peer \in Endpoints, HandleAccept(i, peer)
  PROVE  Inv'
<1>1. /\ con \in Seq(Connection) /\ i \in accepts /\ i \in 1 .. Len(con)
      /\ con' = [con EXCEPT ![i].activated = TRUE, ![i].peer = peer]
      /\ Running
  BY DEF HandleAccept, IsFirst, Inv, TypeOK, NetworkTypeOK
<1>2. con[i] \in Connection
  BY <1>1
<1> DEFINE entry == [con[i] EXCEPT !.activated = TRUE, !.peer = peer]
<1>3. /\ entry \in Connection /\ entry.activated
      /\ entry.username = con[i].username /\ entry.endpoint = con[i].endpoint
      /\ con' = [con EXCEPT ![i] = entry]
  BY <1>1, <1>2 DEF Connection
<1>4. /\ con' \in Seq(Connection) /\ Len(con') = Len(con)
      /\ \A j \in 1 .. Len(con) : con'[j] = IF j = i THEN entry ELSE con[j]
  <2>1. con \in Seq(Connection) /\ i \in 1 .. Len(con)
    BY <1>1
  <2> HIDE DEF entry
  <2>2. QED
    BY <1>3, <2>1
<1>5. /\ \A j \in 1 .. Len(con) : /\ con'[j].username = con[j].username
                                  /\ con'[j].endpoint = con[j].endpoint
                                  /\ j # i => con'[j] = con[j]
      /\ con'[i].activated
  BY <1>1, <1>3, <1>4
<1>6. /\ connections \subseteq 1 .. Len(con) /\ accepts \subseteq 1 .. Len(con)
      /\ newConnections \subseteq 1 .. Len(con)
      /\ clients \subseteq 1 .. Len(con)
  BY DEF Inv, TypeOK, NetworkTypeOK, AnnouncedAreActivated
<1>7. /\ UNCHANGED <<connections, packets, fault>>
      /\ UNCHANGED <<clients, copy, authorized, window, asking, processes,
                     counter, games>>
      /\ accepts' = accepts \ {i}
      /\ newConnections' = newConnections \cup {i}
      /\ sent' = {Datagram(con[i].endpoint, "success")}
  BY DEF HandleAccept, sessionVars
<1>8. TypeOK'
  <2>1. SessionsTypeOK'
    BY <1>7 DEF Inv, TypeOK, SessionsTypeOK
  <2>2. sent' \subseteq Datagrams
    BY <1>2, <1>7 DEF Datagrams, Datagram, Responses, Connection
  <2>3. WireTypeOK'
    BY <1>7, <2>2 DEF Inv, TypeOK, NetworkTypeOK, WireTypeOK
  <2>4. QED
    BY <1>1, <1>4, <1>6, <1>7, <2>1, <2>3 DEF Inv, TypeOK, NetworkTypeOK
<1>9. UniqueUsernames'
  BY <1>5, <1>6, <1>7 DEF Inv, UniqueUsernames
<1>10. EveryConnectionIsOwned'
  <2>1. /\ connections = accepts \cup newConnections \cup clients
        /\ accepts = {j \in connections : ~con[j].activated}
        /\ newConnections \cap clients = {}
    BY <1>1 DEF Inv, EveryConnectionIsOwned
  <2>2. i \notin newConnections /\ i \notin clients
    BY <1>1, <2>1 DEF Inv, AnnouncedAreActivated
  <2>3. accepts' = {j \in connections' : ~con'[j].activated}
    BY <1>5, <1>6, <1>7, <2>1
  <2>4. /\ connections' = accepts' \cup newConnections' \cup clients'
        /\ newConnections' \cap clients' = {}
    BY <1>1, <1>7, <2>1, <2>2
  <2>5. QED
    BY <2>3, <2>4 DEF EveryConnectionIsOwned
<1>11. AnnouncedAreActivated' /\ CopyIsCurrent'
  BY <1>1, <1>4, <1>5, <1>6, <1>7 DEF Inv, AnnouncedAreActivated, CopyIsCurrent
<1>12. QED
  BY <1>7, <1>8, <1>9, <1>10, <1>11 DEF Inv, ConnectionAlwaysFound,
    UndecidedAreAsked, OneGamePerAuthorizedClient, CountersInRange

LEMMA InvAcceptFails ==
  ASSUME Inv, UNCHANGED sessionVars, NEW i \in Ids, AcceptFails(i)
  PROVE  Inv'
<1>1. /\ UNCHANGED <<con, connections, newConnections, packets>>
      /\ UNCHANGED <<clients, copy, authorized, window, asking, processes,
                     counter, games>>
      /\ accepts' = accepts \ {i}
      /\ sent' = {} /\ fault' = "accept"
  BY DEF AcceptFails, sessionVars
<1>2. NetworkTypeOK'
  BY <1>1 DEF Inv, TypeOK, NetworkTypeOK, WireTypeOK, Faults
<1>3. SessionsTypeOK'
  BY <1>1 DEF Inv, TypeOK, SessionsTypeOK
<1>4. EveryConnectionIsOwned' /\ ConnectionAlwaysFound'
  BY <1>1 DEF EveryConnectionIsOwned, ConnectionAlwaysFound, Running
<1>5. UniqueUsernames' /\ AnnouncedAreActivated' /\ CopyIsCurrent'
  BY <1>1 DEF Inv, UniqueUsernames, AnnouncedAreActivated, CopyIsCurrent
<1>6. QED
  BY <1>1, <1>2, <1>3, <1>4, <1>5 DEF Inv, TypeOK, UndecidedAreAsked,
    OneGamePerAuthorizedClient, CountersInRange
-----------------------------------------------------------------------------
\* A step that changes neither the list nor the clients keeps what the
\* invariant says of the two.
LEMMA InvSameClients ==
  ASSUME Inv, UNCHANGED <<con, connections, accepts, newConnections>>,
         UNCHANGED <<clients, copy, fault>>,
         packets' \in [PacketKinds -> Seq(PacketEvent)],
         sent' \subseteq Datagrams,
         SessionsTypeOK', UndecidedAreAsked', OneGamePerAuthorizedClient',
         CountersInRange'
  PROVE  Inv'
<1>1. NetworkTypeOK'
  BY DEF Inv, TypeOK, NetworkTypeOK, WireTypeOK
<1>2. EveryConnectionIsOwned' /\ ConnectionAlwaysFound'
  BY DEF Inv, EveryConnectionIsOwned, ConnectionAlwaysFound, Running
<1>3. UniqueUsernames' /\ AnnouncedAreActivated' /\ CopyIsCurrent'
  BY DEF Inv, UniqueUsernames, AnnouncedAreActivated, CopyIsCurrent
<1>4. QED
  BY <1>1, <1>2, <1>3 DEF Inv, TypeOK

\* A client can be sent messages: its copy has an address.
LEMMA MessagesAreDatagrams ==
  ASSUME Inv, NEW S \in SUBSET clients, NEW text \in Texts
  PROVE  Say(S, text) \subseteq Datagrams
<1>1. \A c \in clients : copy[c].endpoint \in Endpoints
  BY ListedIsConnection DEF Inv, CopyIsCurrent, Connection
<1>2. QED
  BY <1>1 DEF Say, Datagram, Datagrams

LEMMA TakenPacketsAreTyped ==
  ASSUME Inv, NEW k \in PacketKinds, TakePacket(k)
  PROVE  packets' \in [PacketKinds -> Seq(PacketEvent)]
<1>1. packets \in [PacketKinds -> Seq(PacketEvent)] /\ packets[k] # <<>>
  BY DEF Inv, TypeOK, NetworkTypeOK, TakePacket
<1>2. Tail(packets[k]) \in Seq(PacketEvent)
  BY <1>1, HeadTailProperties
<1>3. QED
  BY <1>1, <1>2 DEF TakePacket

LEMMA InvDeliverNewConnection ==
  ASSUME Inv, NEW i \in Ids, DeliverNewConnection(i)
  PROVE  Inv'
<1>1. /\ Running /\ i \in newConnections
      /\ newConnections' = newConnections \ {i}
      /\ UNCHANGED <<con, connections, accepts, packets>>
  BY DEF DeliverNewConnection, TakeNewConnection, IsFirst
<1>2. /\ connections = accepts \cup newConnections \cup clients
      /\ accepts = {j \in connections : ~con[j].activated}
      /\ newConnections \cap clients = {}
  BY <1>1 DEF Inv, EveryConnectionIsOwned
<1>3. i \in connections /\ i \notin clients
  BY <1>1, <1>2
<1>4. Named(con[i].username) = {i}
  BY <1>3, OwnNameFound DEF Inv
<1>5. ClientInitialize(i, con[i]) /\ UNCHANGED fault
  BY <1>4 DEF DeliverNewConnection, IsFirst
<1>6. con[i].username \in Usernames /\ con[i].endpoint \in Endpoints
  BY <1>3, ListedIsConnection DEF Inv, Connection
<1>7. /\ clients' = clients \cup {i}
      /\ copy' = [copy EXCEPT ![i] = [username |-> con[i].username,
                                      endpoint |-> con[i].endpoint]]
      /\ asking' = asking \cup {i} /\ processes' = processes \cup {i}
      /\ counter' = [counter EXCEPT ![i] = 0]
      /\ sent' = {} /\ UNCHANGED <<authorized, window, games>>
  BY <1>5 DEF ClientInitialize
<1>8. SessionsTypeOK'
  BY <1>6, <1>7 DEF Inv, TypeOK, SessionsTypeOK
<1>9. NetworkTypeOK'
  BY <1>1, <1>5, <1>7 DEF Inv, TypeOK, NetworkTypeOK, WireTypeOK
<1>10. UniqueUsernames' /\ ConnectionAlwaysFound'
  BY <1>1, <1>5 DEF Inv, UniqueUsernames, ConnectionAlwaysFound
<1>11. EveryConnectionIsOwned'
  BY <1>1, <1>2, <1>7 DEF EveryConnectionIsOwned
<1>12. AnnouncedAreActivated'
  BY <1>1, <1>7 DEF Inv, AnnouncedAreActivated
<1>13. CopyIsCurrent'
  <2>1. \A c \in clients : copy'[c] = copy[c]
    BY <1>3, <1>7 DEF Inv, TypeOK, SessionsTypeOK
  <2>2. copy'[i] = [username |-> con[i].username, endpoint |-> con[i].endpoint]
    BY <1>7 DEF Inv, TypeOK, SessionsTypeOK
  <2>3. QED
    BY <1>1, <1>3, <1>7, <2>1, <2>2 DEF Inv, CopyIsCurrent
<1>14. UndecidedAreAsked' /\ OneGamePerAuthorizedClient'
  BY <1>3, <1>7 DEF Inv, TypeOK, SessionsTypeOK, UndecidedAreAsked,
    OneGamePerAuthorizedClient
<1>15. CountersInRange'
  BY <1>7 DEF Inv, TypeOK, SessionsTypeOK, CountersInRange
<1>16. QED
  BY <1>8, <1>9, <1>10, <1>11, <1>12, <1>13, <1>14, <1>15 DEF Inv, TypeOK

LEMMA InvDeliverMessage ==
  ASSUME Inv, DeliverMessage
  PROVE  Inv'
<1> DEFINE u == Head(packets["message"]).username
<1> DEFINE d == Head(packets["message"]).payload
<1>1. /\ Running /\ UNCHANGED <<con, connections, accepts, newConnections>>
      /\ packets' \in [PacketKinds -> Seq(PacketEvent)]
      /\ \/ OnMessage(u, d) /\ UNCHANGED fault
         \/ OnMessageFaults /\ fault' = "wrapper"
  BY TakenPacketsAreTyped DEF DeliverMessage, TakePacket
<1> HIDE DEF u, d
<1>2. "wrapper" \in Faults \ {"connection"} /\ fault \in Faults \ {"connection"}
  BY <1>1 DEF Running, Faults
<1>3. CASE OnMessageFaults /\ fault' = "wrapper"
  BY <1>1, <1>2, <1>3, InvSameState DEF OnMessageFaults, Running
<1>4. CASE OnMessage(u, d) /\ UNCHANGED fault
  <2>1. Addressed(u) \subseteq clients
    BY <1>4 DEF OnMessage, Addressed, Orphans
  <2>2. CASE sent' = {} /\ UNCHANGED sessionVars
    BY <1>1, <1>2, <1>4, <2>2, InvSameState DEF Running
  <2>3. CASE PasswordWrong(u)
    <3>1. sent' \subseteq Datagrams
      BY <2>1, <2>3, MessagesAreDatagrams DEF PasswordWrong, Texts
    <3>2. QED
      BY <1>1, <1>2, <1>4, <2>3, <3>1, InvSameState DEF PasswordWrong, Running
  <2>4. CASE PasswordRight(u)
    <3>1. /\ authorized' = authorized \cup Undecided(u)
          /\ games' = [c \in Ids |->
               IF c \in Undecided(u) THEN games[c] + 1 ELSE games[c]]
          /\ asking' = asking \ Addressed(u)
          /\ sent' = Say(Addressed(u), "Authorized.")
          /\ UNCHANGED <<clients, copy, window, processes, counter>>
      BY <2>4 DEF PasswordRight, Confirm
    <3>2. sent' \subseteq Datagrams
      BY <2>1, <3>1, MessagesAreDatagrams DEF Texts
    <3>3. SessionsTypeOK'
      BY <3>1 DEF Inv, TypeOK, SessionsTypeOK, Undecided
    <3>4. UndecidedAreAsked'
      BY <3>1 DEF Inv, UndecidedAreAsked, Undecided, Addressed
    <3>5. OneGamePerAuthorizedClient'
      BY <3>1 DEF Inv, OneGamePerAuthorizedClient, Undecided
    <3>6. CountersInRange'
      BY <3>1 DEF Inv, CountersInRange
    <3>7. QED
      BY <1>1, <1>4, <3>1, <3>2, <3>3, <3>4, <3>5, <3>6, InvSameClients
  <2>5. QED
    BY <1>4, <2>2, <2>3, <2>4 DEF OnMessage
<1>5. QED
  BY <1>1, <1>3, <1>4

LEMMA InvDeliverClientInfo ==
  ASSUME Inv, DeliverClientInfo
  PROVE  Inv'
<1> DEFINE event == Head(packets["clientInfo"])
<1>1. /\ UNCHANGED <<con, connections, accepts, newConnections, fault>>
      /\ packets' \in [PacketKinds -> Seq(PacketEvent)]
      /\ OnClientInformation(event.username, event.payload)
  BY TakenPacketsAreTyped DEF DeliverClientInfo, TakePacket
<1>2. packets["clientInfo"] \in Seq(PacketEvent) /\ packets["clientInfo"] # <<>>
  BY DEF DeliverClientInfo, TakePacket, Inv, TypeOK, NetworkTypeOK
<1>3. event \in PacketEvent
  BY <1>2, HeadTailProperties
<1>4. event.payload \in Payloads
  BY <1>3 DEF PacketEvent
<1> HIDE DEF event
<1>5. SessionsTypeOK'
  BY <1>1, <1>4 DEF OnClientInformation, Inv, TypeOK, SessionsTypeOK
<1>6. /\ UNCHANGED <<clients, copy, authorized, asking, processes, counter, games>>
      /\ sent' = {}
  BY <1>1 DEF OnClientInformation
<1>7. UndecidedAreAsked' /\ OneGamePerAuthorizedClient' /\ CountersInRange'
  BY <1>6 DEF Inv, UndecidedAreAsked, OneGamePerAuthorizedClient, CountersInRange
<1>8. QED
  BY <1>1, <1>5, <1>6, <1>7, InvSameClients

LEMMA InvUpdateProcess ==
  ASSUME Inv, NEW i \in Ids, UpdateProcess(i)
  PROVE  Inv'
<1>1. /\ UNCHANGED <<con, connections, accepts, newConnections, packets, fault>>
      /\ packets' \in [PacketKinds -> Seq(PacketEvent)]
      /\ i \in processes
  BY DEF UpdateProcess, Update, networkVars, Inv, TypeOK, NetworkTypeOK
<1>2. /\ counter \in [Ids -> 0 .. MaxUpdates + 2]
      /\ counter[i] \in Nat
      /\ games \in [Ids -> Nat]
      /\ asking \subseteq Ids /\ clients \subseteq Ids
  BY DEF Inv, TypeOK, SessionsTypeOK
<1>3. CASE UpdateOrphaned(i)
  <2>1. /\ UNCHANGED <<clients, copy, authorized, window, asking, counter, games>>
        /\ processes' = processes \ {i} /\ sent' = {}
        /\ i \notin asking \/ i \notin clients
    BY <1>3 DEF UpdateOrphaned, Orphans
  <2>2. SessionsTypeOK'
    BY <2>1 DEF Inv, TypeOK, SessionsTypeOK
  <2>3. UndecidedAreAsked'
    BY <2>1 DEF Inv, UndecidedAreAsked
  <2>4. OneGamePerAuthorizedClient' /\ CountersInRange'
    BY <2>1 DEF Inv, OneGamePerAuthorizedClient, CountersInRange
  <2>5. QED
    BY <1>1, <2>1, <2>2, <2>3, <2>4, InvSameClients
<1>4. CASE UpdateFails(i)
  <2>1. i \in asking /\ i \in clients /\ i \notin authorized
    BY <1>4 DEF UpdateFails, Orphans, Inv, UndecidedAreAsked
  <2>2. Undecided(copy[i].username) = {i}
    BY <2>1, OneClientPerName DEF Undecided, Inv
  <2>3. /\ authorized' = authorized \cup {i}
        /\ games' = [c \in Ids |-> IF c = i THEN games[c] + 1 ELSE games[c]]
        /\ counter' = [counter EXCEPT ![i] = @ + 1]
        /\ asking' = asking \ {i} /\ processes' = processes \ {i}
        /\ sent' = Say({i}, "Authorization failed!")
        /\ UNCHANGED <<clients, copy, window>>
    BY <1>4, <2>2 DEF UpdateFails, Confirm
  <2>4. sent' \subseteq Datagrams
    BY <2>1, <2>3, MessagesAreDatagrams DEF Texts
  <2>5. counter[i] + 1 \in 0 .. MaxUpdates + 2
    BY <1>2, <2>1 DEF Inv, CountersInRange
  <2>6. SessionsTypeOK'
    <3>1. counter' \in [Ids -> 0 .. MaxUpdates + 2]
      BY <1>2, <2>3, <2>5
    <3>2. games' \in [Ids -> Nat]
      <4>1. \A c \in Ids : games[c] \in Nat
        BY <1>2
      <4>2. \A c \in Ids : games[c] + 1 \in Nat
        BY <4>1
      <4>3. QED
        BY <2>3, <4>1, <4>2
    <3>3. authorized' \subseteq clients'
      BY <2>1, <2>3 DEF Inv, TypeOK, SessionsTypeOK
    <3>4. QED
      BY <2>3, <3>1, <3>2, <3>3 DEF Inv, TypeOK, SessionsTypeOK
  <2>7. UndecidedAreAsked'
    BY <2>3 DEF Inv, UndecidedAreAsked
  <2>8. OneGamePerAuthorizedClient'
    <3>1. \A c \in Ids : games[c] = IF c \in authorized THEN 1 ELSE 0
      BY DEF Inv, OneGamePerAuthorizedClient
    <3>2. \A c \in Ids : games'[c] = IF c = i THEN games[c] + 1 ELSE games[c]
      BY <2>3
    <3>3. games[i] + 1 = 1
      BY <2>1, <3>1
    <3>4. \A c \in Ids : games'[c] = IF c \in authorized' THEN 1 ELSE 0
      BY <2>3, <3>1, <3>2, <3>3
    <3>5. QED
      BY <3>4 DEF OneGamePerAuthorizedClient
  <2>9. CountersInRange'
    BY <1>2, <2>3 DEF Inv, TypeOK, SessionsTypeOK, CountersInRange
  <2>10. QED
    BY <1>1, <2>3, <2>4, <2>6, <2>7, <2>8, <2>9, InvSameClients
<1>5. CASE UpdatePrompts(i)
  <2>1. i \in asking /\ i \in clients /\ counter[i] <= MaxUpdates
    BY <1>5 DEF UpdatePrompts, Orphans
  <2>2. /\ counter' = [counter EXCEPT ![i] = @ + 1]
        /\ UNCHANGED <<clients, copy, authorized, window, asking, processes, games>>
        /\ sent' \subseteq Say({i}, "Enter password!")
    BY <1>5 DEF UpdatePrompts
  <2>3. sent' \subseteq Datagrams
    BY <2>1, <2>2, MessagesAreDatagrams DEF Texts
  <2>4. counter[i] + 1 \in 0 .. MaxUpdates + 2
    BY <1>2, <2>1
  <2>5. SessionsTypeOK'
    BY <2>2, <2>4 DEF Inv, TypeOK, SessionsTypeOK
  <2>6. UndecidedAreAsked' /\ OneGamePerAuthorizedClient'
    BY <2>2 DEF Inv, UndecidedAreAsked, OneGamePerAuthorizedClient
  <2>7. CountersInRange'
    <3>1. counter[i] + 1 <= MaxUpdates + 1
      BY <1>2, <2>1
    <3>2. \A j \in Ids :
            counter'[j] = IF j = i THEN counter[i] + 1 ELSE counter[j]
      BY <1>2, <2>2
    <3>3. QED
      BY <1>2, <2>2, <3>1, <3>2 DEF Inv, CountersInRange
  <2>8. QED
    BY <1>1, <2>2, <2>3, <2>5, <2>6, <2>7, InvSameClients
<1>6. QED
  BY <1>3, <1>4, <1>5 DEF UpdateProcess, Update

\* What a block does: the one undecided client of that name goes, and with it
\* its own entry of the list.
LEMMA BlockedIsOwn ==
  ASSUME Inv, NEW u \in Usernames, Blocked(u)
  PROVE  \E c \in clients \ authorized :
           /\ c \in connections /\ con[c].username = u
           /\ clients' = clients \ {c}
           /\ connections' = connections \ {c}
<1>1. /\ Undecided(u) # {} /\ clients' = clients \ Undecided(u)
      /\ connections' = Without(u)
  BY DEF Blocked, Block
<1>2. PICK c \in Undecided(u) : TRUE
  BY <1>1
<1>3. /\ c \in clients \ authorized /\ copy[c].username = u
      /\ c \in connections /\ con[c].username = u
  BY <1>2 DEF Undecided, Inv, CopyIsCurrent
<1>4. Undecided(u) = {c}
  BY <1>2, <1>3, OneClientPerName DEF Undecided, Inv
<1>5. Without(u) = connections \ {c}
  BY <1>3, OwnNameFound DEF Without, Named, Inv
<1>6. QED
  BY <1>1, <1>3, <1>4, <1>5

LEMMA InvBlocked ==
  ASSUME Inv, NEW u \in Usernames, Blocked(u)
  PROVE  Inv'
<1>1. PICK c \in clients \ authorized :
        /\ c \in connections
        /\ clients' = clients \ {c}
        /\ connections' = connections \ {c}
  BY BlockedIsOwn
<1>2. /\ Running /\ sent' = {}
      /\ UNCHANGED <<con, accepts, newConnections, packets, fault>>
      /\ UNCHANGED <<copy, authorized, window, asking, processes, counter, games>>
  BY DEF Blocked, Block
<1>3. TypeOK'
  BY <1>1, <1>2 DEF Inv, TypeOK, NetworkTypeOK, WireTypeOK, SessionsTypeOK
<1>4. UniqueUsernames' /\ AnnouncedAreActivated' /\ CopyIsCurrent'
  BY <1>1, <1>2 DEF Inv, UniqueUsernames, AnnouncedAreActivated, CopyIsCurrent
<1>5. EveryConnectionIsOwned'
  <2>1. /\ connections = accepts \cup newConnections \cup clients
        /\ accepts = {i \in connections : ~con[i].activated}
        /\ newConnections \cap clients = {}
    BY <1>2 DEF Inv, EveryConnectionIsOwned
  <2>2. c \notin accepts /\ c \notin newConnections
    BY <1>1, <2>1 DEF Inv, AnnouncedAreActivated
  <2>3. QED
    BY <1>1, <1>2, <2>1, <2>2 DEF EveryConnectionIsOwned
<1>6. QED
  BY <1>1, <1>2, <1>3, <1>4, <1>5 DEF Inv, ConnectionAlwaysFound,
    UndecidedAreAsked, OneGamePerAuthorizedClient, CountersInRange
-----------------------------------------------------------------------------
LEMMA InvStutter ==
  ASSUME Inv, UNCHANGED vars
  PROVE  Inv'
BY InvSameState
   DEF vars, networkVars, sessionVars, Running, Inv, TypeOK, NetworkTypeOK,
       WireTypeOK, ConnectionAlwaysFound

LEMMA InvNext == Inv /\ [Next]_vars => Inv'
<1> SUFFICES ASSUME Inv, [Next]_vars PROVE Inv'
  OBVIOUS
<1>1. CASE Network(NetworkHandlers)
  <2>1. NetworkHandlers /\ UNCHANGED sessionVars
    BY <1>1 DEF Network
  <2>2. CASE \E e \in Endpoints, n \in RawNames : HandleConnect(e, n)
    BY <2>1, <2>2, InvHandleConnect
  <2>3. CASE \E i \in Ids, peer \in Endpoints : HandleAccept(i, peer)
    BY <2>1, <2>3, InvHandleAccept
  <2>4. CASE \E i \in Ids : AcceptFails(i)
    BY <2>1, <2>4, InvAcceptFails
  <2>5. CASE \E e \in Endpoints, k \in PacketKinds : \E d \in Bodies[k] :
               HandlePacket(e, k, d)
    BY <2>1, <2>5, InvHandlePacket
  <2>6. QED
    BY <2>1, <2>2, <2>3, <2>4, <2>5 DEF NetworkHandlers
<1>2. CASE \E i \in Ids : DeliverNewConnection(i)
  BY <1>2, InvDeliverNewConnection
<1>3. CASE DeliverMessage
  BY <1>3, InvDeliverMessage
<1>4. CASE DeliverClientInfo
  BY <1>4, InvDeliverClientInfo
<1>5. CASE \E i \in Ids : UpdateProcess(i)
  BY <1>5, InvUpdateProcess
<1>6. CASE \E u \in Usernames : Blocked(u)
  BY <1>6, InvBlocked
<1>7. CASE UNCHANGED vars
  BY <1>7, InvStutter
<1>8. QED
  BY <1>1, <1>2, <1>3, <1>4, <1>5, <1>6, <1>7 DEF Next
-----------------------------------------------------------------------------
\* Every part of the invariant holds in every reachable state.
THEOREM InvariantHolds == Spec => []Inv
BY InvInit, InvNext, PTL DEF Spec

\* Every variable of the server keeps its type; in particular every datagram
\* the handlers send has the address of a client and a text the source sends.
THEOREM TypesAreCorrect == Spec => []TypeOK
<1>1. Inv => TypeOK
  BY DEF Inv
<1>2. QED
  BY <1>1, InvariantHolds, PTL

\* handleConnect never lists a username twice, however connects, accepts,
\* refusals and disconnects interleave.
THEOREM UsernamesAreUnique == Spec => []UniqueUsernames
<1>1. Inv => UniqueUsernames
  BY DEF Inv
<1>2. QED
  BY <1>1, InvariantHolds, PTL

\* Each entry of NetworkController::connections is owned by exactly one of the
\* outstanding accept, the waiting NewConnectionEvent and the live Client.
THEOREM ConnectionsAreOwned == Spec => []EveryConnectionIsOwned
<1>1. Inv => EveryConnectionIsOwned
  BY DEF Inv
<1>2. QED
  BY <1>1, InvariantHolds, PTL

\* Client::initialize never dereferences a null connection.
THEOREM ConnectionIsFound == Spec => []ConnectionAlwaysFound
<1>1. Inv => ConnectionAlwaysFound
  BY DEF Inv
<1>2. QED
  BY <1>1, InvariantHolds, PTL

\* Client::connection stays a copy of the client's own, listed connection.
THEOREM CopiesAreCurrent == Spec => []CopyIsCurrent
<1>1. Inv => CopyIsCurrent
  BY DEF Inv
<1>2. QED
  BY <1>1, InvariantHolds, PTL

\* Authorized clients have one SimpleGame, others have none.
THEOREM GamesAreUnique == Spec => []OneGamePerAuthorizedClient
<1>1. Inv => OneGamePerAuthorizedClient
  BY DEF Inv
<1>2. QED
  BY <1>1, InvariantHolds, PTL

\* A client that is not authorized has a ClientAuthorization and its process;
\* one that is authorized has none.
THEOREM UndecidedHaveProcess == Spec => []UndecidedAreAsked
<1>1. Inv => UndecidedAreAsked
  BY DEF Inv
<1>2. QED
  BY <1>1, InvariantHolds, PTL

\* Only Client::onDestroy of a client that is not authorized takes anything off
\* the list, and it takes that client's own connection.
THEOREM DisconnectsAreOwn == Spec => OnlyOwnClientDisconnects
<1> DEFINE Own == \A i \in connections \ connections' :
                    i \in clients \ authorized /\ i \notin clients'
<1>1. Inv /\ [Next]_vars => [Own]_vars
  <2> SUFFICES ASSUME Inv, Next PROVE Own
    OBVIOUS
  <2>1. CASE Network(NetworkHandlers)
    <3>1. NetworkHandlers
      BY <2>1 DEF Network
    <3>2. ASSUME NEW e \in Endpoints, NEW n \in RawNames, HandleConnect(e, n)
          PROVE  connections \subseteq connections'
      BY <3>2 DEF HandleConnect, AlreadyConnected, Refuse, AwaitTcp, Without,
        Named, networkVars
    <3>3. ASSUME NEW i \in Ids, NEW peer \in Endpoints, HandleAccept(i, peer)
          PROVE  UNCHANGED connections
      BY <3>3 DEF HandleAccept
    <3>4. ASSUME NEW i \in Ids, AcceptFails(i)
          PROVE  UNCHANGED connections
      BY <3>4 DEF AcceptFails
    <3>5. ASSUME NEW e \in Endpoints, NEW k \in PacketKinds, NEW d \in Bodies[k],
                 HandlePacket(e, k, d)
          PROVE  UNCHANGED connections
      BY <3>5 DEF HandlePacket
    <3>6. QED
      BY <3>1, <3>2, <3>3, <3>4, <3>5 DEF NetworkHandlers
  <2>2. CASE \/ \E i \in Ids : DeliverNewConnection(i)
             \/ DeliverMessage \/ DeliverClientInfo
             \/ \E i \in Ids : UpdateProcess(i)
    BY <2>2 DEF DeliverNewConnection, DeliverMessage, DeliverClientInfo,
      UpdateProcess, networkVars
  <2>3. CASE \E u \in Usernames : Blocked(u)
    BY <2>3, BlockedIsOwn
  <2>4. QED
    BY <2>1, <2>2, <2>3 DEF Next
<1>2. QED
  BY <1>1, InvariantHolds, PTL DEF Spec, OnlyOwnClientDisconnects
=============================================================================
