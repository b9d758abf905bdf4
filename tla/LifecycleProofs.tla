-------------------------- MODULE LifecycleProofs --------------------------
(***************************************************************************)
(* The proof that Server implements Lifecycle: under the mapping of Phase  *)
(* and Running, its initial states are initial, and each of its steps      *)
(* moves one name along its life cycle, stops the server, or changes       *)
(* nothing that can be seen.                                               *)
(*                                                                         *)
(* And that it gets anywhere.  Server uses Network as NetworkProofs        *)
(* assumes, so connections are announced in the order of their numbers;    *)
(* from that it follows that a fair dispatcher gets to every announcement, *)
(* and a fair timer to the end of every ClientAuthorizationProcess.        *)
(***************************************************************************)
EXTENDS ServerProofs, NetworkProofs

USE WireAssumption, NetworkAssumption, SessionsAssumption, ServerAssumption
  DEF WireAssumption, NetworkAssumption, SessionsAssumption, ServerAssumption

AbstractStep == [Abstract!Next]_<<Phase, Running>>
-----------------------------------------------------------------------------
LEMMA PhaseOfAbsent ==
  ASSUME NEW u \in Usernames, Named(u) = {}
  PROVE  PhaseOf(u) = "absent"
BY DEF PhaseOf

\* The phase of a name that has one entry is that of the entry.
LEMMA PhaseOfEntry ==
  ASSUME NEW u \in Usernames, NEW i, Named(u) = {i}
  PROVE  PhaseOf(u) = IF ~con[i].activated THEN "connecting"
                      ELSE IF i \in authorized THEN "authorized" ELSE "deciding"
BY DEF PhaseOf

LEMMA NextPhaseOfAbsent ==
  ASSUME NEW u \in Usernames, Named(u)' = {}
  PROVE  PhaseOf(u)' = "absent"
BY DEF PhaseOf

LEMMA NextPhaseOfEntry ==
  ASSUME NEW u \in Usernames, NEW i, Named(u)' = {i}
  PROVE  PhaseOf(u)' = IF ~con'[i].activated THEN "connecting"
                       ELSE IF i \in authorized' THEN "authorized" ELSE "deciding"
BY DEF PhaseOf

\* A name whose entries do not change keeps its phase.
LEMMA PhaseOfSame ==
  ASSUME NEW u \in Usernames, Named(u)' = Named(u),
         \A i \in Named(u) : /\ con'[i].activated = con[i].activated
                             /\ i \in authorized' <=> i \in authorized
  PROVE  PhaseOf(u)' = PhaseOf(u)
BY DEF PhaseOf

\* One name moves, the others keep their phases.
LEMMA OneNameMoves ==
  ASSUME Running, UNCHANGED fault,
         NEW u \in Usernames, NEW from, NEW to,
         PhaseOf(u) = from, PhaseOf(u)' = to,
         \A v \in Usernames : v # u => PhaseOf(v)' = PhaseOf(v)
  PROVE  Abstract!Moves(u, from, to)
<1>1. Phase' = [v \in Usernames |-> PhaseOf(v)']
  BY DEF Phase
<1>2. Phase' = [Phase EXCEPT ![u] = to] /\ Phase[u] = from
  BY <1>1 DEF Phase
<1>3. QED
  BY <1>2 DEF Abstract!Moves, Running

LEMMA NoNameMoves ==
  ASSUME UNCHANGED <<con, connections, authorized>>
  PROVE  UNCHANGED Phase
BY DEF Phase, PhaseOf, Named

LEMMA ServerStops ==
  ASSUME UNCHANGED <<con, connections, authorized>>, ~Running'
  PROVE  AbstractStep
BY NoNameMoves DEF AbstractStep, Abstract!Next, Abstract!Stop, Running
-----------------------------------------------------------------------------
LEMMA AwaitTcpMoves ==
  ASSUME Inv, Running, UNCHANGED <<sessionVars, fault>>,
         NEW e \in Endpoints, NEW u \in Usernames, AwaitTcp(e, u)
  PROVE  Abstract!Moves(u, "absent", "connecting")
<1> DEFINE new == Len(con) + 1
<1> DEFINE entry == [username |-> u, endpoint |-> e, activated |-> FALSE,
                     peer |-> Nobody]
<1>1. /\ con \in Seq(Connection) /\ Len(con) \in Nat /\ con' = Append(con, entry)
      /\ entry \in Connection
      /\ connections \subseteq 1 .. Len(con)
      /\ connections' = connections \cup {new}
      /\ Named(u) = {}
      /\ UNCHANGED authorized
  BY DEF Inv, TypeOK, NetworkTypeOK, AwaitTcp, sessionVars, Connection
<1>2. con'[new] = entry /\ \A i \in 1 .. Len(con) : con'[i] = con[i]
  BY <1>1
<1>3. new \notin connections /\ ~con'[new].activated /\ con'[new].username = u
  BY <1>1, <1>2
<1> HIDE DEF new, entry
<1>4. Named(u)' = {new}
  BY <1>1, <1>2, <1>3 DEF Named
<1>5. ASSUME NEW v \in Usernames, v # u
      PROVE  PhaseOf(v)' = PhaseOf(v)
  <2>1. Named(v)' = Named(v)
    BY <1>1, <1>2, <1>3, <1>5 DEF Named
  <2>2. \A i \in Named(v) : con'[i] = con[i]
    BY <1>1, <1>2 DEF Named
  <2>3. QED
    BY <1>1, <2>1, <2>2, PhaseOfSame
<1>6. PhaseOf(u) = "absent" /\ PhaseOf(u)' = "connecting"
  BY <1>1, <1>3, <1>4, PhaseOfAbsent, NextPhaseOfEntry
<1>7. QED
  BY <1>5, <1>6, OneNameMoves

LEMMA HandleConnectRefines ==
  ASSUME Inv, UNCHANGED sessionVars,
         NEW e \in Endpoints, NEW n \in RawNames, HandleConnect(e, n)
  PROVE  AbstractStep
<1> DEFINE u == Sanitize[n]
<1>1. u \in Usernames /\ Running /\ UNCHANGED fault
  BY DEF HandleConnect
<1>2. CASE AwaitTcp(e, u)
  <2>1. Abstract!Moves(u, "absent", "connecting")
    BY <1>1, <1>2, AwaitTcpMoves
  <2>2. QED
    BY <1>1, <2>1 DEF AbstractStep, Abstract!Next
<1>3. CASE UNCHANGED <<con, connections>>
  <2>1. UNCHANGED <<Phase, Running>>
    BY <1>1, <1>3, NoNameMoves DEF sessionVars, Running
  <2>2. QED
    BY <2>1 DEF AbstractStep
<1>4. QED
  BY <1>2, <1>3 DEF HandleConnect, AlreadyConnected, Refuse, Without, Named,
    networkVars

LEMMA HandleAcceptRefines ==
  ASSUME Inv, UNCHANGED sessionVars,
         NEW i \in Ids, NEW peer \in Endpoints, HandleAccept(i, peer)
  PROVE  AbstractStep
<1>1. /\ Running /\ i \in accepts /\ UNCHANGED <<connections, authorized, fault>>
      /\ con \in Seq(Connection) /\ connections \subseteq 1 .. Len(con)
      /\ i \in 1 .. Len(con)
      /\ con' = [con EXCEPT ![i].activated = TRUE, ![i].peer = peer]
  BY DEF HandleAccept, IsFirst, Inv, TypeOK, NetworkTypeOK, sessionVars
<1>2. i \in connections /\ ~con[i].activated /\ i \notin authorized
  BY <1>1 DEF Inv, EveryConnectionIsOwned, AnnouncedAreActivated, TypeOK,
    SessionsTypeOK
<1>3. con[i] \in Connection
  BY <1>2, ListedIsConnection DEF Inv
<1>4. PICK u \in Usernames : u = con[i].username
  BY <1>3 DEF Connection
<1>5. /\ con'[i].activated
      /\ \A j \in 1 .. Len(con) : /\ con'[j].username = con[j].username
                                  /\ j # i => con'[j] = con[j]
  BY <1>1, <1>3 DEF Connection
<1>6. \A v \in Usernames : Named(v)' = Named(v)
  BY <1>1, <1>5 DEF Named
<1>7. Named(u) = {i}
  BY <1>2, <1>4, OwnNameFound DEF Inv
<1>8. PhaseOf(u) = "connecting" /\ PhaseOf(u)' = "deciding"
  <2>1. Named(u)' = {i} /\ con'[i].activated /\ i \notin authorized'
    BY <1>1, <1>2, <1>5, <1>6, <1>7
  <2>2. QED
    BY <1>2, <1>7, <2>1, PhaseOfEntry, NextPhaseOfEntry
<1>9. ASSUME NEW v \in Usernames, v # u
      PROVE  PhaseOf(v)' = PhaseOf(v)
  <2>1. \A j \in Named(v) : j \in 1 .. Len(con) /\ j # i
    BY <1>1, <1>4, <1>9 DEF Named
  <2>2. QED
    BY <1>1, <1>5, <1>6, <2>1, PhaseOfSame
<1>10. Running /\ UNCHANGED fault
  BY <1>1
<1>11. Abstract!Moves(u, "connecting", "deciding")
  BY <1>8, <1>9, <1>10, OneNameMoves
<1>12. QED
  BY <1>11 DEF AbstractStep, Abstract!Next

\* A confirmation by name decides the one undecided client of the name, or none.
LEMMA ConfirmRefines ==
  ASSUME Inv, Running, UNCHANGED <<con, connections, fault>>,
         NEW u \in Usernames, authorized' = authorized \cup Undecided(u)
  PROVE  AbstractStep
<1>1. CASE Undecided(u) = {}
  BY <1>1, NoNameMoves DEF AbstractStep, Running
<1>2. CASE Undecided(u) # {}
  <2>1. PICK c \in Undecided(u) : TRUE
    BY <1>2
  <2>2. /\ c \in clients \ authorized /\ c \in connections
        /\ copy[c].username = u /\ con[c].username = u /\ con[c].activated
    BY <2>1 DEF Undecided, Inv, CopyIsCurrent, AnnouncedAreActivated
  <2>3. Undecided(u) = {c}
    BY <2>1, <2>2, OneClientPerName DEF Undecided, Inv
  <2>4. Named(u) = {c} /\ Named(u)' = {c}
    BY <2>2, OwnNameFound DEF Inv, Named
  <2>5. PhaseOf(u) = "deciding" /\ PhaseOf(u)' = "authorized"
    BY <2>2, <2>3, <2>4, PhaseOfEntry, NextPhaseOfEntry
  <2>6. ASSUME NEW v \in Usernames, v # u
        PROVE  PhaseOf(v)' = PhaseOf(v)
    <3>1. Named(v)' = Named(v) /\ c \notin Named(v)
      BY <2>2, <2>6 DEF Named
    <3>2. QED
      BY <2>3, <3>1, PhaseOfSame
  <2>7. Abstract!Moves(u, "deciding", "authorized")
    BY <2>5, <2>6, OneNameMoves
  <2>8. QED
    BY <2>7 DEF AbstractStep, Abstract!Next
<1>3. QED
  BY <1>1, <1>2

LEMMA DeliverMessageRefines ==
  ASSUME Inv, DeliverMessage
  PROVE  AbstractStep
<1> DEFINE event == Head(packets["message"])
<1>1. /\ Running /\ UNCHANGED <<con, connections>>
      /\ packets["message"] \in Seq(PacketEvent) /\ packets["message"] # <<>>
  BY DEF DeliverMessage, TakePacket, Inv, TypeOK, NetworkTypeOK
<1>2. event \in PacketEvent
  BY <1>1, HeadTailProperties
<1>3. event.username \in Usernames
  BY <1>2 DEF PacketEvent
<1>4. CASE OnMessageFaults /\ fault' = "wrapper"
  BY <1>1, <1>4, ServerStops DEF OnMessageFaults, sessionVars, Running
<1>5. CASE OnMessage(event.username, event.payload) /\ UNCHANGED fault
  <2>1. CASE PasswordRight(event.username)
    BY <1>1, <1>3, <1>5, <2>1, ConfirmRefines DEF PasswordRight, Confirm
  <2>2. CASE UNCHANGED sessionVars
    BY <1>1, <1>5, <2>2, NoNameMoves DEF sessionVars, AbstractStep, Running
  <2>3. QED
    BY <1>5, <2>1, <2>2 DEF OnMessage, PasswordWrong
<1>6. QED
  BY <1>4, <1>5 DEF DeliverMessage

LEMMA UpdateProcessRefines ==
  ASSUME Inv, NEW i \in Ids, UpdateProcess(i)
  PROVE  AbstractStep
<1>1. /\ Running /\ UNCHANGED <<con, connections, fault>>
      /\ UpdateOrphaned(i) \/ UpdateFails(i) \/ UpdatePrompts(i)
  BY DEF UpdateProcess, Update, networkVars
<1>2. CASE UpdateFails(i)
  <2>1. copy[i].username \in Usernames
    BY DEF Inv, TypeOK, SessionsTypeOK
  <2>2. QED
    BY <1>1, <1>2, <2>1, ConfirmRefines DEF UpdateFails, Confirm
<1>3. CASE UpdateOrphaned(i) \/ UpdatePrompts(i)
  BY <1>1, <1>3, NoNameMoves DEF UpdateOrphaned, UpdatePrompts, AbstractStep,
    Running
<1>4. QED
  BY <1>1, <1>2, <1>3

LEMMA BlockedRefines ==
  ASSUME Inv, NEW u \in Usernames, Blocked(u)
  PROVE  AbstractStep
<1>1. PICK c \in clients \ authorized :
        /\ c \in connections /\ con[c].username = u
        /\ connections' = connections \ {c}
  BY BlockedIsOwn
<1>2. /\ Running /\ u \in Blockable /\ UNCHANGED <<con, authorized, fault>>
      /\ con[c].activated
  BY DEF Blocked, Block, Inv, AnnouncedAreActivated
<1>3. Named(u) = {c} /\ Named(u)' = {}
  BY <1>1, <1>2, OwnNameFound DEF Inv, Named
<1>4. PhaseOf(u) = "deciding" /\ PhaseOf(u)' = "absent"
  BY <1>1, <1>2, <1>3, PhaseOfEntry, NextPhaseOfAbsent
<1>5. ASSUME NEW v \in Usernames, v # u
      PROVE  PhaseOf(v)' = PhaseOf(v)
  <2>1. Named(v)' = Named(v)
    BY <1>1, <1>2, <1>5 DEF Named
  <2>2. QED
    BY <1>2, <2>1, PhaseOfSame
<1>6. Abstract!Moves(u, "deciding", "absent")
  BY <1>2, <1>4, <1>5, OneNameMoves
<1>7. QED
  BY <1>2, <1>6 DEF AbstractStep, Abstract!Next

\* The steps that are not seen: packets, client information and the creation of
\* a Client.
LEMMA UnseenSteps ==
  ASSUME Inv,
         \/ /\ UNCHANGED sessionVars
            /\ \E e \in Endpoints, k \in PacketKinds : \E d \in Bodies[k] :
                 HandlePacket(e, k, d)
         \/ \E i \in Ids : DeliverNewConnection(i)
         \/ DeliverClientInfo
         \/ UNCHANGED vars
  PROVE  AbstractStep
<1>1. ASSUME NEW i \in Ids, DeliverNewConnection(i)
      PROVE  UNCHANGED <<con, connections, authorized, fault>>
  <2>1. /\ Running /\ i \in newConnections /\ UNCHANGED <<con, connections>>
    BY <1>1 DEF DeliverNewConnection, TakeNewConnection, IsFirst
  <2>2. Named(con[i].username) = {i}
    BY <2>1, OwnNameFound DEF Inv, EveryConnectionIsOwned
  <2>3. QED
    BY <1>1, <2>1, <2>2 DEF DeliverNewConnection, ClientInitialize
<1>2. UNCHANGED <<con, connections, authorized, fault>>
  BY <1>1 DEF HandlePacket, DeliverClientInfo, TakePacket, OnClientInformation,
    sessionVars, networkVars, vars
<1>3. QED
  BY <1>2, NoNameMoves DEF AbstractStep, Running
-----------------------------------------------------------------------------
LEMMA InitRefines == Init => Abstract!Init
<1> SUFFICES ASSUME Init PROVE Abstract!Init
  OBVIOUS
<1>1. Running /\ \A u \in Usernames : Named(u) = {}
  BY DEF Init, WireInit, NetworkInit, Running, Named
<1>2. \A u \in Usernames : PhaseOf(u) = "absent"
  BY <1>1, PhaseOfAbsent
<1>3. QED
  BY <1>1, <1>2 DEF Abstract!Init, Phase

LEMMA NextRefines == Inv /\ [Next]_vars => [Abstract!Next]_<<Phase, Running>>
<1> SUFFICES ASSUME Inv, [Next]_vars PROVE AbstractStep
  BY DEF AbstractStep
<1>1. CASE Network(NetworkHandlers)
  <2>1. NetworkHandlers /\ UNCHANGED sessionVars
    BY <1>1 DEF Network
  <2>2. CASE \E e \in Endpoints, n \in RawNames : HandleConnect(e, n)
    BY <2>1, <2>2, HandleConnectRefines
  <2>3. CASE \E i \in Ids, peer \in Endpoints : HandleAccept(i, peer)
    BY <2>1, <2>3, HandleAcceptRefines
  <2>4. CASE \E i \in Ids : AcceptFails(i)
    BY <2>1, <2>4, ServerStops DEF AcceptFails, sessionVars, Running
  <2>5. CASE \E e \in Endpoints, k \in PacketKinds : \E d \in Bodies[k] :
               HandlePacket(e, k, d)
    BY <2>1, <2>5, UnseenSteps
  <2>6. QED
    BY <2>1, <2>2, <2>3, <2>4, <2>5 DEF NetworkHandlers
<1>2. CASE DeliverMessage
  BY <1>2, DeliverMessageRefines
<1>3. CASE \E i \in Ids : UpdateProcess(i)
  BY <1>3, UpdateProcessRefines
<1>4. CASE \E u \in Usernames : Blocked(u)
  BY <1>4, BlockedRefines
<1>5. CASE \/ \E i \in Ids : DeliverNewConnection(i)
           \/ DeliverClientInfo \/ UNCHANGED vars
  BY <1>5, UnseenSteps
<1>6. QED
  BY <1>1, <1>2, <1>3, <1>4, <1>5 DEF Next

\* Whatever is interleaved, a step of the server moves at most one user name
\* along connecting, deciding, authorized, or frees one that is blocked while it
\* is being decided on.
THEOREM LifecycleIsImplemented == Spec => ImplementsLifecycle
BY InitRefines, NextRefines, InvariantHolds, PTL
   DEF Spec, ImplementsLifecycle, Abstract!Spec
-----------------------------------------------------------------------------
(* What the server is to NetworkController. *)

\* A client that is blocked was activated under the name it is blocked by.
LEMMA BlockedUsesNetwork ==
  ASSUME Inv, NEW u \in Usernames, Blocked(u)
  PROVE  \E i \in DOMAIN con : /\ con[i].activated
                               /\ connections' = Without(con[i].username)
<1>1. PICK c \in clients : copy[c].username = u
  BY DEF Blocked, Block, Undecided
<1>2. c \in 1 .. Len(con) /\ con[c].activated /\ con[c].username = u
  BY <1>1 DEF Inv, AnnouncedAreActivated, CopyIsCurrent
<1>3. c \in DOMAIN con
  BY <1>2 DEF Inv, TypeOK, NetworkTypeOK
<1>4. QED
  BY <1>2, <1>3 DEF Blocked

\* A delivery takes an event and is free in what it sends.
LEMMA DeliveryUsesNetwork ==
  ASSUME Running, UNCHANGED connections, sent' \subseteq Datagrams, fault' \in Faults,
         (\E i \in Ids : TakeNewConnection(i)) \/ (\E k \in PacketKinds : TakePacket(k))
  PROVE  UseOfNetwork
BY DEF UseOfNetwork

\* What each handler of the server is to Network.
LEMMA ServerStepUsesNetwork ==
  Inv /\ [Next]_vars => [OpenNetworkNext]_<<networkVars, sent, fault>>
<1> SUFFICES ASSUME Inv, Next
             PROVE  OpenNetworkNext
  BY DEF vars
<1>1. Inv'
  BY InvNext
<1>2. sent' \subseteq Datagrams /\ fault' \in Faults
  BY <1>1 DEF Inv, TypeOK, NetworkTypeOK, WireTypeOK
<1>3. CASE Network(NetworkHandlers)
  BY <1>3 DEF Network, OpenNetworkNext
<1>4. ASSUME NEW i \in Ids, DeliverNewConnection(i)
      PROVE  UseOfNetwork
  <2>1. Running /\ UNCHANGED connections /\ TakeNewConnection(i)
    BY <1>4 DEF DeliverNewConnection
  <2>2. QED
    BY <1>2, <2>1, DeliveryUsesNetwork
<1>5. CASE DeliverMessage
  <2>1. Running /\ UNCHANGED connections /\ TakePacket("message")
    BY <1>5 DEF DeliverMessage
  <2>2. "message" \in PacketKinds
    BY ServerAssumption
  <2>3. QED
    BY <1>2, <2>1, <2>2, DeliveryUsesNetwork DEF OpenNetworkNext
<1>6. CASE DeliverClientInfo
  <2>1. Running /\ UNCHANGED connections /\ TakePacket("clientInfo")
    BY <1>6 DEF DeliverClientInfo
  <2>2. "clientInfo" \in PacketKinds
    BY ServerAssumption
  <2>3. QED
    BY <1>2, <2>1, <2>2, DeliveryUsesNetwork DEF OpenNetworkNext
<1>7. CASE \E i \in Ids : UpdateProcess(i)
  <2>1. Running /\ UNCHANGED networkVars
    BY <1>7 DEF UpdateProcess
  <2>2. QED
    BY <1>2, <2>1 DEF UseOfNetwork, OpenNetworkNext
<1>8. ASSUME NEW u \in Usernames, Blocked(u)
      PROVE  UseOfNetwork
  BY <1>2, <1>8, BlockedUsesNetwork DEF Blocked, UseOfNetwork
<1>9. QED
  BY <1>3, <1>4, <1>5, <1>6, <1>7, <1>8 DEF Next, OpenNetworkNext

\* Server uses NetworkController as NetworkProofs assumes: whatever interleaves,
\* its sessions touch the list, the accepts and the queues only by disconnecting
\* a connection they copied and by taking the oldest event of a queue.
THEOREM ServerUsesNetwork == Spec => OpenNetworkSpec
<1>1. Init => NetworkUseInit /\ Inv
  BY InvInit DEF Init, NetworkUseInit
<1>2. QED
  BY <1>1, InvNext, ServerStepUsesNetwork, PTL DEF Spec, OpenNetworkSpec

\* What Network guarantees to any use of it holds in the server.
LEMMA ServerInvariants == Spec => [](Inv /\ HandshakesCompleteInOrder)
<1>1. NetInv => HandshakesCompleteInOrder
  BY DEF NetInv
<1>2. QED
  BY <1>1, InvariantHolds, ServerUsesNetwork, OpenNetInvariant, PTL

-----------------------------------------------------------------------------
(* Deciding.  Fairness is stated with the guard of the action written out,     *)
(* which is what ENABLED says of it: the prover has no rules for ENABLED.      *)

\* The timer of PeriodMS<100> can call process i.
CanUpdate(i) == Running /\ i \in processes

\* Weak fairness of UpdateProcess(i): the timer keeps ticking.
UpdatesFairly(i) == []<>~CanUpdate(i) \/ []<><<UpdateProcess(i)>>_vars

\* The client of connection i is there and not decided on.
IsUndecided(i) == Running /\ i \in clients \ authorized

\* Its process has been called n times.
Counted(i, n) == IsUndecided(i) /\ counter[i] = n

\* What EveryClientIsDecided promises.
Decided(i) == i \notin newConnections \cup (clients \ authorized) \/ ~Running

\* Nobody is announced twice: who is undecided stays so until decided.
LEMMA UndecidedOrDecided ==
  ASSUME Inv, [Next]_vars, NEW i \in Ids, IsUndecided(i)
  PROVE  IsUndecided(i)' \/ Decided(i)'
<1>1. Inv'
  BY InvNext
<1>2. SUFFICES ASSUME Running', i \notin clients'
               PROVE  i \notin newConnections'
  BY <1>1 DEF IsUndecided, Decided, Inv, EveryConnectionIsOwned
<1>3. Running /\ i \in clients /\ i \notin newConnections
  BY DEF IsUndecided, Inv, EveryConnectionIsOwned
<1>4. CASE \E u \in Usernames : Blocked(u)
  BY <1>3, <1>4 DEF Blocked
<1>5. CASE ~\E u \in Usernames : Blocked(u)
  <2>1. clients \subseteq clients'
    BY <1>5 DEF Next, Network, DeliverNewConnection, ClientInitialize, DeliverMessage,
      OnMessage, OnMessageFaults, PasswordRight, PasswordWrong, DeliverClientInfo,
      OnClientInformation, UpdateProcess, Update, UpdateOrphaned, UpdateFails,
      UpdatePrompts, sessionVars, vars
  <2>2. QED
    BY <1>2, <1>3, <2>1
<1>6. QED
  BY <1>4, <1>5

\* As long as it is undecided, its process is registered and counts.
LEMMA UndecidedAreCounted ==
  ASSUME Inv, NEW i, IsUndecided(i)
  PROVE  i \in Ids /\ i \in asking /\ counter[i] \in 0 .. MaxUpdates + 1 /\ CanUpdate(i)
BY DEF Inv, IsUndecided, CanUpdate, UndecidedAreAsked, CountersInRange, TypeOK, SessionsTypeOK

\* Only its own process counts its calls, each once.
LEMMA CounterOfUpdate ==
  ASSUME Inv, NEW i \in Ids, NEW n \in Nat, Counted(i, n), UpdateProcess(i),
         IsUndecided(i)'
  PROVE  counter'[i] = n + 1
<1>1. i \in asking /\ i \in clients /\ counter \in [Ids -> 0 .. MaxUpdates + 2]
  BY UndecidedAreCounted DEF Counted, IsUndecided, Inv, TypeOK, SessionsTypeOK
<1>2. counter[i] = n
  BY DEF Counted
<1>3. ~UpdateOrphaned(i)
  BY <1>1 DEF UpdateOrphaned, Orphans
<1>4. counter' = [counter EXCEPT ![i] = @ + 1]
  BY <1>3 DEF UpdateProcess, Update, UpdateFails, UpdatePrompts
<1>5. QED
  BY <1>1, <1>2, <1>4

LEMMA CounterOfStep ==
  ASSUME Inv, [Next]_vars, NEW i \in Ids, NEW n \in Nat, Counted(i, n),
         IsUndecided(i)'
  PROVE  counter'[i] \in {n, n + 1}
<1>1. counter \in [Ids -> 0 .. MaxUpdates + 2] /\ i \in clients
  BY DEF Counted, IsUndecided, Inv, TypeOK, SessionsTypeOK
<1>2. counter[i] = n
  BY DEF Counted
<1>3. ASSUME NEW j \in Ids, DeliverNewConnection(j)
      PROVE  counter'[i] = n
  <2>1. j # i
    <3>1. j \in newConnections /\ Running
      BY <1>3 DEF DeliverNewConnection, TakeNewConnection, IsFirst
    <3>2. newConnections \cap clients = {}
      BY <3>1 DEF Inv, EveryConnectionIsOwned
    <3>3. QED
      BY <1>1, <3>1, <3>2
  <2>2. counter' = counter \/ counter' = [counter EXCEPT ![j] = 0]
    BY <1>3 DEF DeliverNewConnection, ClientInitialize, sessionVars
  <2>3. QED
    BY <1>1, <1>2, <2>1, <2>2
<1>4. ASSUME NEW j \in Ids, UpdateProcess(j)
      PROVE  counter'[i] \in {n, n + 1}
  <2>1. CASE j = i
    BY <1>4, <2>1, CounterOfUpdate
  <2>2. CASE j # i
    <3>1. counter' = counter \/ counter' = [counter EXCEPT ![j] = @ + 1]
      BY <1>4 DEF UpdateProcess, Update, UpdateOrphaned, UpdateFails, UpdatePrompts
    <3>2. QED
      BY <1>1, <1>2, <2>2, <3>1
  <2>3. QED
    BY <2>1, <2>2
<1>5. CASE Network(NetworkHandlers) \/ UNCHANGED vars
  BY <1>2, <1>5 DEF Network, vars, sessionVars
<1>6. CASE DeliverMessage
  BY <1>2, <1>6 DEF DeliverMessage, OnMessage, OnMessageFaults, PasswordRight,
    PasswordWrong, sessionVars
<1>7. CASE DeliverClientInfo
  BY <1>2, <1>7 DEF DeliverClientInfo, OnClientInformation
<1>8. CASE \E u \in Usernames : Blocked(u)
  BY <1>2, <1>8 DEF Blocked, Block
<1>9. QED
  BY <1>3, <1>4, <1>5, <1>6, <1>7, <1>8 DEF Next

\* From the n-th call of the process a fair timer gets to the m-th, or to a
\* decision.
Advances(i, n, m) ==
  Spec /\ UpdatesFairly(i) => (Counted(i, n) ~> (Counted(i, m) \/ Decided(i)))

LEMMA CounterAdvances ==
  ASSUME NEW i \in Ids, NEW n \in Nat, NEW m \in Nat, m = n + 1
  PROVE  Advances(i, n, m)
<1>1. Inv /\ Counted(i, n) /\ [Next]_vars =>
        Counted(i, n)' \/ Counted(i, m)' \/ Decided(i)'
  BY CounterOfStep, UndecidedOrDecided DEF Counted
<1>2. Inv /\ Counted(i, n) /\ <<Next /\ UpdateProcess(i)>>_vars =>
        Counted(i, m)' \/ Decided(i)'
  BY CounterOfUpdate, UndecidedOrDecided DEF Counted
<1>3. Inv /\ Counted(i, n) => CanUpdate(i)
  BY UndecidedAreCounted DEF Counted
<1>4. QED
  BY <1>1, <1>2, <1>3, InvariantHolds, PTL DEF Advances, Spec, UpdatesFairly

\* A client that is there is authorized or destroyed, whatever its user sends or
\* does not send: ClientAuthorizationProcess counts to 10 (client.cpp:10), the
\* value of MaxUpdates in the code.
THEOREM UndecidedAreDecided ==
  ASSUME MaxUpdates = 10, NEW i \in Ids
  PROVE  Spec /\ UpdatesFairly(i) => (IsUndecided(i) ~> Decided(i))
<1>1. Inv /\ IsUndecided(i) =>
        \/ Counted(i, 0) \/ Counted(i, 1) \/ Counted(i, 2) \/ Counted(i, 3)
        \/ Counted(i, 4) \/ Counted(i, 5) \/ Counted(i, 6) \/ Counted(i, 7)
        \/ Counted(i, 8) \/ Counted(i, 9) \/ Counted(i, 10) \/ Counted(i, 11)
  BY UndecidedAreCounted DEF Counted
<1>2. Inv => ~Counted(i, 12)
  BY UndecidedAreCounted DEF Counted
<1>3. /\ Advances(i, 0, 1) /\ Advances(i, 1, 2) /\ Advances(i, 2, 3)
      /\ Advances(i, 3, 4) /\ Advances(i, 4, 5) /\ Advances(i, 5, 6)
      /\ Advances(i, 6, 7) /\ Advances(i, 7, 8) /\ Advances(i, 8, 9)
      /\ Advances(i, 9, 10) /\ Advances(i, 10, 11) /\ Advances(i, 11, 12)
  BY CounterAdvances
<1>4. QED
  BY <1>1, <1>2, <1>3, InvariantHolds, PTL DEF Advances
-----------------------------------------------------------------------------
(* Being announced. *)

\* The dispatcher can deliver the NewConnectionEvent of connection i: its queue
\* is first in, first out.
CanDeliver(i) == Running /\ IsFirst(i, newConnections)

\* Weak fairness of DeliverNewConnection(i): what is enqueued is delivered.
DeliversFairly(i) == []<>~CanDeliver(i) \/ []<><<DeliverNewConnection(i)>>_vars

\* Whoever is announced was listed before everybody whose accept is outstanding.
LEMMA AnnouncedInOrder ==
  ASSUME Inv, HandshakesCompleteInOrder, NEW i \in newConnections,
         NEW a \in accepts, Running
  PROVE  i \in Nat /\ a \in Nat /\ i <= a
<1>1. i \in DOMAIN con /\ a \in DOMAIN con /\ i \in Nat /\ a \in Nat
  BY DEF Inv, TypeOK, NetworkTypeOK
<1>2. con[i].activated /\ ~con[a].activated
  BY DEF Inv, AnnouncedAreActivated, EveryConnectionIsOwned
<1>3. ~(a < i)
  BY <1>1, <1>2 DEF HandshakesCompleteInOrder
<1>4. QED
  BY <1>1, <1>3

\* Being delivered, it becomes a client that is not authorized.
LEMMA DeliveredAreClients ==
  ASSUME Inv, NEW i \in Ids, DeliverNewConnection(i), Running'
  PROVE  IsUndecided(i)'
<1>1. i \in newConnections /\ Running
  BY DEF DeliverNewConnection, TakeNewConnection, IsFirst
<1>2. i \notin clients /\ authorized \subseteq clients
  BY <1>1 DEF Inv, EveryConnectionIsOwned, TypeOK, SessionsTypeOK
<1>3. clients' = clients \cup {i} /\ authorized' = authorized
  BY DEF DeliverNewConnection, ClientInitialize, Running
<1>4. QED
  BY <1>2, <1>3 DEF IsUndecided

\* Connection i is announced, and so is nobody listed before the m-th.
NoneBefore(i, m) == Running /\ i \in newConnections /\ \A j \in newConnections : m <= j

\* What a fair dispatcher leads to, unless the process stops.
Delivered(i) == IsUndecided(i) \/ ~Running

\* The dispatcher is fair to every announcement.
AllDeliverFairly == \A j \in Ids : DeliversFairly(j)

\* An announcement comes nearer to the head of the queue, from m to n.
ComesNearer(i, m, n) ==
  Spec /\ AllDeliverFairly => (NoneBefore(i, m) ~> (NoneBefore(i, n) \/ Delivered(i)))

\* What a step does to the announcements.
LEMMA AnnouncementsOfStep ==
  ASSUME [Next]_vars
  PROVE  \/ UNCHANGED newConnections
         \/ \E a \in accepts : newConnections' = newConnections \cup {a}
         \/ \E j \in Ids : /\ DeliverNewConnection(j)
                           /\ newConnections' = newConnections \ {j}
<1>1. CASE Network(NetworkHandlers)
  BY <1>1 DEF Network, NetworkHandlers, HandleConnect, AlreadyConnected, Refuse, AwaitTcp,
    HandleAccept, AcceptFails, HandlePacket, IsFirst, networkVars
<1>2. ASSUME NEW j \in Ids, DeliverNewConnection(j)
      PROVE  newConnections' = newConnections \ {j}
  BY <1>2 DEF DeliverNewConnection, TakeNewConnection
<1>3. CASE DeliverMessage \/ DeliverClientInfo \/ UNCHANGED vars
  BY <1>3 DEF DeliverMessage, DeliverClientInfo, TakePacket, vars, networkVars
<1>4. CASE \E j \in Ids : UpdateProcess(j)
  BY <1>4 DEF UpdateProcess, networkVars
<1>5. CASE \E u \in Usernames : Blocked(u)
  BY <1>5 DEF Blocked
<1>6. QED
  BY <1>1, <1>2, <1>3, <1>4, <1>5 DEF Next

\* Whoever is announced later comes later: that is the order of the handshakes.
LEMMA NobodyOvertakes ==
  ASSUME Inv, HandshakesCompleteInOrder, [Next]_vars, NEW i \in Ids, NEW m \in Nat,
         NoneBefore(i, m)
  PROVE  NoneBefore(i, m)' \/ Delivered(i)'
<1>1. Running /\ i \in newConnections /\ \A j \in newConnections : m <= j
  BY DEF NoneBefore
<1> SUFFICES ASSUME Running' PROVE NoneBefore(i, m)' \/ IsUndecided(i)'
  BY DEF Delivered
<1>2. CASE UNCHANGED newConnections
  BY <1>1, <1>2 DEF NoneBefore
<1>3. ASSUME NEW a \in accepts, newConnections' = newConnections \cup {a}
      PROVE  NoneBefore(i, m)'
  <2>1. i \in Nat /\ a \in Nat /\ i <= a /\ m <= i
    BY <1>1, AnnouncedInOrder
  <2>2. m <= a
    BY <2>1
  <2>3. QED
    BY <1>1, <1>3, <2>2 DEF NoneBefore
<1>4. ASSUME NEW j \in Ids, DeliverNewConnection(j), newConnections' = newConnections \ {j}
      PROVE  NoneBefore(i, m)' \/ IsUndecided(i)'
  <2>1. CASE j = i
    BY <1>4, <2>1, DeliveredAreClients
  <2>2. CASE j # i
    BY <1>1, <1>4, <2>2 DEF NoneBefore
  <2>3. QED
    BY <2>1, <2>2
<1>5. QED
  BY <1>2, <1>3, <1>4, AnnouncementsOfStep

\* Fairness to the m-th is what takes it out of the way.
LEMMA AnnouncementComesNearer ==
  ASSUME NEW i \in Ids, NEW m \in Nat \ {0}, NEW n \in Nat, n = m + 1
  PROVE  ComesNearer(i, m, n)
<1>1. Inv /\ HandshakesCompleteInOrder /\ NoneBefore(i, m) /\ [Next]_vars =>
        NoneBefore(i, m)' \/ Delivered(i)'
  BY NobodyOvertakes
<1>2. Inv /\ NoneBefore(i, m) => newConnections \subseteq Nat
  BY DEF Inv, TypeOK, NetworkTypeOK
<1>3. Inv /\ NoneBefore(i, m) /\ ~(m \in newConnections) => NoneBefore(i, n)
  BY <1>2 DEF NoneBefore
<1>4. CASE m \in Ids
  <2>1. NoneBefore(i, m) /\ m \in newConnections => CanDeliver(m)
    BY DEF NoneBefore, CanDeliver, IsFirst
  <2>2. Inv /\ HandshakesCompleteInOrder /\ NoneBefore(i, m)
          /\ <<Next /\ DeliverNewConnection(m)>>_vars =>
        NoneBefore(i, n)' \/ Delivered(i)'
    <3> SUFFICES ASSUME Inv, HandshakesCompleteInOrder, NoneBefore(i, m), Next,
                        DeliverNewConnection(m), ~Delivered(i)'
                 PROVE  NoneBefore(i, n)'
      OBVIOUS
    <3>1. NoneBefore(i, m)'
      BY NobodyOvertakes
    <3>2. newConnections' = newConnections \ {m}
      BY DEF DeliverNewConnection, TakeNewConnection
    <3>3. newConnections \subseteq Nat
      BY <1>2
    <3>4. QED
      BY <3>1, <3>2, <3>3 DEF NoneBefore
  <2>3. AllDeliverFairly => DeliversFairly(m)
    BY <1>4 DEF AllDeliverFairly
  <2>4. QED
    BY <1>1, <1>3, <2>1, <2>2, <2>3, ServerInvariants, PTL
       DEF ComesNearer, Spec, DeliversFairly
<1>5. CASE m \notin Ids
  <2>1. Inv => ~NoneBefore(i, m)
    <3> SUFFICES ASSUME Inv, NoneBefore(i, m) PROVE FALSE
      OBVIOUS
    <3>1. m <= i
      BY DEF NoneBefore
    <3>2. QED
      BY <1>5, <3>1 DEF Ids
  <2>2. QED
    BY <2>1, InvariantHolds, PTL DEF ComesNearer
<1>6. QED
  BY <1>4, <1>5

\* EveryClientIsDecided for one connection.
IsDecided(i) ==
  Spec /\ AllDeliverFairly /\ UpdatesFairly(i) =>
    ((i \in newConnections \cup (clients \ authorized)) ~> Decided(i))

\* At most eight deliveries and then eleven calls of the process.
LEMMA EveryAnnouncementIsDecided ==
  ASSUME MaxUpdates = 10, MaxConnections <= 8, NEW i \in Ids
  PROVE  IsDecided(i)
<1>1. Inv /\ (i \in newConnections \cup (clients \ authorized)) =>
        NoneBefore(i, 1) \/ Delivered(i)
  <2> SUFFICES ASSUME Inv, Running, i \in newConnections PROVE NoneBefore(i, 1)
    BY DEF Delivered, IsUndecided
  <2>1. newConnections \subseteq DOMAIN con
    BY DEF Inv, TypeOK, NetworkTypeOK
  <2>2. DOMAIN con \subseteq Nat \ {0}
    BY DEF Inv, TypeOK, NetworkTypeOK
  <2>3. QED
    BY <2>1, <2>2 DEF NoneBefore
<1>2. ~NoneBefore(i, 9)
  <2> SUFFICES ASSUME NoneBefore(i, 9) PROVE FALSE
    OBVIOUS
  <2>1. 9 <= i
    BY DEF NoneBefore
  <2>2. QED
    BY <2>1 DEF Ids
<1>3. /\ ComesNearer(i, 1, 2) /\ ComesNearer(i, 2, 3) /\ ComesNearer(i, 3, 4)
      /\ ComesNearer(i, 4, 5) /\ ComesNearer(i, 5, 6) /\ ComesNearer(i, 6, 7)
      /\ ComesNearer(i, 7, 8) /\ ComesNearer(i, 8, 9)
  BY AnnouncementComesNearer
<1>4. ~Running => Decided(i)
  BY DEF Decided
<1>5. QED
  BY <1>1, <1>2, <1>3, <1>4, InvariantHolds, UndecidedAreDecided, PTL
     DEF IsDecided, ComesNearer, Delivered

\* A client once announced is eventually authorized or destroyed, unless the
\* process stops, if the dispatcher and the timer are fair: for every behaviour
\* with up to eight connections, and the limit of 10 calls the code has.
THEOREM ClientsAreDecided ==
  ASSUME MaxUpdates = 10, MaxConnections <= 8
  PROVE  Spec /\ (\A i \in Ids : DeliversFairly(i) /\ UpdatesFairly(i)) =>
           EveryClientIsDecided
<1>1. \A i \in Ids : IsDecided(i)
  BY EveryAnnouncementIsDecided
<1>2. (\A i \in Ids : DeliversFairly(i) /\ UpdatesFairly(i)) =>
        AllDeliverFairly /\ \A i \in Ids : UpdatesFairly(i)
  BY DEF AllDeliverFairly
<1>3. QED
  BY <1>1, <1>2 DEF IsDecided, EveryClientIsDecided, Decided
=============================================================================
