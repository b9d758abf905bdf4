------------------------------- MODULE Server -------------------------------
(***************************************************************************)
(* The server as the composition of NetworkController (Network) and the    *)
(* session components (Sessions).  They meet in the event queues, which    *)
(* NetworkController fills and the sessions' handlers are bound to, and in *)
(* the calls the handlers make back: getConnection when a Client is        *)
(* created, disconnect when one is destroyed.                              *)
(***************************************************************************)
EXTENDS Network, Sessions

CONSTANT
  Blockable     \* the users for whom ClientAuthorizationBlockedEvent may be
                \* triggered; nothing in this repository triggers it

ASSUME ServerAssumption ==
  /\ Blockable \subseteq Usernames
  /\ {"message", "clientInfo"} \subseteq PacketKinds

vars == <<networkVars, sessionVars, sent, fault>>

Init == WireInit /\ NetworkInit /\ SessionsInit

TypeOK == NetworkTypeOK /\ SessionsTypeOK
-----------------------------------------------------------------------------
Network(handlers) == handlers /\ UNCHANGED sessionVars

\* A NewConnectionEvent is delivered: Client::initialize looks its connection
\* up by the name in the event, and dereferences what it finds.
DeliverNewConnection(i) ==
  /\ Running
  /\ TakeNewConnection(i)
  /\ UNCHANGED connections
  /\ LET named == Named(con[i].username) IN
     \/ \E j \in Ids : IsFirst(j, named) /\ ClientInitialize(i, con[j])
                       /\ UNCHANGED fault
     \/ /\ named = {}
        /\ fault' = "connection" /\ sent' = {}
        /\ UNCHANGED sessionVars

\* A PacketReceivedEvent<MessageSent> is delivered to every ClientAuthorization.
DeliverMessage ==
  /\ Running
  /\ TakePacket("message")
  /\ UNCHANGED connections
  /\ LET event == Head(packets["message"]) IN
     \/ OnMessage(event.username, event.payload) /\ UNCHANGED fault
     \/ OnMessageFaults /\ fault' = "wrapper"

\* A PacketReceivedEvent<ClientInformationUpdate> is delivered to every Client.
DeliverClientInfo ==
  /\ Running
  /\ TakePacket("clientInfo")
  /\ LET event == Head(packets["clientInfo"]) IN
     OnClientInformation(event.username, event.payload)
  /\ UNCHANGED <<connections, fault>>

\* The timer of PeriodMS<1000> updates a process.
UpdateProcess(i) ==
  /\ Running
  /\ Update(i)
  /\ UNCHANGED <<networkVars, fault>>

\* ClientAuthorizationBlockedEvent: the client destroys itself, and its
\* onDestroy disconnects the connection it copied.
Blocked(u) ==
  /\ Running
  /\ u \in Blockable
  /\ Block(u)
  /\ connections' = Without(u)
  /\ UNCHANGED <<con, accepts, newConnections, packets, fault>>

Next ==
  \/ Network(NetworkHandlers)
  \/ \E i \in Ids : DeliverNewConnection(i)
  \/ DeliverMessage
  \/ DeliverClientInfo
  \/ \E i \in Ids : UpdateProcess(i)
  \/ \E u \in Usernames : Blocked(u)

\* The dispatcher keeps delivering what is enqueued and the timer keeps ticking;
\* nothing makes a client send, connect or come back.
Fairness ==
  /\ \A i \in Ids : WF_vars(DeliverNewConnection(i))
  /\ \A i \in Ids : WF_vars(UpdateProcess(i))

Spec == Init /\ [][Next]_vars

FairSpec == Spec /\ Fairness
-----------------------------------------------------------------------------
\* An entry of the list has exactly one owner: the outstanding accept while it is
\* not activated, then its NewConnectionEvent, then its Client; and each of these
\* has an entry.  Nothing is left on the list that no handler knows of, and
\* nothing is removed while somebody still owns it.  (That an owner lets go of its
\* entry some day is not promised: an authorized client never does.)
EveryConnectionIsOwned ==
  Running =>
    /\ connections = accepts \cup newConnections \cup clients
    /\ accepts = {i \in connections : ~con[i].activated}
    /\ newConnections \cap clients = {}

\* Client::initialize dereferences getConnection(event.username) unchecked, one
\* delivery after handleAccept enqueued the event: the name is still listed.
ConnectionAlwaysFound == fault # "connection"

\* What a Client copied from its Connection stays true: the copy is of its own
\* connection, and that connection is on the list for as long as the Client
\* lives.  onDestroy disconnects by the copied name, sendMessage sends to the
\* copied address.
CopyIsCurrent ==
  \A c \in clients : /\ c \in connections
                     /\ copy[c].username = con[c].username
                     /\ copy[c].endpoint = con[c].endpoint

\* A client is authorized exactly when it has been given its SimpleGame, and
\* one only, although the confirmation is broadcast by name and two different
\* handlers of ClientAuthorization can send it.  A SimpleGame dereferences its
\* client on every input, so the client of a game is never destroyed.
OneGamePerAuthorizedClient ==
  \A i \in Ids : games[i] = IF i \in authorized THEN 1 ELSE 0

\* A client that is not authorized has its ClientAuthorization and the running
\* process that will decide it; one that is authorized is asked no more.
UndecidedAreAsked ==
  /\ clients \ authorized \subseteq asking \cap processes
  /\ authorized \cap asking = {}

\* As long as nobody triggers ClientAuthorizationBlockedEvent, no component is
\* used after the client it wraps was destroyed.
WrappersAreValid == fault # "wrapper" /\ Orphans = {}

\* A connection leaves the list only with its own undecided Client; authorized
\* users, users being announced and users still connecting stay.
OnlyOwnClientDisconnects ==
  [][\A i \in connections \ connections' :
       i \in clients \ authorized /\ i \notin clients']_vars

\* A client once announced is eventually authorized or destroyed, whatever its
\* user sends or does not send, unless the process stops.
EveryClientIsDecided ==
  \A i \in Ids :
    (i \in newConnections \cup (clients \ authorized))
      ~> (i \notin newConnections \cup (clients \ authorized) \/ ~Running)

\* As long as nobody triggers ClientAuthorizationBlockedEvent, a message that
\* authorizes a client was received from that client's own connection: the
\* events name their user by username, wait in a queue, and are delivered to
\* the ClientAuthorizations of all users.
PasswordIsOwn ==
  [][\A c \in authorized' \ authorized :
       c \in processes' => Head(packets["message"]).from = c]_vars

\* A packet names nobody: getConnection(endpoint) takes it for one of the oldest
\* entry of its address, whose handshake was also the first to complete.  So a
\* second name at an address is accepted, announced and prompted, but as long
\* as nobody triggers ClientAuthorizationBlockedEvent no password lets it in,
\* however the two handshakes, the messages and their deliveries interleave: it
\* is authorized by its own time-out only.
SecondNameHasNoVoice ==
  [][\A c \in authorized' \ authorized :
       (\E i \in connections : i < c /\ con[i].endpoint = con[c].endpoint)
         => c \notin processes']_vars

\* A user who was just told "Authorization failed!" is not authorized.
FailedIsNotAuthorized ==
  \A c \in authorized :
    Datagram(copy[c].endpoint, "Authorization failed!") \notin sent
-----------------------------------------------------------------------------
\* How far a user name has come, in the terms of Lifecycle.
PhaseOf(u) ==
  IF Named(u) = {} THEN "absent"
  ELSE IF \E i \in Named(u) : ~con[i].activated THEN "connecting"
  ELSE IF Named(u) \subseteq authorized THEN "authorized" ELSE "deciding"

Phase == [u \in Usernames |-> PhaseOf(u)]

Abstract == INSTANCE Lifecycle WITH phase <- Phase, running <- Running

\* The server implements Lifecycle: whatever is interleaved, a step moves one
\* name at most, a name is freed only by blocking it before it is authorized,
\* and it never moves back.
ImplementsLifecycle == Abstract!Spec
=============================================================================
