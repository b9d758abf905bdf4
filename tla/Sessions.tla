------------------------------ MODULE Sessions ------------------------------
(***************************************************************************)
(* What happens to a user once announced: the Client entity (client.h,     *)
(* client.cpp), the ClientAuthorization that asks for the password while a *)
(* periodic process counts (game/client.h, game/client.cpp), and the       *)
(* SimpleGame an authorized client gets (game/game.h, game/game.cpp).      *)
(*                                                                         *)
(* Each of the three is a component on an entity of its own, made by       *)
(* MIRAGE_CREATE_WITH_EVENT when its event is triggered.  Events triggered *)
(* with triggerEvent are handled before the call returns, so the chain     *)
(*   NewConnectionEvent -> Client -> ClientAuthorizationRequestEvent       *)
(*     -> ClientAuthorization                                              *)
(* and the chain                                                           *)
(*   ClientAuthorizationConfirmedEvent -> Client::authorized               *)
(*     -> ClientAuthorizedEvent -> SimpleGame                              *)
(* are each part of one action.  The entity, event and process machinery   *)
(* is not in this repository; it is modelled from how the code uses it.    *)
(*                                                                         *)
(* A Client, its ClientAuthorization and its SimpleGame are told apart by  *)
(* the number of the NewConnectionEvent that started them.                 *)
(***************************************************************************)
EXTENDS Wire

CONSTANTS
  Password,      \* the MessageSent body that equals the password
  NoWindow,      \* windowWidth = windowHeight = 0
  MaxUpdates     \* the value `counter` must exceed for the process to fail

ASSUME SessionsAssumption ==
  /\ Password \in Payloads
  /\ NoWindow \notin Payloads
  /\ MaxUpdates \in Nat

VARIABLES
  clients,      \* the live Client components
  copy,         \* Client::connection, a copy of the Connection's name and address
  authorized,   \* those whose Client::authorized is set
  window,       \* Client::windowWidth and windowHeight
  asking,       \* the live ClientAuthorization components, by their client
  processes,    \* the AuthorizationProcesses still scheduled, by their client
  counter,      \* AuthorizationProcess::counter
  games         \* how many SimpleGame components exist for the client

sessionVars ==
  <<clients, copy, authorized, window, asking, processes, counter, games>>

NoCopy == [username |-> EmptyName, endpoint |-> Nobody]

SessionsTypeOK ==
  /\ clients \subseteq Ids
  /\ copy \in [Ids -> [username: Usernames, endpoint: Endpoints \cup {Nobody}]]
  /\ authorized \subseteq clients
  /\ window \in [Ids -> Payloads \cup {NoWindow}]
  /\ asking \subseteq Ids
  /\ processes \subseteq Ids
  /\ counter \in [Ids -> 0 .. MaxUpdates + 2]
  /\ games \in [Ids -> Nat]

SessionsInit ==
  /\ clients = {}
  /\ copy = [i \in Ids |-> NoCopy]
  /\ authorized = {}
  /\ window = [i \in Ids |-> NoWindow]
  /\ asking = {}
  /\ processes = {}
  /\ counter = [i \in Ids |-> 0]
  /\ games = [i \in Ids |-> 0]
-----------------------------------------------------------------------------
(* Client *)

\* Mutations: without the check of the name, and of `authorized`.
UndecidedAnyName(u) == clients \ authorized
NamedClients(u) == {c \in clients : copy[c].username = u}

\* Live clients of that name whose handlers for the confirmed and the blocked
\* event do not return early.
Undecided(u) == {c \in clients \ authorized : copy[c].username = u}

\* The ClientAuthorizations whose client has been destroyed: every use of
\* their `client` wrapper is invalid.
Orphans == asking \ clients

\* Client::initialize and, inside its trigger of the request event, the
\* creation of the ClientAuthorization with its process.
ClientInitialize(i, connection) ==
  /\ clients' = clients \cup {i}
  /\ copy' = [copy EXCEPT ![i] = [username |-> connection.username,
                                  endpoint |-> connection.endpoint]]
  /\ asking' = asking \cup {i}
  /\ processes' = processes \cup {i}
  /\ counter' = [counter EXCEPT ![i] = 0]
  /\ sent' = {}
  /\ UNCHANGED <<authorized, window, games>>

\* Client::onClientInformation
OnClientInformation(u, d) ==
  /\ window' = [c \in Ids |->
       IF c \in clients /\ copy[c].username = u THEN d ELSE window[c]]
  /\ sent' = {}
  /\ UNCHANGED <<clients, copy, authorized, asking, processes, counter, games>>

\* Mutation: `authorized` is not set.
ConfirmWithoutFlag(u) ==
  /\ UNCHANGED authorized
  /\ games' = [c \in Ids |->
       IF c \in Undecided(u) THEN games[c] + 1 ELSE games[c]]

\* Client::authorizationConfirmed and the SimpleGame its event creates.
Confirm(u) ==
  /\ authorized' = authorized \cup Undecided(u)
  /\ games' = [c \in Ids |->
       IF c \in Undecided(u) THEN games[c] + 1 ELSE games[c]]

\* Client::authorizationBlocked up to the destruction of the component; the
\* disconnect its onDestroy makes is left to the module that has the list.
Block(u) ==
  /\ Undecided(u) # {}
  /\ clients' = clients \ Undecided(u)
  /\ sent' = {}
  /\ UNCHANGED <<copy, authorized, window, asking, processes, counter, games>>
-----------------------------------------------------------------------------
(* ClientAuthorization::onPacket *)

\* Every live ClientAuthorization is bound to the event; those of another user
\* return at once, but only after asking their client for its name.
Addressed(u) == {a \in asking : copy[a].username = u}

Say(S, text) == {Datagram(copy[a].endpoint, text) : a \in S}

PasswordRight(u) ==
  /\ Confirm(u)
  /\ asking' = asking \ Addressed(u)
  /\ sent' = Say(Addressed(u), "Authorized.")
  /\ UNCHANGED <<clients, copy, window, processes, counter>>

PasswordWrong(u) ==
  /\ sent' = Say(Addressed(u), "Wrong password!")
  /\ UNCHANGED sessionVars

OnMessage(u, d) ==
  /\ Orphans = {}
  /\ \/ Addressed(u) = {} /\ sent' = {} /\ UNCHANGED sessionVars
     \/ Addressed(u) # {} /\ d = Password /\ PasswordRight(u)
     \/ Addressed(u) # {} /\ d # Password /\ PasswordWrong(u)

OnMessageFaults ==
  /\ Orphans # {}
  /\ sent' = {}
  /\ UNCHANGED sessionVars
-----------------------------------------------------------------------------
(* AuthorizationProcess::update, and onFail in the same tick *)

\* The process outlived its parent or its parent's client: it fails, and onFail
\* finds nothing to do.
UpdateOrphaned(i) ==
  /\ i \notin asking \/ i \in Orphans
  /\ processes' = processes \ {i}
  /\ sent' = {}
  /\ UNCHANGED <<clients, copy, authorized, window, asking, counter, games>>

\* Mutation: onFail destroys the client instead of its ClientAuthorization.
UpdateFailsClient(i) ==
  /\ i \in asking \ Orphans
  /\ counter[i] > MaxUpdates
  /\ counter' = [counter EXCEPT ![i] = @ + 1]
  /\ clients' = clients \ {i}
  /\ processes' = processes \ {i}
  /\ sent' = Say({i}, "Authorization failed!")
  /\ UNCHANGED <<copy, authorized, window, asking, games>>

\* `counter++ > MaxUpdates`: onFail confirms the authorization, reports that it
\* failed and destroys the ClientAuthorization.
UpdateFails(i) ==
  /\ i \in asking \ Orphans
  /\ counter[i] > MaxUpdates
  /\ counter' = [counter EXCEPT ![i] = @ + 1]
  /\ Confirm(copy[i].username)
  /\ asking' = asking \ {i}
  /\ processes' = processes \ {i}
  /\ sent' = Say({i}, "Authorization failed!")
  /\ UNCHANGED <<clients, copy, window>>

\* Mutation: the update is not counted.
UpdatePromptsUncounted(i) ==
  /\ i \in asking \ Orphans
  /\ counter[i] <= MaxUpdates
  /\ sent' = Say({i}, "Enter password!")
  /\ UNCHANGED sessionVars

\* Every other update repeats the prompt.
UpdatePrompts(i) ==
  /\ i \in asking \ Orphans
  /\ counter[i] <= MaxUpdates
  /\ counter' = [counter EXCEPT ![i] = @ + 1]
  /\ sent' = IF counter'[i] % 2 = 1 THEN Say({i}, "Enter password!") ELSE {}
  /\ UNCHANGED <<clients, copy, authorized, window, asking, processes, games>>

Update(i) ==
  /\ i \in processes
  /\ UpdateOrphaned(i) \/ UpdateFails(i) \/ UpdatePrompts(i)
=============================================================================
