-------------------------------- MODULE Wire --------------------------------
(***************************************************************************)
(* What the server's components share: the names and addresses of the      *)
(* clients, the identities of the connections, the datagrams a handler     *)
(* sends, and whether the process is still running.                        *)
(*                                                                         *)
(* main() runs every handler - network completions, delivered events,      *)
(* periodic processes - from the single call ioContext().run(), so a       *)
(* handler runs to its end before the next one starts: one handler is one  *)
(* action.  An exception that leaves a handler leaves main() as well.      *)
(***************************************************************************)
EXTENDS Naturals, Sequences, FiniteSets

CONSTANTS
  Usernames,       \* the names utils::sanitizeUsername can return
  EmptyName,       \* the one for which username.empty() holds
  Endpoints,       \* the UDP addresses of the clients
  Nobody,          \* no address: the peer of a TCP socket not yet connected
  Payloads,        \* what the body of a packet can be
  MaxConnections   \* bound: how many Connection objects are ever accepted

ASSUME WireAssumption ==
  /\ EmptyName \in Usernames
  /\ Nobody \notin Endpoints
  /\ MaxConnections \in Nat

VARIABLES
  sent,    \* the datagrams the last handler sent
  fault    \* why the process stopped, "none" while it runs

(***************************************************************************)
(* Connection objects are numbered in the order handleConnect makes them.  *)
(* A Client entity carries the number of the NewConnectionEvent that       *)
(* created it.                                                             *)
(***************************************************************************)
Ids == 1 .. MaxConnections

Running == fault = "none"

\* "accept":     remote_endpoint() threw on a socket that is not connected;
\* "connection": a null result of getConnection was dereferenced;
\* "wrapper":    the ComponentWrapper of a destroyed component was used;
\* "responder":  as "connection", in the icon responder;
\* "icon":       IconLoader threw, because the image could not be loaded.
Faults == {"none", "accept", "connection", "wrapper", "responder", "icon"}

Responses == {"success", "alreadyConnected", "unavailable", "banned"}
Texts == {"Enter password!", "Authorized.", "Wrong password!",
          "Authorization failed!"}
Datagrams == [to: Endpoints, what: Responses \cup Texts]

Datagram(e, w) == [to |-> e, what |-> w]

\* Mutation: whichever of them.
AnyOf(i, S) == i \in S

\* std::ranges::find_if on the list, and the head of a FIFO of objects: both
\* lists are in the order of the numbers, so the first is the least.
IsFirst(i, S) == i \in S /\ \A j \in S : i <= j

WireTypeOK ==
  /\ sent \subseteq Datagrams
  /\ fault \in Faults

WireInit ==
  /\ sent = {}
  /\ fault = "none"
=============================================================================
