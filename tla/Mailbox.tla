------------------------------ MODULE Mailbox ------------------------------
(***************************************************************************)
(* What the UDP receive of NetworkController promises on a socket it       *)
(* shares: of the packets that arrive at the port, those that no other     *)
(* receive takes away are handled one by one, in the order of their        *)
(* arrival, each once and each as a packet of the client that sent it,     *)
(* until the receive has failed.                                           *)
(***************************************************************************)
EXTENDS Naturals, Sequences, SequencesExt

CONSTANTS
  Endpoints,     \* the clients' addresses
  MaxDatagrams   \* bound: how many datagrams ever arrive

VARIABLES
  arriving,      \* the packets not handled yet
  handled,       \* the calls of handlePacketRaw made so far
  arrived,       \* how many datagrams have arrived
  open           \* whether the receive has not failed yet

mailboxVars == <<arriving, handled, arrived, open>>

\* handlePacketRaw(e, d): packet d is handled as one of endpoint e.
Call(e, d) == [as |-> e, from |-> d.from, number |-> d.number]

Init == arriving = <<>> /\ handled = <<>> /\ arrived = 0 /\ open = TRUE

Arrive(e) ==
  /\ arrived < MaxDatagrams
  /\ arrived' = arrived + 1
  /\ arriving' = Append(arriving, [from |-> e, number |-> arrived'])
  /\ UNCHANGED <<handled, open>>

\* A datagram that is too short for a packet is not promised anything.
ArriveShort ==
  /\ arrived < MaxDatagrams
  /\ arrived' = arrived + 1
  /\ UNCHANGED <<arriving, handled, open>>

Handle ==
  /\ open /\ arriving # <<>>
  /\ arriving' = Tail(arriving)
  /\ handled' = Append(handled, Call(Head(arriving).from, Head(arriving)))
  /\ UNCHANGED <<arrived, open>>

\* Another receive of the socket takes a packet.
Lose ==
  /\ \E p \in DOMAIN arriving : arriving' = RemoveAt(arriving, p)
  /\ UNCHANGED <<handled, arrived, open>>

Fail ==
  /\ open /\ open' = FALSE
  /\ UNCHANGED <<arriving, handled, arrived>>

Next ==
  \/ \E e \in Endpoints : Arrive(e)
  \/ ArriveShort
  \/ Handle
  \/ Lose
  \/ Fail

\* Nothing waits for ever as long as the receive has not failed.
Spec ==
  /\ Init /\ [][Next]_mailboxVars
  /\ WF_mailboxVars(Handle \/ (open /\ Lose))
=============================================================================
