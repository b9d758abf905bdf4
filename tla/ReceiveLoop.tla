---------------------------- MODULE ReceiveLoop ----------------------------
(***************************************************************************)
(* The asynchronous receives of NetworkController (server.cpp):            *)
(* startReceive and handleReceiveFrom, startTcpReceive and                 *)
(* handleTcpReceiveFrom.                                                   *)
(*                                                                         *)
(* Both kinds of receive are started on the member `socket`, the UDP       *)
(* socket: an async_receive_from that fills `buffer` and the member        *)
(* `endpoint`, and one async_receive per accepted connection, which fills  *)
(* `tcpBuffer` and no endpoint.  Boost.Asio, which is not in this          *)
(* repository, performs the outstanding receives of a socket in the order  *)
(* they were started, each as soon as a datagram is there; the handler of  *)
(* a performed receive is queued and runs later, so several receives can   *)
(* have been performed before the first of their handlers runs.            *)
(*                                                                         *)
(* A datagram overwrites no more of the buffer than its own length, and    *)
(* handlePacketRaw reads the constant and the id at the head of the buffer *)
(* whatever the length was.                                                *)
(***************************************************************************)
EXTENDS Naturals, Sequences, FiniteSets, Sieve

CONSTANTS
  Endpoints,       \* the clients' addresses
  NoEndpoint,      \* the default-constructed member `endpoint`
  Sizes,           \* how much of a packet a datagram carries
  Errors,          \* how a receive can fail
  MaxDatagrams,    \* bound: how many datagrams ever arrive
  MaxAccepted,     \* bound: how many TCP receives are ever started
  MaxErrors        \* bound: how many receives fail

ASSUME ReceiveLoopAssumption ==
  /\ NoEndpoint \notin Endpoints
  /\ Sizes \subseteq {"empty", "head", "whole"}
  /\ Errors \subseteq {"reset", "other"}
  /\ MaxDatagrams \in Nat /\ MaxAccepted \in Nat /\ MaxErrors \in Nat

VARIABLES
  arriving,    \* the datagrams in the kernel's buffer of the UDP socket
  reads,       \* the outstanding receives of `socket`, in their order
  completed,   \* the performed receives whose handler has not run yet
  endpoint,    \* NetworkController::endpoint
  buffer,      \* the datagram in NetworkController::buffer
  tcpBuffer,   \* the datagram in NetworkController::tcpBuffer
  handled,     \* the calls of handlePacketRaw made so far
  arrived,     \* how many datagrams have arrived
  accepted,    \* how many TCP receives have been started by handleAccept
  failed       \* how many receives have failed

vars == <<arriving, reads, completed, endpoint, buffer, tcpBuffer, handled,
          arrived, accepted, failed>>

Datagram == [from: Endpoints, number: 1 .. MaxDatagrams, size: Sizes]

\* Where the bytes of one part of a packet come from; the zeroed bytes of a
\* buffer come from nowhere.
Zeroes == [from |-> NoEndpoint, number |-> 0]
Part == [from: Endpoints, number: 1 .. MaxDatagrams] \cup {Zeroes}

\* The head of a packet, with its constant and id, and its body.
Contents == [head: Part, body: Part]

\* A performed receive.  `sender` is history for the properties: who sent the
\* datagram it took, NoEndpoint if it failed.  The program does not keep it.
Kinds == {"udp", "tcp"}
Completion ==
  [kind: Kinds, error: Errors \cup {"none"}, size: Sizes \cup {"empty"},
   sender: Endpoints \cup {NoEndpoint}]

\* A TCP receive does not set `endpoint`, but the member never is the default
\* one when it is read: the connection the receive is for was asked for by a
\* datagram that set it.
Calls ==
  [as: Endpoints, by: Kinds, size: Sizes \cup {"empty"}, packet: Contents,
   sender: Endpoints \cup {NoEndpoint}]

TypeOK ==
  /\ arriving \in Seq(Datagram)
  /\ reads \in Seq(Kinds)
  /\ completed \in Seq(Completion)
  /\ endpoint \in Endpoints \cup {NoEndpoint}
  /\ buffer \in Contents /\ tcpBuffer \in Contents
  /\ handled \in Seq(Calls)
  /\ arrived \in 0 .. MaxDatagrams
  /\ accepted \in 0 .. MaxAccepted
  /\ failed \in 0 .. MaxErrors

\* The buffers of a NetworkController that has received nothing.
Blank == [head |-> Zeroes, body |-> Zeroes]

\* Mutation: start() is called twice.
StartedTwice == <<"udp", "udp">>

\* start() starts the first receive.
Started == <<"udp">>

Init ==
  /\ arriving = <<>>
  /\ reads = Started
  /\ completed = <<>>
  /\ endpoint = NoEndpoint
  /\ buffer = Blank
  /\ tcpBuffer = Blank
  /\ handled = <<>>
  /\ arrived = 0
  /\ accepted = 0
  /\ failed = 0
-----------------------------------------------------------------------------
(* The environment: clients and the I/O service. *)

Arrive(e, size) ==
  /\ arrived < MaxDatagrams
  /\ arrived' = arrived + 1
  /\ arriving' = Append(arriving, [from |-> e, number |-> arrived + 1,
                                  size |-> size])
  /\ UNCHANGED <<reads, completed, endpoint, buffer, tcpBuffer, handled,
                 accepted, failed>>

PartOf(d) == [from |-> d.from, number |-> d.number]

\* Mutation: what the datagram does not fill is cleared.
FilledCleared(old, d) ==
  [head |-> IF d.size \in {"head", "whole"} THEN PartOf(d) ELSE Zeroes,
   body |-> IF d.size = "whole" THEN PartOf(d) ELSE Zeroes]

\* A buffer after a datagram has been received into it.
Filled(old, d) ==
  [head |-> IF d.size \in {"head", "whole"} THEN PartOf(d) ELSE old.head,
   body |-> IF d.size = "whole" THEN PartOf(d) ELSE old.body]

\* The oldest outstanding receive takes the oldest datagram.
Perform ==
  /\ arriving # <<>> /\ reads # <<>>
  /\ arriving' = Tail(arriving)
  /\ reads' = Tail(reads)
  /\ LET d == Head(arriving) IN
     /\ completed' = Append(completed, [kind |-> Head(reads), error |-> "none",
                                       size |-> d.size, sender |-> d.from])
     /\ \/ /\ Head(reads) = "udp"
           /\ buffer' = Filled(buffer, d)
           /\ endpoint' = d.from
           /\ UNCHANGED tcpBuffer
        \/ /\ Head(reads) = "tcp"
           /\ tcpBuffer' = Filled(tcpBuffer, d)
           /\ UNCHANGED <<buffer, endpoint>>
  /\ UNCHANGED <<handled, arrived, accepted, failed>>

\* The oldest outstanding receive fails and leaves its buffer as it was.
PerformFails(error) ==
  /\ reads # <<>>
  /\ failed < MaxErrors
  /\ failed' = failed + 1
  /\ reads' = Tail(reads)
  /\ completed' = Append(completed, [kind |-> Head(reads), error |-> error,
                                    size |-> "empty", sender |-> NoEndpoint])
  /\ UNCHANGED <<arriving, endpoint, buffer, tcpBuffer, handled, arrived,
                 accepted>>
-----------------------------------------------------------------------------
(* The handlers. *)

\* handlePacketRaw(endpoint, packet), of which only the call is looked at here,
\* by the handler of the receive c.
Call(c, contents) ==
  [as |-> endpoint, by |-> c.kind, size |-> c.size, packet |-> contents,
   sender |-> c.sender]

\* Mutation: the loop is not continued.
HandleReceiveFromOnce(c) ==
  \/ c.error # "none" /\ UNCHANGED <<handled, reads>>
  \/ /\ c.error = "none"
     /\ handled' = Append(handled, Call(c, buffer))
     /\ UNCHANGED reads

\* handleReceiveFrom: an error other than message_size ends the loop.  (A
\* datagram that fails with message_size was received, and cut off.)
HandleReceiveFrom(c) ==
  \/ c.error # "none" /\ UNCHANGED <<handled, reads>>
  \/ /\ c.error = "none"
     /\ handled' = Append(handled, Call(c, buffer))
     /\ reads' = Append(reads, "udp")

\* Mutation: the wrong buffer is handled.
HandleTcpReceiveFromBuffer(c) ==
  \/ c.error = "reset" /\ UNCHANGED <<handled, reads>>
  \/ /\ c.error # "reset"
     /\ handled' = Append(handled, Call(c, buffer))
     /\ reads' = Append(reads, "tcp")

\* handleTcpReceiveFrom: only eof and connection_reset end the loop; after any
\* other error what is in the buffer is handled again.
HandleTcpReceiveFrom(c) ==
  \/ c.error = "reset" /\ UNCHANGED <<handled, reads>>
  \/ /\ c.error # "reset"
     /\ handled' = Append(handled, Call(c, tcpBuffer))
     /\ reads' = Append(reads, "tcp")

Complete ==
  /\ completed # <<>>
  /\ completed' = Tail(completed)
  /\ LET c == Head(completed) IN
     \/ c.kind = "udp" /\ HandleReceiveFrom(c)
     \/ c.kind = "tcp" /\ HandleTcpReceiveFrom(c)
  /\ UNCHANGED <<arriving, endpoint, buffer, tcpBuffer, arrived, accepted,
                 failed>>

\* Mutation: a receive is started before any connection was asked for.
StartTcpReceiveAtOnce ==
  /\ accepted < MaxAccepted
  /\ accepted' = accepted + 1
  /\ reads' = Append(reads, "tcp")
  /\ UNCHANGED <<arriving, completed, endpoint, buffer, tcpBuffer, handled,
                 arrived, failed>>

\* handleAccept, for a connection an earlier packet asked for, starts its TCP
\* receive.
StartTcpReceive ==
  /\ accepted < MaxAccepted
  /\ accepted < Len(handled)
  /\ accepted' = accepted + 1
  /\ reads' = Append(reads, "tcp")
  /\ UNCHANGED <<arriving, completed, endpoint, buffer, tcpBuffer, handled,
                 arrived, failed>>

Next ==
  \/ \E e \in Endpoints, size \in Sizes : Arrive(e, size)
  \/ Perform
  \/ \E error \in Errors : PerformFails(error)
  \/ Complete
  \/ StartTcpReceive

\* The I/O service performs receives and runs their handlers; datagrams and
\* TCP connects may stop coming.
Spec == Init /\ [][Next]_vars /\ WF_vars(Perform) /\ WF_vars(Complete)
-----------------------------------------------------------------------------
IsWhole(p) == handled[p].size = "whole"
NumberOf(p) == handled[p].packet.head.number

\* One async_receive_from is outstanding or waits for its handler, never two:
\* `buffer` and `endpoint` are written by one receive and read by its handler
\* before the next is started.  So when that handler runs, they are still the
\* datagram and the sender it was started for, and no datagram it takes is lost
\* or handled twice, whatever the TCP receives on the same socket do; and no
\* byte of a datagram that carries a whole packet is an older one's, whatever
\* shorter ones came before.
UdpCallsAreRight ==
  \A p \in DOMAIN handled : handled[p].by = "udp" /\ IsWhole(p) =>
    LET packet == handled[p].packet IN
    /\ packet.head = packet.body
    /\ handled[p].as = packet.head.from
    /\ \A q \in 1 .. p - 1 :
         handled[q].by = "udp" => NumberOf(q) < NumberOf(p)

\* The length of a datagram is not looked at: an empty one is handled as a
\* repetition of the packet that the UDP receive handed over immediately before,
\* and under the address of whoever sent the empty one, not of whoever sent that
\* packet.  Only when the receive has handed over nothing yet is the buffer blank.
\* TCP receives that are performed and handled in between change neither.
EmptyDatagramsRepeat ==
  \A p \in DOMAIN handled :
    LET earlier == {q \in 1 .. p - 1 : handled[q].by = "udp"} IN
    handled[p].by = "udp" /\ handled[p].size = "empty" =>
      /\ handled[p].as = handled[p].sender
      /\ earlier = {} => handled[p].packet = Blank
      /\ \A q \in earlier :
           (\A r \in earlier : r <= q) => handled[p].packet = handled[q].packet

\* Every receive that was started is still outstanding, waits for its handler,
\* or ended with an error: none is dropped and none is started twice.
ReceivesAreConserved ==
  LET live == Len(reads) + Len(completed) IN
  live <= 1 + accepted /\ 1 + accepted <= live + failed

\* With one accepted connection, and as long as no receive failed, the two
\* receives that take turns on the socket still hand over every datagram once
\* and in the order of arrival: each fills a buffer of its own, which is read
\* before the same receive is started again.  A second connection ends this,
\* because its receive shares tcpBuffer with the first one's.
InOrderUpToOneConnection ==
  accepted <= 1 /\ failed = 0 =>
    \A p \in DOMAIN handled : IsWhole(p) => NumberOf(p) = p

\* The comment in handleTcpReceiveFrom takes eof of its receive for the
\* disconnect of `connection`: the receive is one of that connection's stream.
\* So every packet that is handled is one of the client it is handled as.
PacketsAreAttributedToSender ==
  \A p \in DOMAIN handled :
    IsWhole(p) => handled[p].as = handled[p].packet.head.from

\* A UDP receive that has taken a packet and whose handler has not run yet.
Taken(c) == c.kind = "udp" /\ c.error = "none"

\* The packets, among datagrams of all lengths, and the calls made for them.
Waiting == Kept(completed, {c \in Completion : Taken(c) /\ c.size = "whole"})
There == Kept(arriving, {d \in Datagram : d.size = "whole"})
Handled == Kept(handled, {c \in Calls : c.by = "udp" /\ c.size = "whole"})

\* Whatever the other receives of the socket do, the UDP receive keeps the
\* promise of a mailbox.  The packet it took last is still in `buffer`.
Promise ==
  INSTANCE Mailbox WITH
    arriving <- [p \in DOMAIN Waiting |-> buffer.head]
                  \o [p \in DOMAIN There |-> PartOf(There[p])],
    handled <- [p \in DOMAIN Handled |->
                  [as |-> Handled[p].as, from |-> Handled[p].packet.head.from,
                   number |-> Handled[p].packet.head.number]],
    open <- \/ \E p \in DOMAIN reads : reads[p] = "udp"
            \/ \E p \in DOMAIN completed : Taken(completed[p])

ImplementsMailbox == Promise!Spec
=============================================================================
