------------------------- MODULE ReceiveLoopProofs -------------------------
(***************************************************************************)
(* Proofs about ReceiveLoop, for every number of datagrams, connections    *)
(* and failures.                                                           *)
(*                                                                         *)
(* That a handler of the UDP receive sees its own datagram rests on there  *)
(* being one such receive (UdpOnce), on the numbers in the kernel's buffer *)
(* being later than anything in `buffer` (Fresh), and on nothing else      *)
(* writing `buffer` and `endpoint` until that handler runs (Pending).      *)
(*                                                                         *)
(* That one connection leaves the order of arrival alone rests on the two  *)
(* receives taking turns (TakingTurns) and on every datagram having its    *)
(* place among the calls made, the receives performed and the datagrams    *)
(* still there (Numbered).                                                 *)
(*                                                                         *)
(* That the UDP receive is a mailbox is shown step by step: MailStep is a  *)
(* step of Mailbox under the refinement mapping of ReceiveLoop!Promise.    *)
(***************************************************************************)
EXTENDS ReceiveLoop, LoopLemmas, FiniteSetTheorems

IsUdp(c) == c.kind = "udp"
Took(c) == c.kind = "udp" /\ c.error = "none"

UdpOnce ==
  /\ \A p, q \in DOMAIN reads : reads[p] = "udp" /\ reads[q] = "udp" => p = q
  /\ \A p, q \in DOMAIN completed :
       IsUdp(completed[p]) /\ IsUdp(completed[q]) => p = q
  /\ \A p \in DOMAIN reads, q \in DOMAIN completed :
       ~(reads[p] = "udp" /\ IsUdp(completed[q]))

Fresh ==
  /\ \A p \in DOMAIN arriving :
       buffer.head.number < arriving[p].number /\ arriving[p].number <= arrived
  /\ \A p, q \in DOMAIN arriving :
       p < q => arriving[p].number < arriving[q].number
  /\ buffer.head.number <= arrived
  /\ \A p \in DOMAIN handled :
       handled[p].by = "udp" => NumberOf(p) <= buffer.head.number

Pending ==
  \A p \in DOMAIN completed : Took(completed[p]) =>
    /\ endpoint \in Endpoints /\ endpoint = completed[p].sender
    /\ completed[p].size = "whole" =>
         /\ buffer.head = buffer.body
         /\ endpoint = buffer.head.from
         /\ \A q \in DOMAIN handled :
              handled[q].by = "udp" => NumberOf(q) < buffer.head.number

EndpointIsSet ==
  /\ handled # <<>> => endpoint \in Endpoints
  /\ \A p \in DOMAIN reads : reads[p] = "tcp" => handled # <<>>
  /\ \A p \in DOMAIN completed : completed[p].kind = "tcp" => handled # <<>>

\* Unless the UDP receive has filled it since, `buffer` is what was handled last.
BufferIsLast ==
  LET calls == {q \in DOMAIN handled : handled[q].by = "udp"} IN
  (\A p \in DOMAIN completed :
     Took(completed[p]) => completed[p].size = "empty")
  => /\ calls = {} => buffer = Blank
     /\ \A q \in calls : (\A r \in calls : r <= q) => buffer = handled[q].packet

\* The failed receives whose handler has not run yet.
FailuresIn(list) == {p \in DOMAIN list : list[p].error # "none"}

\* Every other receive that failed has ended its loop or started it again.
Conserved ==
  LET live == Len(reads) + Len(completed) IN
  live <= 1 + accepted
  /\ 1 + accepted + Cardinality(FailuresIn(completed)) <= live + failed

LoopInv ==
  /\ TypeOK
  /\ UdpOnce
  /\ Fresh
  /\ Pending
  /\ EndpointIsSet
  /\ BufferIsLast
  /\ UdpCallsAreRight
  /\ EmptyDatagramsRepeat
  /\ Conserved

USE ReceiveLoopAssumption DEF ReceiveLoopAssumption
-----------------------------------------------------------------------------
(* Sequences, by their positions. *)

LEMMA TailPositions ==
  ASSUME NEW S, NEW s \in Seq(S), s # <<>>
  PROVE  /\ Tail(s) \in Seq(S) /\ Len(Tail(s)) = Len(s) - 1
         /\ Len(s) \in Nat \ {0}
         /\ Head(s) \in S /\ Head(s) = s[1] /\ 1 \in DOMAIN s
         /\ DOMAIN Tail(s) = 1 .. Len(s) - 1
         /\ \A p \in DOMAIN Tail(s) : p + 1 \in DOMAIN s /\ Tail(s)[p] = s[p + 1]
BY HeadTailProperties, LenProperties, EmptySeq

LEMMA AppendPositions ==
  ASSUME NEW S, NEW s \in Seq(S), NEW e \in S
  PROVE  /\ Append(s, e) \in Seq(S) /\ Len(Append(s, e)) = Len(s) + 1
         /\ Len(s) \in Nat /\ DOMAIN s = 1 .. Len(s)
         /\ Append(s, e) # <<>>
         /\ DOMAIN Append(s, e) = DOMAIN s \cup {Len(s) + 1}
         /\ Len(s) + 1 \notin DOMAIN s
         /\ Append(s, e)[Len(s) + 1] = e
         /\ \A p \in DOMAIN s : Append(s, e)[p] = s[p]
BY AppendProperties, LenProperties

LEMMA ArrivingAreNumbered ==
  ASSUME TypeOK
  PROVE  \A p \in DOMAIN arriving : arriving[p].number \in Nat
<1>1. \A p \in DOMAIN arriving : arriving[p] \in Datagram
  BY DEF TypeOK
<1>2. \A d \in Datagram : d.number \in Nat
  BY DEF Datagram
<1>3. QED
  BY <1>1, <1>2

LEMMA HandledAreNumbered ==
  ASSUME TypeOK
  PROVE  \A p \in DOMAIN handled :
           handled[p].packet \in Contents /\ NumberOf(p) \in Nat
<1>1. \A p \in DOMAIN handled : handled[p] \in Calls
  BY DEF TypeOK
<1>2. \A c \in Calls : c.packet \in Contents
  BY DEF Calls
<1>3. \A d \in Contents : d.head.number \in Nat
  BY DEF Contents, Part, Zeroes
<1>4. QED
  BY <1>1, <1>2, <1>3 DEF NumberOf
-----------------------------------------------------------------------------
LEMMA FailuresAreFinite ==
  ASSUME NEW s \in Seq(Completion)
  PROVE  IsFiniteSet(FailuresIn(s)) /\ Cardinality(FailuresIn(s)) \in Nat
<1>1. DOMAIN s = 1 .. Len(s) /\ Len(s) \in Nat
  BY LenProperties
<1>2. IsFiniteSet(DOMAIN s)
  BY <1>1, FS_Interval
<1>3. FailuresIn(s) \in SUBSET (DOMAIN s)
  BY DEF FailuresIn
<1>4. IsFiniteSet(FailuresIn(s))
  BY <1>2, <1>3, FS_Subset
<1>5. QED
  BY <1>4, FS_CardinalityType

LEMMA FailuresAppended ==
  ASSUME NEW s \in Seq(Completion), NEW c \in Completion
  PROVE  /\ IsFiniteSet(FailuresIn(s)) /\ Cardinality(FailuresIn(s)) \in Nat
         /\ Cardinality(FailuresIn(Append(s, c))) =
              Cardinality(FailuresIn(s)) + (IF c.error # "none" THEN 1 ELSE 0)
<1> DEFINE t == Append(s, c)
<1>2. IsFiniteSet(FailuresIn(s)) /\ Cardinality(FailuresIn(s)) \in Nat
  BY FailuresAreFinite
<1>3. /\ DOMAIN t = DOMAIN s \cup {Len(s) + 1} /\ Len(s) + 1 \notin DOMAIN s
      /\ t[Len(s) + 1] = c
      /\ \A p \in DOMAIN s : t[p] = s[p]
  BY AppendPositions
<1> HIDE DEF t
<1>4. CASE c.error # "none"
  <2>1. FailuresIn(t) = FailuresIn(s) \cup {Len(s) + 1}
    BY <1>3, <1>4 DEF FailuresIn
  <2>2. Len(s) + 1 \notin FailuresIn(s)
    BY <1>3 DEF FailuresIn
  <2>3. Cardinality(FailuresIn(t)) = Cardinality(FailuresIn(s)) + 1
    BY <1>2, <2>1, <2>2, FS_AddElement
  <2>4. QED
    BY <1>2, <1>4, <2>3 DEF t
<1>5. CASE c.error = "none"
  <2>1. FailuresIn(t) = FailuresIn(s)
    BY <1>3, <1>5 DEF FailuresIn
  <2>2. QED
    BY <1>2, <1>5, <2>1 DEF t
<1>6. QED
  BY <1>4, <1>5

LEMMA FailuresTaken ==
  ASSUME NEW s \in Seq(Completion), s # <<>>
  PROVE  /\ Cardinality(FailuresIn(s)) \in Nat
         /\ Cardinality(FailuresIn(Tail(s))) =
              Cardinality(FailuresIn(s)) - (IF s[1].error # "none" THEN 1 ELSE 0)
<1> DEFINE t == Tail(s)
<1> DEFINE F == FailuresIn(t)
<1> DEFINE G == FailuresIn(s) \ {1}
<1> DEFINE next == [p \in F |-> p + 1]
<1>1. /\ DOMAIN t = 1 .. Len(s) - 1 /\ Len(s) \in Nat \ {0}
      /\ DOMAIN s = 1 .. Len(s) /\ 1 \in DOMAIN s
      /\ \A p \in DOMAIN t : p + 1 \in DOMAIN s /\ t[p] = s[p + 1]
  BY TailPositions, LenProperties
<1>2. IsFiniteSet(FailuresIn(s)) /\ Cardinality(FailuresIn(s)) \in Nat
  BY FailuresAreFinite
<1>3. IsFiniteSet(F)
  BY FailuresAreFinite, TailPositions
<1> HIDE DEF t
<1>4. \A p \in F : p \in Nat /\ p + 1 \in G
  BY <1>1 DEF FailuresIn
<1>5. \A q \in G : q - 1 \in F /\ next[q - 1] = q
  BY <1>1 DEF FailuresIn
<1>6. next \in [F -> G] /\ \A p, q \in F : next[p] = next[q] => p = q
  BY <1>4
<1> HIDE DEF F, G, next
<1>7. next \in Bijection(F, G)
  BY <1>5, <1>6 DEF Bijection, Injection, Surjection, IsInjective
<1>8. Cardinality(F) = Cardinality(G)
  BY <1>3, <1>7, FS_Bijection DEF ExistsBijection
<1>9. Cardinality(G) = Cardinality(FailuresIn(s)) - (IF s[1].error # "none" THEN 1 ELSE 0)
  <2>1. 1 \in FailuresIn(s) <=> s[1].error # "none"
    BY <1>1 DEF FailuresIn
  <2>2. Cardinality(G) = IF 1 \in FailuresIn(s) THEN Cardinality(FailuresIn(s)) - 1
                         ELSE Cardinality(FailuresIn(s))
    BY <1>2, FS_RemoveElement DEF G
  <2>3. QED
    BY <1>2, <2>1, <2>2
<1>10. QED
  BY <1>2, <1>8, <1>9 DEF F, t
-----------------------------------------------------------------------------
LEMMA LoopInit == Init => LoopInv
<1> SUFFICES ASSUME Init PROVE LoopInv
  OBVIOUS
<1>1. /\ arriving = <<>> /\ completed = <<>> /\ handled = <<>>
      /\ reads = <<"udp">>
      /\ buffer = [head |-> Zeroes, body |-> Zeroes] /\ tcpBuffer = buffer
      /\ endpoint = NoEndpoint /\ arrived = 0 /\ accepted = 0 /\ failed = 0
  BY DEF Init, Started, Blank
<1>2. reads \in Seq(Kinds) /\ Len(reads) = 1
  BY <1>1 DEF Kinds
<1>3. TypeOK
  BY <1>1, <1>2 DEF TypeOK, Contents, Part, Zeroes
<1>4. UdpOnce /\ Fresh /\ Pending /\ EndpointIsSet /\ BufferIsLast
  BY <1>1 DEF UdpOnce, Fresh, Pending, EndpointIsSet, BufferIsLast, Zeroes, Blank
<1>5. UdpCallsAreRight /\ EmptyDatagramsRepeat
  BY <1>1 DEF UdpCallsAreRight, EmptyDatagramsRepeat
<1>c. Conserved
  BY <1>1, <1>2, FS_EmptySet DEF Conserved, FailuresIn
<1>6. QED
  BY <1>3, <1>4, <1>5, <1>c DEF LoopInv

LEMMA LoopArrive ==
  ASSUME LoopInv, NEW e \in Endpoints, NEW size \in Sizes, Arrive(e, size)
  PROVE  LoopInv'
<1> DEFINE d == [from |-> e, number |-> arrived + 1, size |-> size]
<1>1. /\ arrived' = arrived + 1 /\ arrived' \in 0 .. MaxDatagrams
      /\ arrived \in Nat /\ d \in Datagram /\ d.number = arrived + 1
      /\ arriving' = Append(arriving, d)
      /\ arriving \in Seq(Datagram)
      /\ UNCHANGED <<reads, completed, endpoint, buffer, tcpBuffer, handled,
                     accepted, failed>>
  BY DEF Arrive, LoopInv, TypeOK, Datagram
<1> HIDE DEF d
<1>2. /\ arriving' \in Seq(Datagram)
      /\ DOMAIN arriving' = DOMAIN arriving \cup {Len(arriving) + 1}
      /\ Len(arriving) \in Nat /\ DOMAIN arriving = 1 .. Len(arriving)
      /\ arriving'[Len(arriving) + 1] = d
      /\ \A p \in DOMAIN arriving : arriving'[p] = arriving[p]
  BY <1>1, AppendPositions
<1>3. TypeOK'
  BY <1>1, <1>2 DEF LoopInv, TypeOK
<1>4. Fresh'
  <2>1. buffer.head.number \in Nat
    BY DEF LoopInv, TypeOK, Contents, Part, Zeroes
  <2>2. \A p \in DOMAIN arriving : arriving[p].number \in Nat
    BY ArrivingAreNumbered DEF LoopInv
  <2>3. Fresh
    BY DEF LoopInv
  <2>4. buffer' = buffer /\ handled' = handled /\ \A p : NumberOf(p)' = NumberOf(p)
    BY <1>1 DEF NumberOf
  <2>5. buffer'.head.number <= arrived'
    BY <1>1, <2>1, <2>3, <2>4 DEF Fresh
  <2>6. \A p \in DOMAIN arriving' :
          buffer'.head.number < arriving'[p].number /\ arriving'[p].number <= arrived'
    BY <1>1, <1>2, <2>1, <2>2, <2>3, <2>4 DEF Fresh
  <2>7. \A p, q \in DOMAIN arriving' :
          p < q => arriving'[p].number < arriving'[q].number
    BY <1>1, <1>2, <2>2, <2>3 DEF Fresh
  <2>8. QED
    BY <2>3, <2>4, <2>5, <2>6, <2>7 DEF Fresh
<1>5. (UdpOnce /\ Pending /\ EndpointIsSet /\ BufferIsLast)'
  BY <1>1 DEF LoopInv, UdpOnce, Pending, EndpointIsSet, BufferIsLast, NumberOf
<1>6. (UdpCallsAreRight /\ EmptyDatagramsRepeat /\ Conserved)'
  BY <1>1 DEF LoopInv, UdpCallsAreRight, EmptyDatagramsRepeat, IsWhole, NumberOf,
     Conserved
<1>7. QED
  BY <1>3, <1>4, <1>5, <1>6 DEF LoopInv

LEMMA LoopStartTcp ==
  ASSUME LoopInv, StartTcpReceive
  PROVE  LoopInv'
<1>1. /\ accepted < MaxAccepted /\ accepted < Len(handled)
      /\ accepted' = accepted + 1 /\ accepted \in Nat
      /\ reads' = Append(reads, "tcp") /\ reads \in Seq(Kinds) /\ "tcp" \in Kinds
      /\ UNCHANGED <<arriving, completed, endpoint, buffer, tcpBuffer, handled,
                     arrived, failed>>
  BY DEF StartTcpReceive, LoopInv, TypeOK, Kinds
<1>2. /\ reads' \in Seq(Kinds) /\ Len(reads') = Len(reads) + 1
      /\ Len(reads) \in Nat
      /\ DOMAIN reads' = DOMAIN reads \cup {Len(reads) + 1}
      /\ reads'[Len(reads) + 1] = "tcp"
      /\ \A p \in DOMAIN reads : reads'[p] = reads[p]
  BY <1>1, AppendPositions
<1>3. handled # <<>>
  BY <1>1 DEF LoopInv, TypeOK
<1>4. TypeOK'
  BY <1>1, <1>2 DEF LoopInv, TypeOK
<1>5. UdpOnce'
  BY <1>1, <1>2 DEF LoopInv, UdpOnce
<1>6. (Fresh /\ Pending /\ BufferIsLast)'
  BY <1>1 DEF LoopInv, Fresh, Pending, BufferIsLast, NumberOf
<1>7. EndpointIsSet'
  BY <1>1, <1>2, <1>3 DEF LoopInv, EndpointIsSet
<1>8. (UdpCallsAreRight /\ EmptyDatagramsRepeat)'
  BY <1>1 DEF LoopInv, UdpCallsAreRight, EmptyDatagramsRepeat, IsWhole, NumberOf
<1>9. Conserved'
  <2>1. Len(completed) \in Nat /\ failed \in Nat
    BY DEF LoopInv, TypeOK
  <2>2. completed \in Seq(Completion)
    BY DEF LoopInv, TypeOK
  <2>3. Cardinality(FailuresIn(completed)) \in Nat
    BY <2>2, FailuresAreFinite
  <2>4. QED
    BY <1>1, <1>2, <2>1, <2>3 DEF LoopInv, Conserved
<1>10. QED
  BY <1>4, <1>5, <1>6, <1>7, <1>8, <1>9 DEF LoopInv

LEMMA LoopPerform ==
  ASSUME LoopInv, Perform
  PROVE  LoopInv'
<1> DEFINE d == Head(arriving)
<1> DEFINE k == Head(reads)
<1> DEFINE c == [kind |-> k, error |-> "none", size |-> d.size,
              sender |-> d.from]
<1>1. /\ arriving' = Tail(arriving) /\ reads' = Tail(reads)
      /\ arriving \in Seq(Datagram) /\ arriving # <<>>
      /\ reads \in Seq(Kinds) /\ reads # <<>>
      /\ completed \in Seq(Completion) /\ completed' = Append(completed, c)
      /\ UNCHANGED <<handled, arrived, accepted, failed>>
  BY DEF Perform, LoopInv, TypeOK
<1>2. \/ /\ k = "udp" /\ buffer' = Filled(buffer, d) /\ endpoint' = d.from
         /\ UNCHANGED tcpBuffer
      \/ /\ k = "tcp" /\ tcpBuffer' = Filled(tcpBuffer, d)
         /\ UNCHANGED <<buffer, endpoint>>
  BY DEF Perform
<1>3. /\ arriving' \in Seq(Datagram) /\ d \in Datagram
      /\ d = arriving[1] /\ 1 \in DOMAIN arriving
      /\ \A p \in DOMAIN arriving' :
           p \in Nat /\ p > 0 /\ p + 1 \in DOMAIN arriving /\ arriving'[p] = arriving[p + 1]
  BY <1>1, TailPositions
<1>4. /\ reads' \in Seq(Kinds) /\ k \in Kinds /\ k = reads[1] /\ 1 \in DOMAIN reads
      /\ Len(reads') = Len(reads) - 1 /\ Len(reads) \in Nat
      /\ \A p \in DOMAIN reads' :
           p \in Nat /\ p > 0 /\ p + 1 \in DOMAIN reads /\ reads'[p] = reads[p + 1]
  BY <1>1, TailPositions
<1>5. c \in Completion
  BY <1>3, <1>4 DEF Completion, Datagram
<1>c. c.kind = k /\ c.error = "none" /\ c.size = d.size /\ c.sender = d.from
  OBVIOUS
<1> HIDE DEF c, k, d
<1>6. /\ completed' \in Seq(Completion) /\ Len(completed') = Len(completed) + 1
      /\ Len(completed) \in Nat
      /\ DOMAIN completed' = DOMAIN completed \cup {Len(completed) + 1}
      /\ completed'[Len(completed) + 1] = c
      /\ \A p \in DOMAIN completed : completed'[p] = completed[p]
  BY <1>1, <1>5, AppendPositions
<1>7. /\ PartOf(d) \in Part /\ PartOf(d).from = d.from
      /\ PartOf(d).number = d.number /\ d.number \in Nat /\ d.from \in Endpoints
      /\ d.number > 0
  BY <1>3 DEF PartOf, Part, Datagram
<1>8. \A old \in Contents :
        /\ Filled(old, d) \in Contents
        /\ Filled(old, d).head \in {old.head, PartOf(d)}
        /\ d.size = "whole" => /\ Filled(old, d).head = PartOf(d)
                              /\ Filled(old, d).body = PartOf(d)
        /\ d.size = "empty" => Filled(old, d) = old
  BY <1>7 DEF Contents, Filled
<1>9. /\ buffer \in Contents /\ tcpBuffer \in Contents
      /\ buffer.head.number \in Nat /\ arrived \in Nat
  BY DEF LoopInv, TypeOK, Contents, Part, Zeroes
<1>10. buffer' \in Contents /\ tcpBuffer' \in Contents
       /\ endpoint' \in Endpoints \cup {NoEndpoint}
       /\ (endpoint \in Endpoints => endpoint' \in Endpoints)
  BY <1>2, <1>7, <1>8, <1>9 DEF LoopInv, TypeOK
<1>11. TypeOK'
  BY <1>1, <1>3, <1>4, <1>6, <1>10 DEF LoopInv, TypeOK
<1>12. UdpOnce'
  <2>1. UdpOnce
    BY DEF LoopInv
  <2>2. \A p, q \in DOMAIN reads' : reads'[p] = "udp" /\ reads'[q] = "udp" => p = q
    BY <1>4, <2>1 DEF UdpOnce
  <2>3. k = "udp" => \A p \in DOMAIN reads' : reads'[p] # "udp"
    <3>1. ASSUME k = "udp", NEW p \in DOMAIN reads', reads'[p] = "udp"
          PROVE  FALSE
      <4>1. p + 1 \in DOMAIN reads /\ reads[p + 1] = "udp" /\ p + 1 # 1
        BY <1>4, <3>1
      <4>2. 1 \in DOMAIN reads /\ reads[1] = "udp"
        BY <1>4, <3>1
      <4>3. QED
        BY <2>1, <4>1, <4>2 DEF UdpOnce
    <3>2. QED
      BY <3>1
  <2>4. k = "udp" => \A q \in DOMAIN completed : ~IsUdp(completed[q])
    BY <1>4, <2>1 DEF UdpOnce
  <2>5. \A p, q \in DOMAIN completed' :
          IsUdp(completed'[p]) /\ IsUdp(completed'[q]) => p = q
    BY <1>6, <1>c, <2>1, <2>4 DEF UdpOnce, IsUdp
  <2>6. \A p \in DOMAIN reads', q \in DOMAIN completed' :
          ~(reads'[p] = "udp" /\ IsUdp(completed'[q]))
    BY <1>4, <1>6, <1>c, <2>1, <2>3 DEF UdpOnce, IsUdp
  <2>7. QED
    BY <2>2, <2>5, <2>6 DEF UdpOnce
<1>13. /\ buffer.head.number < d.number /\ d.number <= arrived
       /\ \A p \in DOMAIN arriving' :
            /\ arriving'[p].number \in Nat
            /\ d.number < arriving'[p].number /\ arriving'[p].number <= arrived
  <2>1. \A p \in DOMAIN arriving : arriving[p].number \in Nat
    BY ArrivingAreNumbered DEF LoopInv
  <2>2. QED
    BY <1>3, <2>1 DEF LoopInv, Fresh
<1>14. /\ buffer'.head.number \in Nat
       /\ buffer.head.number <= buffer'.head.number
       /\ buffer'.head.number <= d.number
  BY <1>2, <1>7, <1>8, <1>9, <1>13
<1>15. handled' = handled /\ \A p : NumberOf(p)' = NumberOf(p)
  BY <1>1 DEF NumberOf
<1>n. \A p \in DOMAIN handled : NumberOf(p) \in Nat
  BY HandledAreNumbered DEF LoopInv
<1>16. Fresh'
  <2>1. \A p \in DOMAIN arriving' :
          buffer'.head.number < arriving'[p].number /\ arriving'[p].number <= arrived'
    BY <1>1, <1>7, <1>9, <1>13, <1>14
  <2>2. \A p, q \in DOMAIN arriving' :
          p < q => arriving'[p].number < arriving'[q].number
    BY <1>3 DEF LoopInv, Fresh
  <2>3. \A p \in DOMAIN handled' :
          handled'[p].by = "udp" => NumberOf(p)' <= buffer'.head.number
    BY <1>9, <1>14, <1>15, <1>n DEF LoopInv, Fresh
  <2>4. buffer'.head.number <= arrived'
    BY <1>1, <1>7, <1>9, <1>13, <1>14
  <2>5. QED
    BY <2>1, <2>2, <2>3, <2>4 DEF Fresh
<1>17. Pending'
  <2>1. CASE k = "udp"
    <3>1. buffer' = Filled(buffer, d) /\ endpoint' = d.from
      BY <1>2, <2>1
    <3>2. \A p \in DOMAIN completed : ~Took(completed[p])
      <4>1. UdpOnce /\ 1 \in DOMAIN reads /\ reads[1] = "udp"
        BY <1>4, <2>1 DEF LoopInv
      <4>2. QED
        BY <4>1 DEF UdpOnce, IsUdp, Took
    <3>3. c.size = "whole" =>
            /\ buffer'.head = PartOf(d) /\ buffer'.body = PartOf(d)
            /\ \A q \in DOMAIN handled :
                 handled[q].by = "udp" => NumberOf(q) < d.number
      BY <1>8, <1>9, <1>13, <1>c, <1>n, <1>7, <3>1 DEF LoopInv, Fresh
    <3>4. QED
      BY <1>6, <1>7, <1>c, <1>15, <3>1, <3>2, <3>3 DEF Pending, Took
  <2>2. CASE k = "tcp"
    <3>1. buffer' = buffer /\ endpoint' = endpoint
      BY <1>2, <2>2
    <3>2. ~Took(c)
      BY <1>c, <2>2 DEF Took
    <3>3. QED
      BY <1>6, <1>15, <3>1, <3>2 DEF LoopInv, Pending
  <2>3. QED
    BY <2>1, <2>2, <1>2
<1>18. EndpointIsSet'
  BY <1>4, <1>6, <1>c, <1>10, <1>15 DEF LoopInv, EndpointIsSet
<1>19. BufferIsLast'
  <2>1. CASE k = "udp" /\ d.size # "empty"
    BY <1>6, <1>c, <2>1 DEF BufferIsLast, Took
  <2>2. CASE k = "udp" /\ d.size = "empty"
    <3>1. buffer' = buffer
      BY <1>2, <1>8, <1>9, <2>2
    <3>2. QED
      BY <1>6, <1>15, <3>1 DEF LoopInv, BufferIsLast
  <2>3. CASE k = "tcp"
    <3>1. buffer' = buffer
      BY <1>2, <2>3
    <3>2. QED
      BY <1>6, <1>15, <3>1 DEF LoopInv, BufferIsLast
  <2>4. QED
    BY <1>2, <2>1, <2>2, <2>3
<1>20. (UdpCallsAreRight /\ EmptyDatagramsRepeat)'
  BY <1>15 DEF LoopInv, UdpCallsAreRight, EmptyDatagramsRepeat, IsWhole
<1>21. Conserved'
  <2>1. Cardinality(FailuresIn(completed')) = Cardinality(FailuresIn(completed))
        /\ Cardinality(FailuresIn(completed)) \in Nat
    BY <1>1, <1>5, <1>c, FailuresAppended
  <2>2. accepted \in Nat /\ failed \in Nat
    BY DEF LoopInv, TypeOK
  <2>3. QED
    BY <1>1, <1>4, <1>6, <2>1, <2>2 DEF LoopInv, Conserved
<1>22. QED
  BY <1>11, <1>12, <1>16, <1>17, <1>18, <1>19, <1>20, <1>21 DEF LoopInv

LEMMA LoopPerformFails ==
  ASSUME LoopInv, NEW error \in Errors, PerformFails(error)
  PROVE  LoopInv'
<1> DEFINE k == Head(reads)
<1> DEFINE c == [kind |-> k, error |-> error, size |-> "empty",
              sender |-> NoEndpoint]
<1>1. /\ reads' = Tail(reads) /\ reads \in Seq(Kinds) /\ reads # <<>>
      /\ completed \in Seq(Completion) /\ completed' = Append(completed, c)
      /\ failed' = failed + 1 /\ failed < MaxErrors /\ failed \in Nat
      /\ UNCHANGED <<arriving, endpoint, buffer, tcpBuffer, handled, arrived,
                     accepted>>
  BY DEF PerformFails, LoopInv, TypeOK
<1>2. /\ reads' \in Seq(Kinds) /\ k \in Kinds /\ k = reads[1] /\ 1 \in DOMAIN reads
      /\ Len(reads') = Len(reads) - 1 /\ Len(reads) \in Nat
      /\ \A p \in DOMAIN reads' :
           p \in Nat /\ p > 0 /\ p + 1 \in DOMAIN reads /\ reads'[p] = reads[p + 1]
  BY <1>1, TailPositions
<1>3. c \in Completion
  BY <1>2 DEF Completion
<1>c. c.kind = k /\ c.error # "none"
  OBVIOUS
<1> HIDE DEF c, k
<1>4. /\ completed' \in Seq(Completion) /\ Len(completed') = Len(completed) + 1
      /\ Len(completed) \in Nat
      /\ DOMAIN completed' = DOMAIN completed \cup {Len(completed) + 1}
      /\ completed'[Len(completed) + 1] = c
      /\ \A p \in DOMAIN completed : completed'[p] = completed[p]
  BY <1>1, <1>3, AppendPositions
<1>5. TypeOK'
  BY <1>1, <1>2, <1>4 DEF LoopInv, TypeOK
<1>6. UdpOnce'
  <2>1. UdpOnce
    BY DEF LoopInv
  <2>2. \A p, q \in DOMAIN reads' : reads'[p] = "udp" /\ reads'[q] = "udp" => p = q
    BY <1>2, <2>1 DEF UdpOnce
  <2>3. k = "udp" => \A p \in DOMAIN reads' : reads'[p] # "udp"
    <3>1. ASSUME k = "udp", NEW p \in DOMAIN reads', reads'[p] = "udp"
          PROVE  FALSE
      <4>1. p + 1 \in DOMAIN reads /\ reads[p + 1] = "udp" /\ p + 1 # 1
        BY <1>2, <3>1
      <4>2. 1 \in DOMAIN reads /\ reads[1] = "udp"
        BY <1>2, <3>1
      <4>3. QED
        BY <2>1, <4>1, <4>2 DEF UdpOnce
    <3>2. QED
      BY <3>1
  <2>4. k = "udp" => \A q \in DOMAIN completed : ~IsUdp(completed[q])
    BY <1>2, <2>1 DEF UdpOnce
  <2>5. \A p, q \in DOMAIN completed' :
          IsUdp(completed'[p]) /\ IsUdp(completed'[q]) => p = q
    BY <1>4, <1>c, <2>1, <2>4 DEF UdpOnce, IsUdp
  <2>6. \A p \in DOMAIN reads', q \in DOMAIN completed' :
          ~(reads'[p] = "udp" /\ IsUdp(completed'[q]))
    BY <1>2, <1>4, <1>c, <2>1, <2>3 DEF UdpOnce, IsUdp
  <2>7. QED
    BY <2>2, <2>5, <2>6 DEF UdpOnce
<1>7. ~Took(c)
  BY <1>c DEF Took
<1>8. (Fresh /\ UdpCallsAreRight /\ EmptyDatagramsRepeat)'
  BY <1>1 DEF LoopInv, Fresh, UdpCallsAreRight, EmptyDatagramsRepeat, IsWhole,
     NumberOf
<1>9. Pending'
  BY <1>1, <1>4, <1>7 DEF LoopInv, Pending, NumberOf
<1>10. EndpointIsSet'
  BY <1>1, <1>2, <1>4, <1>c DEF LoopInv, EndpointIsSet
<1>11. BufferIsLast'
  BY <1>1, <1>4, <1>7 DEF LoopInv, BufferIsLast, NumberOf
<1>12. Conserved'
  <2>1. Cardinality(FailuresIn(completed')) = Cardinality(FailuresIn(completed)) + 1
        /\ Cardinality(FailuresIn(completed)) \in Nat
    BY <1>1, <1>3, <1>c, FailuresAppended
  <2>2. accepted \in Nat
    BY DEF LoopInv, TypeOK
  <2>3. QED
    BY <1>1, <1>2, <1>4, <2>1, <2>2 DEF LoopInv, Conserved
<1>13. QED
  BY <1>5, <1>6, <1>8, <1>9, <1>10, <1>11, <1>12 DEF LoopInv
-----------------------------------------------------------------------------
\* What every handler does first, and all it does after an error that ends its
\* loop.
LEMMA CompletedIsTaken ==
  ASSUME LoopInv, Complete
  PROVE  /\ Head(completed) = completed[1] /\ 1 \in DOMAIN completed
         /\ Head(completed) \in Completion
         /\ completed' \in Seq(Completion)
         /\ Len(completed') = Len(completed) - 1 /\ Len(completed) \in Nat \ {0}
         /\ \A p \in DOMAIN completed' :
              /\ p \in Nat /\ p > 0 /\ p + 1 \in DOMAIN completed
              /\ completed'[p] = completed[p + 1]
         /\ UNCHANGED <<arriving, endpoint, buffer, tcpBuffer, arrived, accepted,
                        failed>>
<1>1. completed \in Seq(Completion) /\ completed # <<>> /\ completed' = Tail(completed)
  BY DEF LoopInv, TypeOK, Complete
<1>2. UNCHANGED <<arriving, endpoint, buffer, tcpBuffer, arrived, accepted, failed>>
  BY DEF Complete
<1>3. QED
  BY <1>1, <1>2, TailPositions

LEMMA NoOtherUdp ==
  ASSUME LoopInv, Complete, Head(completed).kind = "udp"
  PROVE  /\ \A p \in DOMAIN completed' : ~IsUdp(completed'[p])
         /\ \A p \in DOMAIN reads : reads[p] # "udp"
<1>1. UdpOnce
  BY DEF LoopInv
<1>2. ASSUME NEW p \in DOMAIN completed', IsUdp(completed'[p])
      PROVE  FALSE
  <2>1. p + 1 \in DOMAIN completed /\ IsUdp(completed[p + 1]) /\ p + 1 # 1
    BY <1>2, CompletedIsTaken
  <2>2. 1 \in DOMAIN completed /\ IsUdp(completed[1])
    BY CompletedIsTaken DEF IsUdp
  <2>3. QED
    BY <1>1, <2>1, <2>2 DEF UdpOnce
<1>3. \A p \in DOMAIN reads : reads[p] # "udp"
  BY <1>1, CompletedIsTaken DEF UdpOnce, IsUdp
<1>4. QED
  BY <1>2, <1>3

LEMMA LoopEnds ==
  ASSUME LoopInv, Complete, UNCHANGED <<handled, reads>>,
         Head(completed).error # "none"
  PROVE  LoopInv'
<1>1. TypeOK'
  BY CompletedIsTaken DEF LoopInv, TypeOK
<1>2. UdpOnce'
  <2>1. \A p, q \in DOMAIN completed' :
          IsUdp(completed'[p]) /\ IsUdp(completed'[q]) => p = q
    BY CompletedIsTaken DEF LoopInv, UdpOnce
  <2>2. QED
    BY <2>1, CompletedIsTaken DEF LoopInv, UdpOnce
<1>3. (Fresh /\ UdpCallsAreRight /\ EmptyDatagramsRepeat)'
  BY CompletedIsTaken
     DEF LoopInv, Fresh, UdpCallsAreRight, EmptyDatagramsRepeat, IsWhole, NumberOf
<1>4. Pending'
  BY CompletedIsTaken DEF LoopInv, Pending, NumberOf
<1>5. EndpointIsSet'
  BY CompletedIsTaken DEF LoopInv, EndpointIsSet
<1>6. BufferIsLast'
  <2>1. \A p \in DOMAIN completed :
          \/ ~Took(completed[p])
          \/ \E q \in DOMAIN completed' : completed'[q] = completed[p]
    <3>1. TAKE p \in DOMAIN completed
    <3>2. CASE p = 1
      BY <3>2, CompletedIsTaken DEF Took
    <3>3. CASE p # 1
      <4>1. p \in 1 .. Len(completed) /\ p - 1 \in 1 .. Len(completed')
        BY <3>3, CompletedIsTaken DEF LoopInv, TypeOK
      <4>2. p - 1 \in DOMAIN completed'
        BY <4>1, CompletedIsTaken
      <4>3. completed'[p - 1] = completed[p]
        BY <4>1, <4>2, CompletedIsTaken
      <4>4. QED
        BY <4>2, <4>3
    <3>4. QED
      BY <3>2, <3>3
  <2>2. buffer' = buffer /\ handled' = handled
    BY CompletedIsTaken
  <2>3. QED
    BY <2>1, <2>2 DEF LoopInv, BufferIsLast, NumberOf
<1>7. Conserved'
  <2>1. completed \in Seq(Completion) /\ completed # <<>> /\ completed' = Tail(completed)
    BY DEF LoopInv, TypeOK, Complete
  <2>2. Cardinality(FailuresIn(completed')) = Cardinality(FailuresIn(completed)) - 1
        /\ Cardinality(FailuresIn(completed)) \in Nat
    BY <2>1, CompletedIsTaken, FailuresTaken
  <2>3. accepted \in Nat /\ failed \in Nat /\ Len(reads) \in Nat
    BY DEF LoopInv, TypeOK
  <2>4. QED
    BY <2>2, <2>3, CompletedIsTaken DEF LoopInv, Conserved
<1>8. QED
  BY <1>1, <1>2, <1>3, <1>4, <1>5, <1>6, <1>7 DEF LoopInv

\* A handler that hands a packet over and starts its receive again.
LEMMA LoopGoesOn ==
  ASSUME LoopInv, Complete, NEW contents \in Contents,
         LET c == Head(completed) IN
         /\ handled' = Append(handled, Call(c, contents))
         /\ reads' = Append(reads, c.kind)
         /\ c.kind = "udp" => c.error = "none" /\ contents = buffer
  PROVE  LoopInv'
<1> DEFINE c == Head(completed)
<1> DEFINE call == Call(c, contents)
<1>0. PICK n : n = Len(handled) + 1
  OBVIOUS
<1>1. /\ c \in Completion /\ c.kind \in Kinds /\ c.size \in Sizes \cup {"empty"}
      /\ c.sender \in Endpoints \cup {NoEndpoint}
      /\ 1 \in DOMAIN completed /\ c = completed[1]
  BY CompletedIsTaken DEF Completion
<1>2. endpoint \in Endpoints
  <2>1. CASE c.kind = "udp"
    BY <1>1, <2>1 DEF LoopInv, Pending, Took
  <2>2. CASE c.kind = "tcp"
    BY <1>1, <2>2 DEF LoopInv, EndpointIsSet
  <2>3. QED
    BY <1>1, <2>1, <2>2 DEF Kinds
<1>3. call \in Calls
  BY <1>1, <1>2 DEF Call, Calls
<1>c. /\ call.by = c.kind /\ call.size = c.size /\ call.packet = contents
      /\ call.as = endpoint /\ call.sender = c.sender
  BY DEF Call
<1>4. handled' = Append(handled, call) /\ reads' = Append(reads, c.kind)
  OBVIOUS
<1> HIDE DEF c, call
<1>5. handled \in Seq(Calls) /\ reads \in Seq(Kinds)
  BY DEF LoopInv, TypeOK
<1>6. /\ handled' \in Seq(Calls) /\ handled' # <<>>
      /\ DOMAIN handled = 1 .. Len(handled) /\ Len(handled) \in Nat
      /\ DOMAIN handled' = DOMAIN handled \cup {n} /\ n \notin DOMAIN handled
      /\ handled'[n] = call
      /\ \A p \in DOMAIN handled : handled'[p] = handled[p]
  BY <1>0, <1>3, <1>4, <1>5, AppendPositions
<1>7. /\ reads' \in Seq(Kinds) /\ Len(reads') = Len(reads) + 1 /\ Len(reads) \in Nat
      /\ DOMAIN reads' = DOMAIN reads \cup {Len(reads) + 1}
      /\ reads'[Len(reads) + 1] = c.kind
      /\ \A p \in DOMAIN reads : reads'[p] = reads[p]
  BY <1>1, <1>4, <1>5, AppendPositions
<1>8. \A p \in DOMAIN handled : handled'[p] = handled[p] /\ p # n
  BY <1>6
<1>9. /\ \A p \in DOMAIN handled : handled[p].packet.head.number \in Nat
      /\ contents.head.number \in Nat /\ buffer.head.number \in Nat
      /\ buffer \in Contents
  <2>1. \A d \in Contents : d.head.number \in Nat
    BY DEF Contents, Part, Zeroes
  <2>2. QED
    BY <2>1, HandledAreNumbered DEF LoopInv, TypeOK, NumberOf
<1>10. TypeOK'
  BY <1>6, <1>7, CompletedIsTaken DEF LoopInv, TypeOK
<1>11. UdpOnce'
  <2>1. UdpOnce
    BY DEF LoopInv
  <2>2. c.kind = "udp" => /\ \A p \in DOMAIN completed' : ~IsUdp(completed'[p])
                         /\ \A p \in DOMAIN reads : reads[p] # "udp"
    BY NoOtherUdp DEF c
  <2>3. \A p, q \in DOMAIN reads' : reads'[p] = "udp" /\ reads'[q] = "udp" => p = q
    BY <1>7, <2>1, <2>2 DEF UdpOnce
  <2>4. \A p, q \in DOMAIN completed' :
          IsUdp(completed'[p]) /\ IsUdp(completed'[q]) => p = q
    BY <2>1, CompletedIsTaken DEF UdpOnce
  <2>5. \A p \in DOMAIN reads', q \in DOMAIN completed' :
          ~(reads'[p] = "udp" /\ IsUdp(completed'[q]))
    BY <1>7, <2>1, <2>2, CompletedIsTaken DEF UdpOnce
  <2>6. QED
    BY <2>3, <2>4, <2>5 DEF UdpOnce
<1>12. Fresh'
  <2>1. \A p \in DOMAIN handled' :
          handled'[p].by = "udp" => handled'[p].packet.head.number <= buffer.head.number
    BY <1>c, <1>6, <1>8, <1>9 DEF LoopInv, Fresh, NumberOf, c
  <2>2. QED
    BY <2>1, CompletedIsTaken DEF LoopInv, Fresh, NumberOf
<1>13. Pending'
  <2>1. CASE c.kind = "udp"
    BY <2>1, NoOtherUdp DEF Pending, Took, IsUdp, NumberOf, c
  <2>2. CASE c.kind = "tcp"
    <3>1. call.by # "udp"
      BY <1>c, <2>2
    <3>2. \A p \in DOMAIN completed' : Took(completed'[p]) =>
            /\ endpoint \in Endpoints /\ endpoint = completed'[p].sender
            /\ completed'[p].size = "whole" =>
                 /\ buffer.head = buffer.body /\ endpoint = buffer.head.from
                 /\ \A q \in DOMAIN handled :
                      handled[q].by = "udp" => handled[q].packet.head.number < buffer.head.number
      BY CompletedIsTaken DEF LoopInv, Pending, NumberOf
    <3>3. QED
      BY <1>6, <1>8, <3>1, <3>2, CompletedIsTaken DEF Pending, NumberOf
  <2>3. QED
    BY <1>1, <2>1, <2>2 DEF Kinds
<1>14. EndpointIsSet'
  BY <1>2, <1>6, CompletedIsTaken DEF EndpointIsSet
<1>15. BufferIsLast'
  <2>1. CASE c.kind = "udp"
    <3>1. handled'[n].by = "udp" /\ handled'[n].packet = buffer' /\ n \in DOMAIN handled'
      BY <1>c, <1>6, <2>1, CompletedIsTaken DEF c
    <3>2. \A q \in DOMAIN handled' : n <= q => q = n
      BY <1>0, <1>6
    <3>3. QED
      BY <3>1, <3>2 DEF BufferIsLast
  <2>2. CASE c.kind = "tcp"
    <3>1. \A p \in DOMAIN completed : Took(completed[p]) =>
            \E q \in DOMAIN completed' : completed'[q] = completed[p]
      <4>1. TAKE p \in DOMAIN completed
      <4>2. CASE p = 1
        BY <1>1, <2>2, <4>2 DEF Took
      <4>3. CASE p # 1
        <5>1. p \in 1 .. Len(completed) /\ p - 1 \in 1 .. Len(completed')
          <6>1. completed \in Seq(Completion)
            BY DEF LoopInv, TypeOK
          <6>2. DOMAIN completed = 1 .. Len(completed)
            BY <6>1, LenProperties
          <6>3. Len(completed') = Len(completed) - 1 /\ Len(completed) \in Nat \ {0}
            BY CompletedIsTaken
          <6>4. QED
            BY <4>3, <6>2, <6>3
        <5>2. p - 1 \in DOMAIN completed'
          BY <5>1, CompletedIsTaken
        <5>3. completed'[p - 1] = completed[p]
          BY <5>1, <5>2, CompletedIsTaken
        <5>4. QED
          BY <5>2, <5>3
      <4>4. QED
        BY <4>2, <4>3
    <3>2. handled'[n].by # "udp" /\ buffer' = buffer
      BY <1>c, <1>6, <2>2, CompletedIsTaken
    <3>3. QED
      <4>1. {q \in DOMAIN handled' : handled'[q].by = "udp"}
              = {q \in DOMAIN handled : handled[q].by = "udp"}
        BY <1>6, <1>8, <3>2
      <4>2. QED
        BY <1>8, <3>1, <3>2, <4>1 DEF LoopInv, BufferIsLast
  <2>3. QED
    BY <1>1, <2>1, <2>2 DEF Kinds
<1>16. UdpCallsAreRight'
  <2>1. \A p \in DOMAIN handled : handled[p].by = "udp" /\ handled[p].size = "whole" =>
          /\ handled[p].packet.head = handled[p].packet.body
          /\ handled[p].as = handled[p].packet.head.from
          /\ \A q \in 1 .. p - 1 : handled[q].by = "udp" => handled[q].packet.head.number < handled[p].packet.head.number
    BY DEF LoopInv, UdpCallsAreRight, IsWhole, NumberOf
  <2>2. handled'[n].by = "udp" /\ handled'[n].size = "whole" =>
          /\ contents.head = contents.body
          /\ endpoint = contents.head.from
          /\ \A q \in DOMAIN handled :
               handled[q].by = "udp" => handled[q].packet.head.number < contents.head.number
    BY <1>1, <1>6, <1>8, <1>c DEF LoopInv, Pending, Took, NumberOf, c
  <2>3. \A p \in DOMAIN handled : \A q \in 1 .. p - 1 : q \in DOMAIN handled
    BY <1>6
  <2>4. \A q \in 1 .. n - 1 : q \in DOMAIN handled
    BY <1>0, <1>6
  <2>5. ASSUME NEW p \in DOMAIN handled
        PROVE  handled'[p].by = "udp" /\ handled'[p].size = "whole" =>
                 /\ handled'[p].packet.head = handled'[p].packet.body
                 /\ handled'[p].as = handled'[p].packet.head.from
                 /\ \A q \in 1 .. p - 1 :
                      handled'[q].by = "udp" => handled'[q].packet.head.number < handled'[p].packet.head.number
    BY <1>6, <1>8, <2>1, <2>3
  <2>6. handled'[n].by = "udp" /\ handled'[n].size = "whole" =>
                 /\ handled'[n].packet.head = handled'[n].packet.body
                 /\ handled'[n].as = handled'[n].packet.head.from
                 /\ \A q \in 1 .. n - 1 :
                      handled'[q].by = "udp" => handled'[q].packet.head.number < handled'[n].packet.head.number
    BY <1>6, <1>8, <1>c, <2>2, <2>4
  <2>7. QED
    BY <1>6, <2>5, <2>6 DEF UdpCallsAreRight, IsWhole, NumberOf
<1>17. EmptyDatagramsRepeat'
  <2> DEFINE before(p) == {q \in 1 .. p - 1 : handled'[q].by = "udp"}
  <2> DEFINE calls == {q \in DOMAIN handled : handled[q].by = "udp"}
  <2>1. ASSUME NEW p \in DOMAIN handled, handled'[p].by = "udp",
               handled'[p].size = "empty"
        PROVE  /\ handled'[p].as = handled'[p].sender
               /\ before(p) = {} => handled'[p].packet = Blank
               /\ \A q \in before(p) : (\A r \in before(p) : r <= q) =>
                    handled'[p].packet = handled'[q].packet
    <3>1. before(p) = {q \in 1 .. p - 1 : handled[q].by = "udp"}
      BY <1>6, <1>8
    <3>2. \A q \in before(p) : handled'[q] = handled[q]
      BY <1>6, <1>8
    <3>3. EmptyDatagramsRepeat /\ handled'[p] = handled[p]
      BY <1>8 DEF LoopInv
    <3> DEFINE earlier == {q \in 1 .. p - 1 : handled[q].by = "udp"}
    <3>4. /\ handled[p].as = handled[p].sender
          /\ earlier = {} => handled[p].packet = Blank
          /\ \A q \in earlier : (\A r \in earlier : r <= q) =>
               handled[p].packet = handled[q].packet
      BY <2>1, <3>3 DEF EmptyDatagramsRepeat
    <3>5. before(p) = earlier
      BY <3>1
    <3> HIDE DEF before, earlier
    <3>6. \A q \in before(p) : (\A r \in before(p) : r <= q) =>
            handled[p].packet = handled'[q].packet
      BY <3>2, <3>4, <3>5, Zenon
    <3>7. QED
      BY <3>3, <3>4, <3>5, <3>6
  <2>2. ASSUME call.by = "udp", call.size = "empty"
        PROVE  /\ handled'[n].as = handled'[n].sender
               /\ before(n) = {} => handled'[n].packet = Blank
               /\ \A q \in before(n) : (\A r \in before(n) : r <= q) =>
                    handled'[n].packet = handled'[q].packet
    <3>1. before(n) = calls
      BY <1>0, <1>6, <1>8
    <3>2. \A q \in calls : handled'[q] = handled[q]
      BY <1>8
    <3>3. \A p \in DOMAIN completed : Took(completed[p]) => completed[p].size = "empty"
      <4>1. c.kind = "udp" /\ c.size = "empty"
        BY <1>c, <2>2
      <4>2. \A p \in DOMAIN completed : IsUdp(completed[p]) => p = 1
        BY <1>1, <4>1 DEF LoopInv, UdpOnce, IsUdp
      <4>3. QED
        BY <1>1, <4>1, <4>2 DEF Took, IsUdp
    <3>4. contents = buffer /\ endpoint = c.sender
      BY <1>1, <1>c, <2>2 DEF LoopInv, Pending, Took, c
    <3>5. /\ calls = {} => buffer = Blank
          /\ \A q \in calls : (\A r \in calls : r <= q) => buffer = handled[q].packet
      BY <3>3 DEF LoopInv, BufferIsLast
    <3> HIDE DEF before, calls
    <3>6. QED
      BY <1>6, <1>c, <3>1, <3>2, <3>4, <3>5
  <2>3. \A p \in DOMAIN handled' : handled'[p].by = "udp" /\ handled'[p].size = "empty" =>
          /\ handled'[p].as = handled'[p].sender
          /\ before(p) = {} => handled'[p].packet = Blank
          /\ \A q \in before(p) : (\A r \in before(p) : r <= q) =>
               handled'[p].packet = handled'[q].packet
    <3> HIDE DEF before
    <3>1. TAKE p \in DOMAIN handled'
    <3>2. CASE p \in DOMAIN handled
      BY <2>1, <3>2
    <3>3. CASE p = n
      <4>1. handled'[p] = call
        BY <1>6, <3>3
      <4>2. QED
        BY <2>2, <3>3, <4>1
    <3>4. QED
      BY <1>6, <3>2, <3>3
  <2>4. QED
    BY <2>3 DEF EmptyDatagramsRepeat
<1>18. Conserved'
  <2>1. completed \in Seq(Completion) /\ completed # <<>> /\ completed' = Tail(completed)
    BY DEF LoopInv, TypeOK, Complete
  <2>2. Cardinality(FailuresIn(completed')) <= Cardinality(FailuresIn(completed))
        /\ Cardinality(FailuresIn(completed)) \in Nat
        /\ Cardinality(FailuresIn(completed')) \in Int
    BY <2>1, FailuresTaken
  <2>3. accepted \in Nat /\ failed \in Nat
    BY DEF LoopInv, TypeOK
  <2>4. /\ Len(completed') = Len(completed) - 1 /\ Len(completed) \in Nat \ {0}
        /\ Len(reads') = Len(reads) + 1 /\ Len(reads) \in Nat
    <3>1. Len(completed') = Len(completed) - 1 /\ Len(completed) \in Nat \ {0}
      BY CompletedIsTaken
    <3>2. QED
      BY <1>7, <3>1
  <2>5. accepted' = accepted /\ failed' = failed
    BY CompletedIsTaken
  <2>6. QED
    BY <1>7, <2>2, <2>3, <2>4, <2>5 DEF LoopInv, Conserved
<1>19. QED
  BY <1>10, <1>11, <1>12, <1>13, <1>14, <1>15, <1>16, <1>17, <1>18 DEF LoopInv
LEMMA LoopNext == LoopInv /\ [Next]_vars => LoopInv'
<1> SUFFICES ASSUME LoopInv, [Next]_vars PROVE LoopInv'
  OBVIOUS
<1>1. ASSUME NEW e \in Endpoints, NEW size \in Sizes, Arrive(e, size)
      PROVE  LoopInv'
  BY <1>1, LoopArrive
<1>2. CASE Perform
  BY <1>2, LoopPerform
<1>3. ASSUME NEW error \in Errors, PerformFails(error)
      PROVE  LoopInv'
  BY <1>3, LoopPerformFails
<1>4. CASE Complete
  <2> DEFINE c == Head(completed)
  <2>1. \/ c.kind = "udp" /\ HandleReceiveFrom(c)
        \/ c.kind = "tcp" /\ HandleTcpReceiveFrom(c)
    BY <1>4 DEF Complete
  <2>2. buffer \in Contents /\ tcpBuffer \in Contents
    BY DEF LoopInv, TypeOK
  <2>3. CASE UNCHANGED <<handled, reads>> /\ c.error # "none"
    BY <1>4, <2>3, LoopEnds
  <2>4. CASE /\ c.kind = "udp" /\ c.error = "none"
             /\ handled' = Append(handled, Call(c, buffer))
             /\ reads' = Append(reads, c.kind)
    BY <1>4, <2>2, <2>4, LoopGoesOn
  <2>5. CASE /\ c.kind = "tcp"
             /\ handled' = Append(handled, Call(c, tcpBuffer))
             /\ reads' = Append(reads, c.kind)
    BY <1>4, <2>2, <2>5, LoopGoesOn
  <2>6. QED
    BY <2>1, <2>3, <2>4, <2>5 DEF HandleReceiveFrom, HandleTcpReceiveFrom
<1>5. CASE StartTcpReceive
  BY <1>5, LoopStartTcp
<1>6. CASE UNCHANGED vars
  <2>1. UNCHANGED <<arriving, reads, completed, endpoint, buffer, tcpBuffer,
                    handled, arrived, accepted, failed>>
    BY <1>6 DEF vars
  <2>2. (TypeOK /\ UdpOnce /\ Fresh /\ Pending)'
    BY <2>1 DEF LoopInv, TypeOK, UdpOnce, Fresh, Pending, NumberOf
  <2>3. (EndpointIsSet /\ BufferIsLast /\ Conserved)'
    BY <2>1 DEF LoopInv, EndpointIsSet, BufferIsLast, Conserved, NumberOf
  <2>4. (UdpCallsAreRight /\ EmptyDatagramsRepeat)'
    BY <2>1 DEF LoopInv, UdpCallsAreRight, EmptyDatagramsRepeat, IsWhole, NumberOf
  <2>5. QED
    BY <2>2, <2>3, <2>4 DEF LoopInv
<1>7. QED
  BY <1>1, <1>2, <1>3, <1>4, <1>5, <1>6 DEF Next

LEMMA LoopInvariant == Spec => []LoopInv
BY LoopInit, LoopNext, PTL DEF Spec
-----------------------------------------------------------------------------
\* Every buffer, list and count of the receive loops stays in its type; in
\* particular no packet is ever handled under the default-constructed endpoint.
THEOREM LoopTypes == Spec => []TypeOK
<1>1. LoopInv => TypeOK
  BY DEF LoopInv
<1>2. QED
  BY <1>1, LoopInvariant, PTL

\* However many TCP receives compete for the socket's datagrams, the handler of
\* the UDP receive always sees its own whole datagram, its own sender, and a
\* later datagram than every one handed over before.
THEOREM UdpHandlersSeeTheirOwn == Spec => []UdpCallsAreRight
<1>1. LoopInv => UdpCallsAreRight
  BY DEF LoopInv
<1>2. QED
  BY <1>1, LoopInvariant, PTL

\* An empty datagram is always handled as a repetition of a packet handled
\* before, or of the zeroed buffer.
THEOREM EmptyDatagramsAreRepetitions == Spec => []EmptyDatagramsRepeat
<1>1. LoopInv => EmptyDatagramsRepeat
  BY DEF LoopInv
<1>2. QED
  BY <1>1, LoopInvariant, PTL

\* handleReceiveFrom, handleTcpReceiveFrom and handleAccept never drop a receive
\* loop but after an error and never start one twice.
THEOREM ReceivesConserved == Spec => []ReceivesAreConserved
<1>1. ASSUME LoopInv PROVE ReceivesAreConserved
  <2>1. completed \in Seq(Completion) /\ reads \in Seq(Kinds)
        /\ accepted \in Nat /\ failed \in Nat
    BY <1>1 DEF LoopInv, TypeOK
  <2>2. Cardinality(FailuresIn(completed)) \in Nat
    BY <2>1, FailuresAreFinite
  <2>3. Len(reads) \in Nat /\ Len(completed) \in Nat
    BY <2>1, LenProperties
  <2>4. QED
    BY <1>1, <2>1, <2>2, <2>3 DEF LoopInv, Conserved, ReceivesAreConserved
<1>2. QED
  BY <1>1, LoopInvariant, PTL
-----------------------------------------------------------------------------
(* With one accepted connection, everything is handled in order. *)

\* Each receive is started again only when its handler has run.
TakingTurns ==
  /\ \A p, q \in DOMAIN reads : reads[p] = reads[q] => p = q
  /\ \A p, q \in DOMAIN completed : completed[p].kind = completed[q].kind => p = q
  /\ \A p \in DOMAIN reads, q \in DOMAIN completed : reads[p] # completed[q].kind
  /\ accepted = 0 => /\ \A p \in DOMAIN reads : reads[p] # "tcp"
                     /\ \A p \in DOMAIN completed : completed[p].kind # "tcp"

\* The calls made, the receives performed and the datagrams that wait are, in
\* this order, all that arrived.
Numbered ==
  /\ arrived = Len(handled) + Len(completed) + Len(arriving)
  /\ \A p \in DOMAIN handled : handled[p].size = "whole" => NumberOf(p) = p
  /\ \A p \in DOMAIN completed :
       /\ completed[p].error = "none"
       /\ completed[p].size = "whole" =>
            /\ completed[p].kind = "udp" => buffer.head.number = Len(handled) + p
            /\ completed[p].kind = "tcp" => tcpBuffer.head.number = Len(handled) + p
  /\ \A p \in DOMAIN arriving :
       arriving[p].number = Len(handled) + Len(completed) + p

OrderInv == accepted <= 1 /\ failed = 0 => TakingTurns /\ Numbered
-----------------------------------------------------------------------------
LEMMA OrderInit == Init => OrderInv
<1> SUFFICES ASSUME Init PROVE OrderInv
  OBVIOUS
<1>1. /\ arriving = <<>> /\ completed = <<>> /\ handled = <<>>
      /\ reads = <<"udp">> /\ arrived = 0
  BY DEF Init, Started, Blank
<1>2. TakingTurns
  BY <1>1 DEF TakingTurns
<1>3. Numbered
  BY <1>1 DEF Numbered
<1>4. QED
  BY <1>2, <1>3 DEF OrderInv

LEMMA OrderArrive ==
  ASSUME TypeOK, TakingTurns, Numbered, NEW e \in Endpoints, NEW size \in Sizes,
         Arrive(e, size)
  PROVE  TakingTurns' /\ Numbered'
<1> DEFINE d == [from |-> e, number |-> arrived + 1, size |-> size]
<1>1. /\ arrived' = arrived + 1 /\ arrived \in Nat
      /\ d \in Datagram /\ d.number = arrived + 1
      /\ arriving' = Append(arriving, d) /\ arriving \in Seq(Datagram)
      /\ UNCHANGED <<reads, completed, buffer, tcpBuffer, handled, accepted>>
  BY DEF Arrive, TypeOK, Datagram
<1> HIDE DEF d
<1>2. /\ Len(arriving') = Len(arriving) + 1 /\ Len(arriving) \in Nat
      /\ DOMAIN arriving' = DOMAIN arriving \cup {Len(arriving) + 1}
      /\ DOMAIN arriving = 1 .. Len(arriving)
      /\ arriving'[Len(arriving) + 1] = d
      /\ \A p \in DOMAIN arriving : arriving'[p] = arriving[p]
  BY <1>1, AppendPositions
<1>3. Len(handled) \in Nat /\ Len(completed) \in Nat
  BY DEF TypeOK
<1>4. TakingTurns'
  BY <1>1 DEF TakingTurns
<1>5. Numbered'
  <2>1. arrived' = Len(handled') + Len(completed') + Len(arriving')
    BY <1>1, <1>2, <1>3 DEF Numbered
  <2>2. \A p \in DOMAIN arriving' :
          arriving'[p].number = Len(handled') + Len(completed') + p
    <3>1. \A p \in DOMAIN arriving : arriving[p].number = Len(handled) + Len(completed) + p
      BY DEF Numbered
    <3>2. d.number = Len(handled) + Len(completed) + (Len(arriving) + 1)
      BY <1>1, <1>2, <1>3 DEF Numbered
    <3>3. handled' = handled /\ completed' = completed
      BY <1>1
    <3>4. QED
      BY <1>2, <3>1, <3>2, <3>3
  <2>3. QED
    BY <1>1, <2>1, <2>2 DEF Numbered, NumberOf
<1>6. QED
  BY <1>4, <1>5

LEMMA OrderPerform ==
  ASSUME TypeOK, TakingTurns, Numbered, Perform
  PROVE  TakingTurns' /\ Numbered'
<1> DEFINE d == Head(arriving)
<1> DEFINE k == Head(reads)
<1> DEFINE c == [kind |-> k, error |-> "none", size |-> d.size,
              sender |-> d.from]
<1>1. /\ arriving' = Tail(arriving) /\ reads' = Tail(reads)
      /\ arriving \in Seq(Datagram) /\ arriving # <<>>
      /\ reads \in Seq(Kinds) /\ reads # <<>>
      /\ completed \in Seq(Completion) /\ completed' = Append(completed, c)
      /\ handled \in Seq(Calls)
      /\ UNCHANGED <<handled, arrived, accepted>>
  BY DEF Perform, TypeOK
<1>2. \/ k = "udp" /\ buffer' = Filled(buffer, d) /\ UNCHANGED tcpBuffer
      \/ k = "tcp" /\ tcpBuffer' = Filled(tcpBuffer, d) /\ UNCHANGED buffer
  BY DEF Perform
<1>3. /\ d \in Datagram /\ d = arriving[1] /\ 1 \in DOMAIN arriving
      /\ Len(arriving') = Len(arriving) - 1 /\ Len(arriving) \in Nat \ {0}
      /\ \A p \in DOMAIN arriving' :
           p \in Nat /\ p > 0 /\ p + 1 \in DOMAIN arriving /\ arriving'[p] = arriving[p + 1]
  BY <1>1, TailPositions
<1>4. /\ k \in Kinds /\ k = reads[1] /\ 1 \in DOMAIN reads
      /\ \A p \in DOMAIN reads' :
           p \in Nat /\ p > 0 /\ p + 1 \in DOMAIN reads /\ reads'[p] = reads[p + 1]
  BY <1>1, TailPositions
<1>5. c \in Completion /\ c.kind = k /\ c.error = "none" /\ c.size = d.size
  BY <1>3, <1>4 DEF Completion, Datagram
<1> HIDE DEF c, k, d
<1>6. /\ Len(completed') = Len(completed) + 1 /\ Len(completed) \in Nat
      /\ DOMAIN completed' = DOMAIN completed \cup {Len(completed) + 1}
      /\ completed'[Len(completed) + 1] = c
      /\ \A p \in DOMAIN completed : completed'[p] = completed[p]
  BY <1>1, <1>5, AppendPositions
<1>7. Len(handled) \in Nat
  BY <1>1
<1>8. TakingTurns'
  <2>1. TakingTurns
    OBVIOUS
  <2>2. \A p, q \in DOMAIN reads' : reads'[p] = reads'[q] => p = q
    BY <1>4, <2>1 DEF TakingTurns
  <2>3. \A p \in DOMAIN reads' : reads'[p] # k
    <3> SUFFICES ASSUME NEW p \in DOMAIN reads', reads'[p] = k PROVE FALSE
      OBVIOUS
    <3>1. p + 1 \in DOMAIN reads /\ reads[p + 1] = reads[1] /\ p + 1 # 1
      BY <1>4
    <3>2. QED
      BY <1>4, <2>1, <3>1 DEF TakingTurns
  <2>4. \A q \in DOMAIN completed : completed[q].kind # k
    BY <1>4, <2>1 DEF TakingTurns
  <2>5. \A p, q \in DOMAIN completed' : completed'[p].kind = completed'[q].kind => p = q
    BY <1>5, <1>6, <2>1, <2>4 DEF TakingTurns
  <2>6. \A p \in DOMAIN reads', q \in DOMAIN completed' : reads'[p] # completed'[q].kind
    BY <1>4, <1>5, <1>6, <2>1, <2>3 DEF TakingTurns
  <2>7. accepted' = 0 => /\ \A p \in DOMAIN reads' : reads'[p] # "tcp"
                         /\ \A p \in DOMAIN completed' : completed'[p].kind # "tcp"
    BY <1>1, <1>4, <1>5, <1>6, <2>1 DEF TakingTurns
  <2>8. QED
    BY <2>2, <2>5, <2>6, <2>7 DEF TakingTurns
<1>9. d.size = "whole" =>
        /\ k = "udp" => buffer'.head.number = Len(handled) + (Len(completed) + 1)
        /\ k = "tcp" => tcpBuffer'.head.number = Len(handled) + (Len(completed) + 1)
  <2>1. d.number = Len(handled) + (Len(completed) + 1)
    BY <1>3, <1>6, <1>7 DEF Numbered
  <2>2. d.size = "whole" => /\ Filled(buffer, d).head.number = d.number
                            /\ Filled(tcpBuffer, d).head.number = d.number
    BY DEF Filled, PartOf
  <2>3. QED
    BY <1>2, <2>1, <2>2
<1>10. \A q \in DOMAIN completed :
         /\ completed[q].kind = "udp" => buffer' = buffer
         /\ completed[q].kind = "tcp" => tcpBuffer' = tcpBuffer
  <2>1. \A q \in DOMAIN completed : completed[q].kind # k
    BY <1>4 DEF TakingTurns
  <2>2. QED
    BY <1>2, <2>1
<1>11. Numbered'
  <2>1. arrived' = Len(handled') + Len(completed') + Len(arriving')
    BY <1>1, <1>3, <1>6, <1>7 DEF Numbered
  <2>2. \A p \in DOMAIN arriving' :
          arriving'[p].number = Len(handled') + Len(completed') + p
    <3> TAKE p \in DOMAIN arriving'
    <3>1. arriving[p + 1].number = Len(handled) + Len(completed) + (p + 1)
      BY <1>3 DEF Numbered
    <3>2. p \in Nat /\ Len(completed') = Len(completed) + 1 /\ handled' = handled
          /\ arriving'[p] = arriving[p + 1]
      BY <1>1, <1>3, <1>6
    <3>3. QED
      BY <1>6, <1>7, <3>1, <3>2
  <2>3. \A p \in DOMAIN handled' : handled'[p].size = "whole" => NumberOf(p)' = p
    BY <1>1 DEF Numbered, NumberOf
  <2>4. \A p \in DOMAIN completed' :
          /\ completed'[p].error = "none"
          /\ completed'[p].size = "whole" =>
               /\ completed'[p].kind = "udp" => buffer'.head.number = Len(handled') + p
               /\ completed'[p].kind = "tcp" => tcpBuffer'.head.number = Len(handled') + p
    <3> TAKE p \in DOMAIN completed'
    <3>1. handled' = handled
      BY <1>1
    <3>2. CASE p \in DOMAIN completed
      BY <1>6, <1>10, <3>1, <3>2 DEF Numbered
    <3>3. CASE p = Len(completed) + 1
      BY <1>5, <1>6, <1>9, <3>1, <3>3
    <3>4. QED
      BY <1>6, <3>2, <3>3
  <2>5. QED
    BY <2>1, <2>2, <2>3, <2>4 DEF Numbered
<1>12. QED
  BY <1>8, <1>11

LEMMA OrderComplete ==
  ASSUME LoopInv, TakingTurns, Numbered, Complete
  PROVE  TakingTurns' /\ Numbered'
<1> DEFINE c == Head(completed)
<1> DEFINE contents == IF c.kind = "udp" THEN buffer ELSE tcpBuffer
<1> DEFINE call == Call(c, contents)
<1>0. PICK n : n = Len(handled) + 1
  OBVIOUS
<1>1. /\ c = completed[1] /\ 1 \in DOMAIN completed /\ c \in Completion
      /\ Len(completed') = Len(completed) - 1 /\ Len(completed) \in Nat \ {0}
      /\ \A p \in DOMAIN completed' :
           /\ p \in Nat /\ p > 0 /\ p + 1 \in DOMAIN completed
           /\ completed'[p] = completed[p + 1]
      /\ UNCHANGED <<arriving, buffer, tcpBuffer, arrived, accepted>>
  BY CompletedIsTaken
<1>2. /\ c.error = "none" /\ c.kind \in Kinds
      /\ c.size = "whole" => contents.head.number = Len(handled) + 1
  BY <1>1 DEF Numbered, Completion, Kinds
<1>3. handled' = Append(handled, call) /\ reads' = Append(reads, c.kind)
  BY <1>2 DEF Complete, HandleReceiveFrom, HandleTcpReceiveFrom
<1>4. call.size = c.size /\ call.packet = contents
  BY DEF Call
<1>5. handled \in Seq(Calls) /\ handled' \in Seq(Calls) /\ reads \in Seq(Kinds)
      /\ Len(arriving) \in Nat
  <2>1. LoopInv'
    BY LoopNext DEF Next
  <2>2. QED
    BY <2>1 DEF LoopInv, TypeOK
<1>6. c.kind \in Kinds
  BY <1>1 DEF Completion
<1> HIDE DEF c, call, contents
<1>7. /\ DOMAIN reads' = DOMAIN reads \cup {Len(reads) + 1}
      /\ reads'[Len(reads) + 1] = c.kind
      /\ \A p \in DOMAIN reads : reads'[p] = reads[p]
  BY <1>3, <1>5, <1>6, AppendPositions
<1>8. /\ Len(handled) \in Nat /\ Len(handled') = n /\ n = Len(handled) + 1
      /\ DOMAIN handled' = DOMAIN handled \cup {n}
      /\ handled'[n] = call
      /\ \A p \in DOMAIN handled : handled'[p] = handled[p]
  <2>1. handled' = handled \o <<call>>
    BY <1>3
  <2>2. /\ Len(handled') = Len(handled) + 1 /\ Len(handled) \in Nat
        /\ handled'[Len(handled) + 1] = call
        /\ \A p \in 1 .. Len(handled) : handled'[p] = handled[p]
    BY <1>3, <1>5
  <2>3. DOMAIN handled = 1 .. Len(handled) /\ DOMAIN handled' = 1 .. Len(handled')
    BY <1>5, LenProperties
  <2>4. QED
    BY <1>0, <2>2, <2>3
<1>9. TakingTurns'
  <2>1. TakingTurns
    OBVIOUS
  <2>2. \A p \in DOMAIN reads : reads[p] # c.kind
    BY <1>1, <2>1 DEF TakingTurns
  <2>3. \A p \in DOMAIN completed' : completed'[p].kind # c.kind
    <3> SUFFICES ASSUME NEW p \in DOMAIN completed', completed'[p].kind = c.kind
                 PROVE FALSE
      OBVIOUS
    <3>1. p + 1 \in DOMAIN completed /\ completed[p + 1].kind = completed[1].kind /\ p + 1 # 1
      BY <1>1
    <3>2. QED
      BY <1>1, <2>1, <3>1 DEF TakingTurns
  <2>4. \A p, q \in DOMAIN reads' : reads'[p] = reads'[q] => p = q
    BY <1>7, <2>1, <2>2 DEF TakingTurns
  <2>5. \A p, q \in DOMAIN completed' : completed'[p].kind = completed'[q].kind => p = q
    BY <1>1, <2>1 DEF TakingTurns
  <2>6. \A p \in DOMAIN reads', q \in DOMAIN completed' : reads'[p] # completed'[q].kind
    BY <1>1, <1>7, <2>1, <2>3 DEF TakingTurns
  <2>7. accepted' = 0 => /\ \A p \in DOMAIN reads' : reads'[p] # "tcp"
                         /\ \A p \in DOMAIN completed' : completed'[p].kind # "tcp"
    BY <1>1, <1>7, <2>1 DEF TakingTurns
  <2>8. QED
    BY <2>4, <2>5, <2>6, <2>7 DEF TakingTurns
<1>10. Numbered'
  <2>1. arrived' = Len(handled') + Len(completed') + Len(arriving')
    BY <1>1, <1>5, <1>8 DEF Numbered
  <2>2. \A p \in DOMAIN arriving' :
          arriving'[p].number = Len(handled') + Len(completed') + p
    <3>1. Len(handled') + Len(completed') = Len(handled) + Len(completed)
      BY <1>1, <1>8
    <3>2. QED
      BY <1>1, <3>1 DEF Numbered
  <2>3. \A p \in DOMAIN handled' :
          handled'[p].size = "whole" => handled'[p].packet.head.number = p
    <3>1. \A p \in DOMAIN handled :
            handled[p].size = "whole" => handled[p].packet.head.number = p
      BY DEF Numbered, NumberOf
    <3>2. call.size = "whole" => call.packet.head.number = n
      BY <1>2, <1>4, <1>8
    <3>3. QED
      BY <1>8, <3>1, <3>2
  <2>4. \A p \in DOMAIN completed' :
          /\ completed'[p].error = "none"
          /\ completed'[p].size = "whole" =>
               /\ completed'[p].kind = "udp" => buffer'.head.number = Len(handled') + p
               /\ completed'[p].kind = "tcp" => tcpBuffer'.head.number = Len(handled') + p
    <3> TAKE p \in DOMAIN completed'
    <3>1. /\ completed[p + 1].error = "none"
          /\ completed[p + 1].size = "whole" =>
               /\ completed[p + 1].kind = "udp" => buffer.head.number = Len(handled) + (p + 1)
               /\ completed[p + 1].kind = "tcp" => tcpBuffer.head.number = Len(handled) + (p + 1)
      BY <1>1 DEF Numbered
    <3>2. Len(handled) + (p + 1) = Len(handled') + p
      BY <1>1, <1>8
    <3>3. QED
      BY <1>1, <3>1, <3>2
  <2>5. QED
    BY <2>1, <2>2, <2>3, <2>4 DEF Numbered, NumberOf
<1>11. QED
  BY <1>9, <1>10

LEMMA OrderNext ==
  ASSUME LoopInv, OrderInv, [Next]_vars
  PROVE  OrderInv'
<1>1. /\ accepted \in Nat /\ failed \in Nat
  BY DEF LoopInv, TypeOK
<1>2. TypeOK
  BY DEF LoopInv
<1>3. ASSUME NEW e \in Endpoints, NEW size \in Sizes, Arrive(e, size)
      PROVE  OrderInv'
  <2>1. UNCHANGED <<accepted, failed>>
    BY <1>3 DEF Arrive
  <2>2. QED
    BY <1>2, <1>3, <2>1, OrderArrive DEF OrderInv
<1>4. CASE Perform
  <2>1. UNCHANGED <<accepted, failed>>
    BY <1>4 DEF Perform
  <2>2. QED
    BY <1>2, <1>4, <2>1, OrderPerform DEF OrderInv
<1>5. CASE \E error \in Errors : PerformFails(error)
  <2>1. failed' = failed + 1
    BY <1>5 DEF PerformFails
  <2>2. QED
    BY <1>1, <2>1 DEF OrderInv
<1>6. CASE Complete
  <2>1. UNCHANGED <<accepted, failed>>
    BY <1>6 DEF Complete
  <2>2. QED
    BY <1>6, <2>1, OrderComplete DEF OrderInv
<1>7. CASE StartTcpReceive
  <2>1. /\ accepted' = accepted + 1 /\ failed' = failed
        /\ reads' = Append(reads, "tcp") /\ reads \in Seq(Kinds) /\ "tcp" \in Kinds
        /\ UNCHANGED <<arriving, completed, buffer, tcpBuffer, handled, arrived>>
    BY <1>2, <1>7 DEF StartTcpReceive, TypeOK, Kinds
  <2>2. /\ DOMAIN reads' = DOMAIN reads \cup {Len(reads) + 1}
        /\ reads'[Len(reads) + 1] = "tcp"
        /\ \A p \in DOMAIN reads : reads'[p] = reads[p]
    BY <2>1, AppendPositions
  <2>3. SUFFICES ASSUME accepted' <= 1, failed' = 0 PROVE TakingTurns' /\ Numbered'
    BY DEF OrderInv
  <2>4. accepted = 0 /\ accepted' # 0 /\ TakingTurns /\ Numbered
    BY <1>1, <2>1, <2>3 DEF OrderInv
  <2>5. TakingTurns'
    BY <2>1, <2>2, <2>4 DEF TakingTurns
  <2>6. Numbered'
    BY <2>1, <2>4 DEF Numbered, NumberOf
  <2>7. QED
    BY <2>5, <2>6
<1>8. CASE UNCHANGED vars
  <2>1. UNCHANGED <<arriving, reads, completed, buffer, tcpBuffer, handled, arrived,
                    accepted, failed>>
    BY <1>8 DEF vars
  <2>2. QED
    BY <2>1 DEF OrderInv, TakingTurns, Numbered, NumberOf
<1>9. QED
  BY <1>3, <1>4, <1>5, <1>6, <1>7, <1>8 DEF Next

-----------------------------------------------------------------------------
\* As long as there is at most one accepted connection and no receive has failed,
\* the n-th call of handlePacketRaw is for the n-th datagram that arrived,
\* however the two receives' handlers are scheduled (unless the datagram is too
\* short for a packet, and an older one is handled in its place).
THEOREM InOrderWithOneConnection == Spec => []InOrderUpToOneConnection
<1>1. OrderInv => InOrderUpToOneConnection
  BY DEF OrderInv, Numbered, InOrderUpToOneConnection, IsWhole
<1>2. Spec => []OrderInv
  BY LoopInit, LoopNext, OrderInit, OrderNext, PTL DEF Spec
<1>3. QED
  BY <1>1, <1>2, PTL
-----------------------------------------------------------------------------
(* The UDP receive as a mailbox. *)

WholeTaken == {c \in Completion : Taken(c) /\ c.size = "whole"}
WholeThere == {d \in Datagram : d.size = "whole"}
WholeCalls == {c \in Calls : c.by = "udp" /\ c.size = "whole"}

AllOf(w, x) == [p \in DOMAIN w |-> x]
PartsOf(t) == [p \in DOMAIN t |-> PartOf(t[p])]
MadeOf(h) == [p \in DOMAIN h |-> [as |-> h[p].as, from |-> h[p].packet.head.from,
                                  number |-> h[p].packet.head.number]]

\* What the refinement mapping puts in place of the mailbox's variables.
Mail == AllOf(Waiting, buffer.head) \o PartsOf(There)
Made == MadeOf(Handled)
Open == \/ \E p \in DOMAIN reads : reads[p] = "udp"
        \/ \E p \in DOMAIN completed : Taken(completed[p])

MailStep == [Promise!Next]_<<Mail, Made, arrived, Open>>
-----------------------------------------------------------------------------
LEMMA NothingKept ==
  ASSUME NEW X, NEW s \in Seq(X), NEW S, \A p \in DOMAIN s : s[p] \notin S
  PROVE  Kept(s, S) = <<>>
<1> DEFINE Y == {x \in X : x \notin S}
<1>1. s \in Seq(Y)
  <2>1. DOMAIN s = 1 .. Len(s) /\ Len(s) \in Nat /\ \A p \in 1 .. Len(s) : s[p] \in Y
    BY LenProperties
  <2>2. s = [p \in 1 .. Len(s) |-> s[p]]
    BY <2>1, LenProperties
  <2> HIDE DEF Y
  <2>3. QED
    BY <2>1, <2>2
<1>2. Kept(s, S) \in Seq(Y \cap S)
  BY <1>1, KeptProperties
<1>3. PICK t \in Seq(Y \cap S) : t = Kept(s, S)
  BY <1>2
<1>4. Y \cap S = {}
  OBVIOUS
<1>5. t = <<>>
  <2>1. SUFFICES ASSUME t # <<>> PROVE FALSE
    OBVIOUS
  <2>2. 1 \in DOMAIN t
    BY <2>1, LenProperties, EmptySeq
  <2>3. t[1] \in Y \cap S
    BY <2>2, LenProperties
  <2>4. QED
    BY <1>4, <2>3
<1>6. QED
  BY <1>3, <1>5

\* t has the elements of a and then those of b.
IsBoth(t, a, b) ==
  /\ Len(t) = Len(a) + Len(b) /\ Len(a) \in Nat /\ Len(b) \in Nat
  /\ \A i \in 1 .. Len(a) : t[i] = a[i]
  /\ \A i \in 1 .. Len(b) : t[Len(a) + i] = b[i]

LEMMA Joined ==
  ASSUME NEW X, NEW a \in Seq(X), NEW b \in Seq(X), NEW t, t = a \o b
  PROVE  t \in Seq(X) /\ IsBoth(t, a, b)
<1>1. Len(a) \in Nat /\ Len(b) \in Nat
  OBVIOUS
<1>2. /\ t \in Seq(X) /\ Len(t) = Len(a) + Len(b)
      /\ \A i \in 1 .. Len(a) + Len(b) :
           t[i] = IF i <= Len(a) THEN a[i] ELSE b[i - Len(a)]
  BY ConcatProperties
<1>3. \A i \in 1 .. Len(b) : t[Len(a) + i] = b[i]
  <2> TAKE i \in 1 .. Len(b)
  <2>1. /\ Len(a) + i \in 1 .. Len(a) + Len(b) /\ ~ (Len(a) + i <= Len(a))
        /\ (Len(a) + i) - Len(a) = i
    BY <1>1
  <2>2. QED
    BY <1>2, <2>1
<1>4. QED
  BY <1>1, <1>2, <1>3 DEF IsBoth

LEMMA AfterOne ==
  ASSUME NEW a, NEW b, NEW t, IsBoth(t, a, b), Len(a) = 1
  PROVE  /\ Len(t) = Len(b) + 1 /\ Len(b) \in Nat /\ t[1] = a[1]
         /\ \A i \in 1 .. Len(b) : t[i + 1] = b[i]
<1>1. \A i \in 1 .. Len(b) : 1 + i = i + 1
  OBVIOUS
<1>2. \A i \in 1 .. Len(b) : t[1 + i] = b[i]
  BY DEF IsBoth
<1>3. QED
  BY <1>1, <1>2 DEF IsBoth

LEMMA Single ==
  ASSUME NEW X, NEW x \in X
  PROVE  <<x>> \in Seq(X) /\ Len(<<x>>) = 1 /\ <<x>>[1] = x
OBVIOUS

LEMMA HeadAndRest ==
  ASSUME NEW X, NEW x \in X, NEW s \in Seq(X)
  PROVE  /\ <<x>> \o s \in Seq(X) /\ <<x>> \o s # <<>>
         /\ Head(<<x>> \o s) = x /\ Tail(<<x>> \o s) = s
<1> DEFINE e == <<x>>
<1> DEFINE t == e \o s
<1>1. e \in Seq(X) /\ Len(e) = 1 /\ e[1] = x
  OBVIOUS
<1>j. t = e \o s
  OBVIOUS
<1> HIDE DEF e, t
<1>2. t \in Seq(X) /\ IsBoth(t, e, s)
  BY <1>1, <1>j, Joined
<1>3. /\ Len(t) = Len(s) + 1 /\ Len(s) \in Nat /\ t[1] = x
      /\ \A i \in 1 .. Len(s) : t[i + 1] = s[i]
  BY <1>1, <1>2, AfterOne
<1>4. t # <<>>
  BY <1>2, <1>3
<1>5. Head(t) = x
  BY <1>2, <1>3, <1>4
<1>6. Tail(t) \in Seq(X) /\ Len(Tail(t)) = Len(s) /\ \A i \in 1 .. Len(s) : Tail(t)[i] = s[i]
  BY <1>2, <1>3, <1>4, HeadTailProperties
<1>7. Tail(t) = s
  BY <1>6, SeqEqual
<1>8. QED
  BY <1>2, <1>4, <1>5, <1>7 DEF t, e

LEMMA RemovedBetween ==
  ASSUME NEW X, NEW w \in Seq(X), NEW x \in X, NEW s \in Seq(X)
  PROVE  /\ Len(w) + 1 \in DOMAIN (w \o (<<x>> \o s))
         /\ Promise!RemoveAt(w \o (<<x>> \o s), Len(w) + 1) = w \o s
<1> DEFINE e == <<x>>
<1> DEFINE r == e \o s
<1> DEFINE t == w \o r
<1> DEFINE n == Len(w)
<1>1. e \in Seq(X) /\ Len(e) = 1
  OBVIOUS
<1>i. r = e \o s /\ t = w \o r
  OBVIOUS
<1> HIDE DEF e, r, t
<1>2. /\ r \in Seq(X) /\ Len(r) = Len(s) + 1 /\ Len(s) \in Nat
      /\ \A i \in 1 .. Len(s) : r[i + 1] = s[i]
  <2>1. r \in Seq(X) /\ IsBoth(r, e, s)
    BY <1>1, <1>i, Joined
  <2>2. QED
    BY <1>1, <2>1, AfterOne
<1>3. /\ t \in Seq(X) /\ Len(t) = n + Len(r) /\ n \in Nat
      /\ \A i \in 1 .. n : t[i] = w[i]
      /\ \A i \in 1 .. Len(r) : t[n + i] = r[i]
  <2>1. t \in Seq(X) /\ IsBoth(t, w, r)
    BY <1>2, <1>i, Joined
  <2>2. QED
    BY <2>1 DEF IsBoth
<1>4. /\ DOMAIN t = 1 .. Len(t) /\ n + 1 \in 1 .. Len(t)
      /\ \A i \in 1 .. Len(t) : t[i] \in X
  BY <1>2, <1>3, LenProperties
<1>5. SubSeq(t, 1, n) = w
  <2>1. /\ SubSeq(t, 1, n) \in Seq(X) /\ Len(SubSeq(t, 1, n)) = n
        /\ \A i \in 1 .. n : SubSeq(t, 1, n)[i] = t[i]
    <3>1. \A i \in 1 .. n : t[i] \in X
      BY <1>2, <1>3, <1>4
    <3>2. QED
      BY <1>3, <3>1, SubSeqProperties
  <2>2. QED
    BY <1>3, <2>1, SeqEqual
<1>6. SubSeq(t, n + 2, Len(t)) = s
  <2>1. /\ Len(t) \in Int /\ n + 2 \in Int /\ Len(t) - (n + 2) + 1 = Len(s)
        /\ \A i \in (n + 2) .. Len(t) : t[i] \in X
    BY <1>2, <1>3, <1>4
  <2>2. /\ SubSeq(t, n + 2, Len(t)) \in Seq(X)
        /\ Len(SubSeq(t, n + 2, Len(t))) = Len(s)
        /\ \A i \in 1 .. Len(s) : SubSeq(t, n + 2, Len(t))[i] = t[n + 2 + i - 1]
    BY <1>2, <2>1, SubSeqProperties
  <2>3. \A i \in 1 .. Len(s) : t[n + 2 + i - 1] = s[i]
    <3> TAKE i \in 1 .. Len(s)
    <3>1. i + 1 \in 1 .. Len(r) /\ n + 2 + i - 1 = n + (i + 1)
      BY <1>2, <1>3
    <3>2. QED
      BY <1>2, <1>3, <3>1
  <2>4. QED
    BY <2>2, <2>3, SeqEqual
<1>7. Promise!RemoveAt(t, n + 1) = w \o s
  <2>1. (n + 1) - 1 = n /\ (n + 1) + 1 = n + 2
    BY <1>3
  <2>2. QED
    BY <1>5, <1>6, <2>1 DEF Promise!RemoveAt
<1>8. QED
  BY <1>4, <1>7 DEF t, r, e
-----------------------------------------------------------------------------
(* The parts of the mapping. *)

LEMMA PartsAreParts ==
  ASSUME NEW t \in Seq(Datagram)
  PROVE  /\ PartsOf(t) \in Seq(Part)
         /\ Len(PartsOf(t)) = Len(t) /\ Len(t) \in Nat
         /\ \A p \in 1 .. Len(t) : PartsOf(t)[p] = PartOf(t[p]) /\ PartOf(t[p]) \in Part
<1>1. DOMAIN t = 1 .. Len(t) /\ Len(t) \in Nat /\ \A p \in 1 .. Len(t) : t[p] \in Datagram
  BY LenProperties
<1>2. \A p \in 1 .. Len(t) : PartOf(t[p]) \in Part
  BY <1>1 DEF PartOf, Part, Datagram
<1>3. QED
  BY <1>1, <1>2 DEF PartsOf

LEMMA PartsOfAppend ==
  ASSUME NEW t \in Seq(Datagram), NEW d \in Datagram
  PROVE  PartsOf(Append(t, d)) = Append(PartsOf(t), PartOf(d))
<1>1. PICK u \in Seq(Datagram) : u = Append(t, d)
  BY AppendProperties
<1>2. /\ Len(u) = Len(t) + 1 /\ u[Len(t) + 1] = d
      /\ \A p \in 1 .. Len(t) : u[p] = t[p]
  BY <1>1, AppendProperties
<1>3. PartOf(d) \in Part
  BY DEF PartOf, Part, Datagram
<1>4. PICK v \in Seq(Part) : v = Append(PartsOf(t), PartOf(d))
  BY <1>3, PartsAreParts, AppendProperties
<1>5. /\ Len(v) = Len(t) + 1 /\ v[Len(t) + 1] = PartOf(d) /\ Len(t) \in Nat
      /\ \A p \in 1 .. Len(t) : v[p] = PartOf(t[p])
  BY <1>3, <1>4, PartsAreParts, AppendProperties
<1>6. /\ PartsOf(u) \in Seq(Part) /\ Len(PartsOf(u)) = Len(u)
      /\ \A p \in 1 .. Len(u) : PartsOf(u)[p] = PartOf(u[p])
  BY PartsAreParts
<1>7. \A p \in 1 .. Len(u) : PartsOf(u)[p] = v[p]
  BY <1>2, <1>5, <1>6
<1>8. PartsOf(u) = v
  BY <1>2, <1>5, <1>6, <1>7, SeqEqual
<1>9. QED
  BY <1>1, <1>4, <1>8

LEMMA PartsOfRest ==
  ASSUME NEW t \in Seq(Datagram), NEW d \in Datagram
  PROVE  PartsOf(<<d>> \o t) = <<PartOf(d)>> \o PartsOf(t) /\ PartOf(d) \in Part
<1>1. PICK e \in Seq(Datagram) : e = <<d>>
  BY Single
<1>2. PICK u \in Seq(Datagram) : u = e \o t
  BY ConcatProperties
<1>3. /\ Len(u) = Len(t) + 1 /\ u[1] = d /\ Len(t) \in Nat
      /\ \A p \in 1 .. Len(t) : u[p + 1] = t[p]
  <2>1. e \in Seq(Datagram) /\ t \in Seq(Datagram) /\ Len(e) = 1 /\ e[1] = d
    BY <1>1, Single
  <2>2. IsBoth(u, e, t)
    BY <1>2, <2>1, Joined
  <2>3. QED
    BY <2>1, <2>2, AfterOne
<1>4. PartOf(d) \in Part
  BY DEF PartOf, Part, Datagram
<1>5. PICK f \in Seq(Part) : f = <<PartOf(d)>>
  BY <1>4, Single
<1>6. PICK w \in Seq(Part) : w = PartsOf(t)
  BY PartsAreParts
<1>7. PICK v \in Seq(Part) : v = f \o w
  BY ConcatProperties
<1>8. /\ Len(v) = Len(t) + 1 /\ v[1] = PartOf(d)
      /\ \A p \in 1 .. Len(t) : v[p + 1] = PartOf(t[p])
  <2>1. f \in Seq(Part) /\ w \in Seq(Part) /\ Len(f) = 1 /\ f[1] = PartOf(d)
    BY <1>4, <1>5, Single
  <2>2. Len(w) = Len(t) /\ \A p \in 1 .. Len(t) : w[p] = PartOf(t[p])
    BY <1>6, PartsAreParts
  <2>3. IsBoth(v, f, w)
    BY <1>7, <2>1, Joined
  <2>4. QED
    BY <2>1, <2>2, <2>3, AfterOne
<1>9. /\ PartsOf(u) \in Seq(Part) /\ Len(PartsOf(u)) = Len(u)
      /\ \A p \in 1 .. Len(u) : PartsOf(u)[p] = PartOf(u[p])
  BY PartsAreParts
<1>10. \A p \in 1 .. Len(u) : PartsOf(u)[p] = v[p]
  <2> TAKE p \in 1 .. Len(u)
  <2>1. CASE p = 1
    BY <1>3, <1>8, <1>9, <2>1
  <2>2. CASE p # 1
    <3>1. p - 1 \in 1 .. Len(t) /\ (p - 1) + 1 = p
      BY <1>3, <2>2
    <3>2. QED
      BY <1>3, <1>8, <1>9, <3>1
  <2>3. QED
    BY <2>1, <2>2
<1>11. PartsOf(u) = v
  BY <1>3, <1>8, <1>9, <1>10, SeqEqual
<1>12. QED
  BY <1>1, <1>2, <1>4, <1>5, <1>6, <1>7, <1>11

LEMMA MadeOfAppend ==
  ASSUME NEW h \in Seq(Calls), NEW c \in Calls
  PROVE  MadeOf(Append(h, c)) =
           Append(MadeOf(h), [as |-> c.as, from |-> c.packet.head.from,
                              number |-> c.packet.head.number])
<1> DEFINE Made1(x) == [as |-> x.as, from |-> x.packet.head.from,
                        number |-> x.packet.head.number]
<1> DEFINE S == {Made1(x) : x \in Calls}
<1>1. \A g \in Seq(Calls) :
        /\ MadeOf(g) \in Seq(S) /\ Len(MadeOf(g)) = Len(g) /\ Len(g) \in Nat
        /\ \A p \in 1 .. Len(g) : MadeOf(g)[p] = Made1(g[p])
  <2> TAKE g \in Seq(Calls)
  <2>1. DOMAIN g = 1 .. Len(g) /\ Len(g) \in Nat /\ \A p \in 1 .. Len(g) : g[p] \in Calls
    BY LenProperties
  <2>2. MadeOf(g) = [p \in 1 .. Len(g) |-> Made1(g[p])]
    BY <2>1 DEF MadeOf
  <2>3. \A p \in 1 .. Len(g) : Made1(g[p]) \in S
    BY <2>1
  <2> HIDE DEF S, Made1
  <2>4. QED
    BY <2>1, <2>2, <2>3
<1>2. Made1(c) \in S
  OBVIOUS
<1>3. PICK u \in Seq(Calls) : u = Append(h, c)
  BY AppendProperties
<1>4. /\ Len(u) = Len(h) + 1 /\ u[Len(h) + 1] = c
      /\ \A p \in 1 .. Len(h) : u[p] = h[p]
  BY <1>3, AppendProperties
<1> DEFINE one == Made1(c)
<1>5. one = Made1(c)
  OBVIOUS
<1> HIDE DEF S, Made1, one
<1>6. PICK m \in Seq(S) : m = MadeOf(h)
  BY <1>1
<1>7. PICK v \in Seq(S) : v = Append(m, one)
  BY <1>2, <1>5, AppendProperties
<1>8. /\ Len(v) = Len(m) + 1 /\ v[Len(m) + 1] = one
      /\ \A p \in 1 .. Len(m) : v[p] = m[p]
  BY <1>2, <1>5, <1>7, AppendProperties
<1>9. \A p \in 1 .. Len(u) : MadeOf(u)[p] = v[p]
  BY <1>1, <1>4, <1>5, <1>6, <1>8
<1>10. PICK w \in Seq(S) : w = MadeOf(u)
  BY <1>1
<1>11. w = v
  <2>1. Len(w) = Len(u) /\ Len(u) = Len(v)
    BY <1>1, <1>4, <1>6, <1>8, <1>10
  <2>2. \A p \in 1 .. Len(w) : w[p] = v[p]
    BY <1>9, <1>10, <2>1
  <2>3. QED
    BY <2>1, <2>2, SeqEqual
<1>12. QED
  BY <1>3, <1>6, <1>7, <1>10, <1>11 DEF one, Made1
-----------------------------------------------------------------------------
LEMMA KeptIn ==
  ASSUME NEW X, NEW s \in Seq(X), NEW S
  PROVE  Kept(s, S) \in Seq(X)
<1>1. Kept(s, S) \in Seq(X \cap S)
  BY KeptProperties
<1>2. X \cap S \subseteq X
  OBVIOUS
<1>3. QED
  BY <1>1, <1>2, SeqMonotonic

LEMMA MappedLists ==
  ASSUME TypeOK
  PROVE  /\ Waiting = Kept(completed, WholeTaken) /\ Waiting \in Seq(Completion)
         /\ There = Kept(arriving, WholeThere) /\ There \in Seq(Datagram)
         /\ Handled = Kept(handled, WholeCalls) /\ Handled \in Seq(Calls)
         /\ buffer.head \in Part
<1>1. completed \in Seq(Completion) /\ arriving \in Seq(Datagram) /\ handled \in Seq(Calls)
  BY DEF TypeOK
<1>2. /\ Waiting = Kept(completed, WholeTaken) /\ There = Kept(arriving, WholeThere)
      /\ Handled = Kept(handled, WholeCalls)
  BY DEF Waiting, WholeTaken, There, WholeThere, Handled, WholeCalls
<1>3. buffer.head \in Part
  BY DEF TypeOK, Contents
<1>4. QED
  BY <1>1, <1>2, <1>3, KeptIn

LEMMA AheadIsAList ==
  ASSUME NEW w \in Seq(Completion), NEW x \in Part
  PROVE  /\ AllOf(w, x) \in Seq(Part) /\ Len(AllOf(w, x)) = Len(w)
         /\ AllOf(<<>>, x) = <<>>
         /\ \A c : AllOf(<<c>>, x) = <<x>>
<1>1. DOMAIN w = 1 .. Len(w) /\ Len(w) \in Nat
  BY LenProperties
<1>2. AllOf(w, x) = [p \in 1 .. Len(w) |-> x]
  BY <1>1 DEF AllOf
<1>3. AllOf(w, x) \in Seq(Part) /\ Len(AllOf(w, x)) = Len(w)
  BY <1>1, <1>2
<1>4. AllOf(<<>>, x) = <<>>
  BY DEF AllOf
<1>5. \A c : AllOf(<<c>>, x) = <<x>>
  BY DEF AllOf
<1>6. QED
  BY <1>3, <1>4, <1>5

\* A UDP receive that is outstanding, or the one whose handler comes next, is
\* the only one: no other has taken a packet.
LEMMA NothingWaits ==
  ASSUME TypeOK, \A p \in DOMAIN completed : ~ IsUdp(completed[p])
  PROVE  Waiting = <<>>
<1>1. \A p \in DOMAIN completed : completed[p] \notin WholeTaken
  BY DEF WholeTaken, Taken, IsUdp
<1>2. completed \in Seq(Completion)
  BY DEF TypeOK
<1>3. Kept(completed, WholeTaken) = <<>>
  BY <1>1, <1>2, NothingKept
<1>4. QED
  BY <1>3, MappedLists

\* A step that none of the mailbox's variables shows.
LEMMA MailboxStutters ==
  ASSUME UNCHANGED <<Waiting, There, Handled, arrived, Open>>,
         buffer'.head = buffer.head \/ Waiting = <<>>
  PROVE  MailStep
<1>1. AllOf(Waiting, buffer.head)' = AllOf(Waiting, buffer.head)
  BY DEF AllOf
<1>2. PartsOf(There)' = PartsOf(There) /\ MadeOf(Handled)' = MadeOf(Handled)
  BY DEF PartsOf, MadeOf
<1>3. UNCHANGED <<Mail, Made, arrived, Open>>
  BY <1>1, <1>2 DEF Mail, Made
<1>4. QED
  BY <1>3 DEF MailStep
-----------------------------------------------------------------------------
LEMMA ArriveKeepsPromise ==
  ASSUME LoopInv, NEW e \in Endpoints, NEW size \in Sizes, Arrive(e, size)
  PROVE  MailStep
<1> DEFINE d == [from |-> e, number |-> arrived + 1, size |-> size]
<1>1. /\ arrived' = arrived + 1 /\ arrived < MaxDatagrams
      /\ d \in Datagram /\ (d \in WholeThere <=> size = "whole")
      /\ PartOf(d) = [from |-> e, number |-> arrived']
      /\ arriving' = Append(arriving, d) /\ arriving \in Seq(Datagram)
      /\ UNCHANGED <<reads, completed, buffer, handled>>
  BY DEF Arrive, LoopInv, TypeOK, Datagram, WholeThere, PartOf
<1> HIDE DEF d
<1>2. TypeOK /\ TypeOK'
  BY LoopArrive DEF LoopInv
<1>3. There' = IF size = "whole" THEN Append(There, d) ELSE There
  <2>1. Kept(Append(arriving, d), WholeThere) =
          IF d \in WholeThere THEN Append(Kept(arriving, WholeThere), d)
          ELSE Kept(arriving, WholeThere)
    BY <1>1, KeptOfAppend
  <2>2. There' = Kept(arriving', WholeThere) /\ There = Kept(arriving, WholeThere)
    BY DEF There, WholeThere
  <2>3. QED
    BY <1>1, <2>1, <2>2
<1>4. UNCHANGED <<Waiting, Handled, Open>>
  BY <1>1 DEF Waiting, Handled, Open
<1>5. CASE size = "whole"
  <2>1. PartsOf(There') = Append(PartsOf(There), PartOf(d))
    BY <1>1, <1>2, <1>3, <1>5, MappedLists, PartsOfAppend
  <2>2. PICK a \in Seq(Part), t \in Seq(Part), x \in Part :
          /\ a = AllOf(Waiting, buffer.head) /\ t = PartsOf(There) /\ x = PartOf(d)
    <3>1. PartOf(d) \in Part
      BY <1>1 DEF PartOf, Part, Datagram
    <3>2. QED
      BY <1>2, <3>1, MappedLists, AheadIsAList, PartsAreParts
  <2>3. a \o Append(t, x) = Append(a \o t, x)
    <3>1. a \in Seq(Part) /\ t \in Seq(Part) /\ x \in Part /\ <<x>> \in Seq(Part)
      BY Single
    <3>2. a \o t \in Seq(Part)
      BY <3>1, ConcatProperties
    <3>3. Append(t, x) = t \o <<x>> /\ Append(a \o t, x) = (a \o t) \o <<x>>
      BY <3>1, <3>2, AppendIsConcat
    <3>4. (a \o t) \o <<x>> = a \o (t \o <<x>>)
      BY <3>1, Regroup
    <3>5. QED
      BY <3>3, <3>4
  <2>4. Mail' = Append(Mail, [from |-> e, number |-> arrived'])
    <3>1. AllOf(Waiting, buffer.head)' = a
      BY <1>1, <1>4, <2>2 DEF AllOf
    <3>2. PartsOf(There)' = Append(t, x)
      BY <2>1, <2>2 DEF PartsOf
    <3>3. Mail = a \o t /\ Mail' = a \o Append(t, x)
      BY <2>2, <3>1, <3>2 DEF Mail
    <3>4. QED
      BY <1>1, <2>2, <2>3, <3>3
  <2>5. UNCHANGED <<Made, Open>>
    BY <1>4 DEF Made, MadeOf
  <2>6. Promise!Arrive(e)
    BY <1>1, <2>4, <2>5 DEF Promise!Arrive, Mail, Made, Open, AllOf, PartsOf, MadeOf
  <2>7. QED
    BY <2>6 DEF MailStep, Promise!Next
<1>6. CASE size # "whole"
  <2>1. There' = There
    BY <1>3, <1>6
  <2>2. UNCHANGED <<Mail, Made, Open>>
    BY <1>1, <1>4, <2>1 DEF Mail, Made, AllOf, PartsOf, MadeOf
  <2>3. Promise!ArriveShort
    BY <1>1, <2>2 DEF Promise!ArriveShort, Mail, Made, Open, AllOf, PartsOf, MadeOf
  <2>4. QED
    BY <2>3 DEF MailStep, Promise!Next
<1>7. QED
  BY <1>5, <1>6

\* The receive that is performed takes the oldest datagram: one packet less is
\* there, if it was one.
LEMMA ThereTaken ==
  ASSUME LoopInv, Perform
  PROVE  LET d == Head(arriving) IN
         /\ d \in Datagram
         /\ d.size = "whole" => There = <<d>> \o There'
         /\ d.size # "whole" => There = There'
<1> DEFINE d == Head(arriving)
<1>1. arriving \in Seq(Datagram) /\ arriving # <<>> /\ arriving' = Tail(arriving)
  BY DEF LoopInv, TypeOK, Perform
<1>2. d \in Datagram /\ d = arriving[1]
  BY <1>1, TailPositions
<1> HIDE DEF d
<1>3. d \in WholeThere <=> d.size = "whole"
  BY <1>2 DEF WholeThere
<1>4. Kept(arriving, WholeThere) =
        IF arriving[1] \in WholeThere
        THEN <<arriving[1]>> \o Kept(Tail(arriving), WholeThere)
        ELSE Kept(Tail(arriving), WholeThere)
  BY <1>1, KeptOfTail
<1>5. There = Kept(arriving, WholeThere) /\ There' = Kept(Tail(arriving), WholeThere)
  BY <1>1 DEF There, WholeThere
<1>6. QED
  BY <1>2, <1>3, <1>4, <1>5 DEF d

\* A receive that has been performed waits for its handler.
LEMMA WaitingAppended ==
  ASSUME TypeOK, NEW c \in Completion, completed' = Append(completed, c)
  PROVE  /\ c \in WholeTaken => Waiting' = Append(Waiting, c)
         /\ c \notin WholeTaken => Waiting' = Waiting
<1>1. completed \in Seq(Completion)
  BY DEF TypeOK
<1>2. Kept(Append(completed, c), WholeTaken) =
        IF c \in WholeTaken THEN Append(Kept(completed, WholeTaken), c)
        ELSE Kept(completed, WholeTaken)
  BY <1>1, KeptOfAppend
<1>3. Waiting = Kept(completed, WholeTaken) /\ Waiting' = Kept(completed', WholeTaken)
  BY DEF Waiting, WholeTaken, Taken
<1>4. QED
  BY <1>2, <1>3

\* Whether the UDP receive has not failed, when a receive has been performed.
LEMMA OpenAfterPerformed ==
  ASSUME LoopInv, NEW c \in Completion, reads # <<>>,
         c.kind = Head(reads), reads' = Tail(reads),
         completed' = Append(completed, c)
  PROVE  /\ c.kind = "tcp" \/ c.error = "none" => Open' = Open
         /\ c.kind = "udp" => Open
         /\ c.kind = "udp" /\ c.error # "none" => ~ Open'
<1>1. reads \in Seq(Kinds) /\ completed \in Seq(Completion) /\ UdpOnce
  BY DEF LoopInv, TypeOK
<1>2. /\ 1 \in DOMAIN reads /\ reads[1] = c.kind /\ c.kind \in Kinds
      /\ DOMAIN reads = 1 .. Len(reads) /\ Len(reads) \in Nat \ {0}
      /\ DOMAIN reads' = 1 .. Len(reads) - 1
      /\ \A p \in DOMAIN reads' : p + 1 \in DOMAIN reads /\ reads'[p] = reads[p + 1]
  BY <1>1, TailPositions, LenProperties
<1>3. /\ DOMAIN completed' = DOMAIN completed \cup {Len(completed) + 1}
      /\ completed'[Len(completed) + 1] = c
      /\ \A p \in DOMAIN completed : completed'[p] = completed[p]
  BY <1>1, AppendPositions
<1>4. Open' <=> \/ \E p \in DOMAIN reads' : reads'[p] = "udp"
                \/ \E p \in DOMAIN completed : Taken(completed[p])
                \/ Taken(c)
  BY <1>3 DEF Open, Taken
<1>5. c.kind # "udp" =>
        ((\E p \in DOMAIN reads' : reads'[p] = "udp") <=> \E p \in DOMAIN reads : reads[p] = "udp")
  <2> SUFFICES ASSUME c.kind # "udp"
               PROVE  (\E p \in DOMAIN reads' : reads'[p] = "udp")
                        <=> \E p \in DOMAIN reads : reads[p] = "udp"
    OBVIOUS
  <2>1. ASSUME NEW p \in DOMAIN reads, reads[p] = "udp"
        PROVE  \E q \in DOMAIN reads' : reads'[q] = "udp"
    <3>1. p # 1
      BY <1>2, <2>1
    <3>2. p - 1 \in 1 .. Len(reads) - 1 /\ (p - 1) + 1 = p
      BY <1>2, <3>1
    <3>3. p - 1 \in DOMAIN reads' /\ reads'[p - 1] = "udp"
      BY <1>2, <2>1, <3>2
    <3>4. QED
      BY <3>3
  <2>2. QED
    BY <1>2, <2>1
<1>6. c.kind = "udp" =>
        /\ \A p \in DOMAIN completed : ~ IsUdp(completed[p])
        /\ \A p \in DOMAIN reads' : reads'[p] # "udp"
  <2> SUFFICES ASSUME c.kind = "udp"
               PROVE  /\ \A p \in DOMAIN completed : ~ IsUdp(completed[p])
                      /\ \A p \in DOMAIN reads' : reads'[p] # "udp"
    OBVIOUS
  <2>1. \A p \in DOMAIN completed : ~ IsUdp(completed[p])
    BY <1>1, <1>2 DEF UdpOnce
  <2>2. ASSUME NEW p \in DOMAIN reads', reads'[p] = "udp" PROVE FALSE
    <3>1. p + 1 \in DOMAIN reads /\ reads[p + 1] = "udp" /\ p + 1 # 1
      BY <1>2, <2>2
    <3>2. QED
      BY <1>1, <1>2, <3>1 DEF UdpOnce
  <2>3. QED
    BY <2>1, <2>2
<1>7. CASE c.kind = "tcp"
  <2>1. ~ Taken(c) /\ c.kind # "udp"
    BY <1>7 DEF Taken
  <2>2. Open' <=> Open
    BY <1>4, <1>5, <2>1 DEF Open
  <2>3. Open' = Open
    BY <2>2 DEF Open
  <2>4. QED
    BY <2>1, <2>3
<1>8. CASE c.kind = "udp"
  <2>1. Open
    BY <1>2, <1>8 DEF Open
  <2>2. c.error = "none" => Open'
    BY <1>4, <1>8 DEF Taken
  <2>3. c.error # "none" => ~ Open'
    <3>1. \A p \in DOMAIN completed : ~ Taken(completed[p])
      BY <1>6, <1>8 DEF Taken, IsUdp
    <3>2. QED
      BY <1>4, <1>6, <1>8, <3>1 DEF Taken
  <2>4. c.error = "none" => Open' = Open
    BY <2>1, <2>2 DEF Open
  <2>5. QED
    BY <1>8, <2>1, <2>3, <2>4
<1>9. QED
  BY <1>2, <1>7, <1>8 DEF Kinds

\* The packet that is taken by the UDP receive waits in its buffer; the one
\* another receive takes is lost; a datagram that is too short for a packet was
\* not one of the mailbox's.
LEMMA PerformKeepsPromise ==
  ASSUME LoopInv, Perform
  PROVE  MailStep
<1> DEFINE d == Head(arriving)
<1> DEFINE c == [kind |-> Head(reads), error |-> "none", size |-> d.size,
              sender |-> d.from]
<1>1. /\ reads \in Seq(Kinds) /\ reads # <<>> /\ reads' = Tail(reads)
      /\ completed \in Seq(Completion) /\ completed' = Append(completed, c)
      /\ UNCHANGED <<handled, arrived>>
      /\ \/ c.kind = "udp" /\ buffer' = Filled(buffer, d)
         \/ c.kind = "tcp" /\ UNCHANGED buffer
  BY DEF LoopInv, TypeOK, Perform
<1>2. /\ d \in Datagram
      /\ d.size = "whole" => There = <<d>> \o There'
      /\ d.size # "whole" => There = There'
  BY ThereTaken
<1>3. /\ c \in Completion /\ c.kind = Head(reads) /\ c.error = "none"
      /\ c.size = d.size /\ Head(reads) = reads[1] /\ 1 \in DOMAIN reads
  BY <1>1, <1>2, TailPositions DEF Completion, Datagram
<1> HIDE DEF c, d
<1>4. TypeOK /\ TypeOK'
  BY LoopPerform DEF LoopInv
<1>5. Open' = Open
  BY <1>1, <1>3, OpenAfterPerformed
<1>6. /\ c \in WholeTaken => Waiting' = Append(Waiting, c)
      /\ c \notin WholeTaken => Waiting' = Waiting
  BY <1>1, <1>3, <1>4, WaitingAppended
<1>7. c \in WholeTaken <=> c.kind = "udp" /\ d.size = "whole"
  BY <1>3 DEF WholeTaken, Taken
<1>8. Handled' = Handled /\ arrived' = arrived
  BY <1>1 DEF Handled
<1>9. c.kind = "udp" => Waiting = <<>>
  <2> SUFFICES ASSUME c.kind = "udp" PROVE Waiting = <<>>
    OBVIOUS
  <2>1. \A p \in DOMAIN completed : ~ IsUdp(completed[p])
    BY <1>3 DEF LoopInv, UdpOnce
  <2>2. QED
    BY <1>4, <2>1, NothingWaits
<1>10. /\ Waiting \in Seq(Completion) /\ There \in Seq(Datagram)
       /\ There' \in Seq(Datagram) /\ buffer.head \in Part /\ buffer'.head \in Part
  <2>1. arriving' \in Seq(Datagram) /\ buffer'.head \in Part
    BY <1>4 DEF TypeOK, Contents
  <2>2. There' = Kept(arriving', WholeThere)
    BY DEF There, WholeThere
  <2>3. There' \in Seq(Datagram)
    BY <2>1, <2>2, KeptIn
  <2>4. QED
    BY <1>4, <2>1, <2>3, MappedLists
<1>11. CASE d.size # "whole"
  <2>1. UNCHANGED <<Waiting, There, Handled, arrived, Open>>
    BY <1>2, <1>5, <1>6, <1>7, <1>8, <1>11
  <2>2. buffer'.head = buffer.head \/ Waiting = <<>>
    BY <1>1, <1>9
  <2>3. QED
    BY <2>1, <2>2, MailboxStutters
<1>12. CASE d.size = "whole" /\ c.kind = "udp"
  <2>1. Waiting = <<>> /\ Waiting' = <<c>>
    <3>1. Waiting = <<>> /\ Waiting' = Append(Waiting, c)
      BY <1>6, <1>7, <1>9, <1>12
    <3>2. QED
      BY <3>1
  <2>2. buffer'.head = PartOf(d) /\ PartOf(d) \in Part
    <3>1. buffer' = Filled(buffer, d)
      BY <1>1, <1>12
    <3>2. Filled(buffer, d).head = PartOf(d)
      BY <1>12 DEF Filled
    <3>3. PartOf(d) \in Part
      BY <1>2, <1>10, PartsOfRest
    <3>4. QED
      BY <3>1, <3>2, <3>3
  <2>3. PartsOf(There) = <<PartOf(d)>> \o PartsOf(There')
    BY <1>2, <1>10, <1>12, PartsOfRest
  <2>4. AllOf(Waiting, buffer.head) = <<>>
    BY <2>1 DEF AllOf
  <2>5. AllOf(Waiting', buffer'.head) = <<PartOf(d)>>
    BY <1>10, <2>1, <2>2, AheadIsAList
  <2>6. PartsOf(There) \in Seq(Part)
    BY <1>10, PartsAreParts
  <2>7. Mail = PartsOf(There)
    BY <2>4, <2>6, ConcatEmptySeq DEF Mail
  <2>8. Mail' = AllOf(Waiting', buffer'.head) \o PartsOf(There')
    BY DEF Mail, AllOf, PartsOf
  <2>9. Mail' = Mail
    BY <2>3, <2>5, <2>7, <2>8
  <2>10. Made' = Made
    BY <1>8 DEF Made, MadeOf
  <2>11. QED
    BY <1>5, <1>8, <2>9, <2>10 DEF MailStep
<1>13. CASE d.size = "whole" /\ c.kind = "tcp"
  <2>1. Waiting' = Waiting /\ buffer' = buffer
    BY <1>1, <1>6, <1>7, <1>13
  <2>2. PICK w \in Seq(Part), s \in Seq(Part), x \in Part :
          /\ w = AllOf(Waiting, buffer.head)
          /\ s = PartsOf(There') /\ x = PartOf(d)
    BY <1>2, <1>10, AheadIsAList, PartsAreParts, PartsOfRest
  <2>3. PartsOf(There) = <<x>> \o s
    BY <1>2, <1>10, <1>13, <2>2, PartsOfRest
  <2>4. Mail = w \o (<<x>> \o s)
    BY <2>2, <2>3 DEF Mail
  <2>5. AllOf(Waiting', buffer'.head) = w
    BY <2>1, <2>2
  <2>6. Mail' = w \o s
    BY <2>2, <2>5 DEF Mail, AllOf, PartsOf
  <2>7. Len(w) + 1 \in DOMAIN Mail /\ Mail' = Promise!RemoveAt(Mail, Len(w) + 1)
    BY <2>4, <2>6, RemovedBetween
  <2>8. Made' = Made
    BY <1>8 DEF Made, MadeOf
  <2>9. (\E p \in DOMAIN Mail : Mail' = Promise!RemoveAt(Mail, p))
        /\ UNCHANGED <<Made, arrived, Open>>
    BY <1>5, <1>8, <2>7, <2>8
  <2>10. Promise!Lose
    BY <2>9 DEF Promise!Lose, Mail, Made, Open, AllOf, PartsOf, MadeOf
  <2>11. QED
    BY <2>10 DEF MailStep, Promise!Next
<1>14. QED
  BY <1>1, <1>11, <1>12, <1>13

\* A receive that fails takes no datagram; if it is the UDP receive, the mailbox
\* is closed.
LEMMA FailureKeepsPromise ==
  ASSUME LoopInv, NEW error \in Errors, PerformFails(error)
  PROVE  MailStep
<1> DEFINE c == [kind |-> Head(reads), error |-> error, size |-> "empty",
              sender |-> NoEndpoint]
<1>1. /\ reads \in Seq(Kinds) /\ reads # <<>> /\ reads' = Tail(reads)
      /\ completed \in Seq(Completion) /\ completed' = Append(completed, c)
      /\ UNCHANGED <<arriving, buffer, handled, arrived>>
  BY DEF LoopInv, TypeOK, PerformFails
<1>2. /\ c \in Completion /\ c.kind = Head(reads) /\ c.error # "none"
      /\ c.kind \in Kinds /\ c.size # "whole"
  BY <1>1, TailPositions DEF Completion
<1> HIDE DEF c
<1>3. TypeOK
  BY DEF LoopInv
<1>4. Waiting' = Waiting
  <2>1. c \notin WholeTaken
    BY <1>2 DEF WholeTaken
  <2>2. QED
    BY <1>1, <1>2, <1>3, <2>1, WaitingAppended
<1>5. There' = There /\ Handled' = Handled /\ arrived' = arrived
  BY <1>1 DEF There, Handled
<1>6. CASE c.kind = "tcp"
  <2>1. Open' = Open
    BY <1>1, <1>2, <1>6, OpenAfterPerformed
  <2>2. QED
    BY <1>1, <1>4, <1>5, <2>1, MailboxStutters
<1>7. CASE c.kind = "udp"
  <2>1. Open /\ ~ Open'
    BY <1>1, <1>2, <1>7, OpenAfterPerformed
  <2>2. UNCHANGED <<Mail, Made, arrived>>
    BY <1>1, <1>4, <1>5 DEF Mail, Made, AllOf, PartsOf, MadeOf
  <2>3. Open' = FALSE
    BY <2>1 DEF Open
  <2>4. Promise!Fail
    BY <2>1, <2>2, <2>3 DEF Promise!Fail, Mail, Made, Open, AllOf, PartsOf, MadeOf
  <2>5. QED
    BY <2>4 DEF MailStep, Promise!Next
<1>8. QED
  BY <1>2, <1>6, <1>7 DEF Kinds

\* The receive whose handler runs no longer waits for it.
LEMMA WaitingTaken ==
  ASSUME LoopInv, Complete
  PROVE  LET c == Head(completed) IN
         /\ c \in WholeTaken => Waiting = <<c>> \o Waiting'
         /\ c \notin WholeTaken => Waiting = Waiting'
<1>1. completed \in Seq(Completion) /\ completed # <<>> /\ completed' = Tail(completed)
  BY DEF LoopInv, TypeOK, Complete
<1>2. Head(completed) = completed[1]
  BY <1>1, TailPositions
<1>3. Kept(completed, WholeTaken) =
        IF completed[1] \in WholeTaken
        THEN <<completed[1]>> \o Kept(Tail(completed), WholeTaken)
        ELSE Kept(Tail(completed), WholeTaken)
  BY <1>1, KeptOfTail
<1>4. /\ Waiting = Kept(completed, WholeTaken)
      /\ Waiting' = Kept(Tail(completed), WholeTaken)
  BY <1>1 DEF Waiting, WholeTaken, Taken
<1>5. QED
  BY <1>2, <1>3, <1>4

\* Whether the UDP receive has not failed does not depend on the other receives.
LEMMA OpenAfterOther ==
  ASSUME LoopInv, Complete, ~ Taken(Head(completed)),
         reads' = reads \/ reads' = Append(reads, "tcp")
  PROVE  Open' = Open
<1> DEFINE c == Head(completed)
<1>1. /\ c = completed[1] /\ DOMAIN completed = 1 .. Len(completed)
      /\ Len(completed) \in Nat \ {0} /\ Len(completed') = Len(completed) - 1
      /\ \A p \in DOMAIN completed' :
           p + 1 \in DOMAIN completed /\ completed'[p] = completed[p + 1]
      /\ DOMAIN completed' = 1 .. Len(completed')
  BY CompletedIsTaken, LenProperties DEF LoopInv, TypeOK
<1>2. ~ Taken(c)
  OBVIOUS
<1> HIDE DEF c
<1>3. (\E p \in DOMAIN completed' : Taken(completed'[p]))
        <=> \E p \in DOMAIN completed : Taken(completed[p])
  <2>1. ASSUME NEW p \in DOMAIN completed, Taken(completed[p])
        PROVE  \E q \in DOMAIN completed' : Taken(completed'[q])
    <3>1. p # 1
      BY <1>1, <1>2, <2>1
    <3>2. p - 1 \in DOMAIN completed' /\ (p - 1) + 1 = p
      BY <1>1, <3>1
    <3>3. Taken(completed'[p - 1])
      BY <1>1, <2>1, <3>2
    <3>4. QED
      BY <3>2, <3>3
  <2>2. ASSUME NEW p \in DOMAIN completed', Taken(completed'[p])
        PROVE  \E q \in DOMAIN completed : Taken(completed[q])
    BY <1>1, <2>2
  <2>3. QED
    BY <2>1, <2>2
<1>4. (\E p \in DOMAIN reads' : reads'[p] = "udp")
        <=> \E p \in DOMAIN reads : reads[p] = "udp"
  <2>1. CASE reads' = reads
    BY <2>1
  <2>2. CASE reads' = Append(reads, "tcp")
    <3>1. reads \in Seq(Kinds) /\ "tcp" \in Kinds
      BY DEF LoopInv, TypeOK, Kinds
    <3>2. /\ DOMAIN reads' = DOMAIN reads \cup {Len(reads) + 1}
          /\ reads'[Len(reads) + 1] = "tcp"
          /\ \A p \in DOMAIN reads : reads'[p] = reads[p]
      BY <2>2, <3>1, AppendPositions
    <3>3. QED
      BY <3>2
  <2>3. QED
    BY <2>1, <2>2
<1>5. Open' <=> Open
  <2>1. Open' <=> \/ \E p \in DOMAIN reads' : reads'[p] = "udp"
                  \/ \E p \in DOMAIN completed' : Taken(completed'[p])
    BY DEF Open, Taken
  <2>2. QED
    BY <1>3, <1>4, <2>1 DEF Open
<1>6. QED
  BY <1>5 DEF Open

\* A call that is not one of the UDP receive for a whole packet is not promised.
LEMMA HandledAppended ==
  ASSUME TypeOK, NEW e \in Calls, handled' = Append(handled, e)
  PROVE  /\ e \in WholeCalls => Handled' = Append(Handled, e)
         /\ e \notin WholeCalls => Handled' = Handled
<1>1. handled \in Seq(Calls)
  BY DEF TypeOK
<1>2. Kept(Append(handled, e), WholeCalls) =
        IF e \in WholeCalls THEN Append(Kept(handled, WholeCalls), e)
        ELSE Kept(handled, WholeCalls)
  BY <1>1, KeptOfAppend
<1>3. Handled = Kept(handled, WholeCalls) /\ Handled' = Kept(handled', WholeCalls)
  BY DEF Handled, WholeCalls
<1>4. QED
  BY <1>2, <1>3
-----------------------------------------------------------------------------
\* The handler of the UDP receive hands its packet over, which is the oldest.
LEMMA UdpHandlerKeepsPromise ==
  ASSUME LoopInv, Complete, Head(completed).kind = "udp",
         Head(completed).error = "none",
         handled' = Append(handled, Call(Head(completed), buffer)),
         reads' = Append(reads, "udp")
  PROVE  MailStep
<1> DEFINE c == Head(completed)
<1> DEFINE e == Call(c, buffer)
<1>1. /\ c = completed[1] /\ 1 \in DOMAIN completed /\ c \in Completion
      /\ c.kind = "udp" /\ c.error = "none" /\ handled' = Append(handled, e)
      /\ UNCHANGED <<arriving, buffer, arrived>>
      /\ completed' \in Seq(Completion)
  BY CompletedIsTaken
<1>2. /\ c \in WholeTaken => Waiting = <<c>> \o Waiting'
      /\ c \notin WholeTaken => Waiting = Waiting'
  BY WaitingTaken
<1>3. /\ e = [as |-> endpoint, by |-> "udp", size |-> c.size, packet |-> buffer,
              sender |-> c.sender]
      /\ Took(c) /\ Taken(c)
  BY <1>1 DEF Call, Took, Taken
<1>4. \A p \in DOMAIN completed' : ~ IsUdp(completed'[p])
  BY NoOtherUdp
<1> HIDE DEF c, e
<1>5. /\ endpoint \in Endpoints
      /\ c.size = "whole" => endpoint = buffer.head.from
  BY <1>1, <1>3 DEF LoopInv, Pending
<1>6. TypeOK /\ buffer \in Contents /\ reads \in Seq(Kinds)
  BY DEF LoopInv, TypeOK
<1>7. e \in Calls /\ (e \in WholeCalls <=> c.size = "whole")
  BY <1>1, <1>3, <1>5, <1>6 DEF Calls, WholeCalls, Completion, Kinds
<1>8. c \in WholeTaken <=> c.size = "whole"
  BY <1>1, <1>3 DEF WholeTaken
<1>9. Waiting' = <<>>
  <2>1. \A p \in DOMAIN completed' : completed'[p] \notin WholeTaken
    BY <1>4 DEF WholeTaken, Taken, IsUdp
  <2>2. Kept(completed', WholeTaken) = <<>>
    BY <1>1, <2>1, NothingKept
  <2>3. QED
    BY <2>2 DEF Waiting, WholeTaken, Taken
<1>10. Open = TRUE /\ Open' = TRUE
  <2>1. Open
    BY <1>1, <1>3 DEF Open
  <2>2. /\ DOMAIN reads' = DOMAIN reads \cup {Len(reads) + 1}
        /\ reads'[Len(reads) + 1] = "udp"
    BY <1>6, AppendPositions DEF Kinds
  <2>3. Open'
    BY <2>2 DEF Open
  <2>4. QED
    BY <2>1, <2>3 DEF Open
<1>11. There' = There
  BY <1>1 DEF There
<1>12. CASE c.size # "whole"
  <2>1. Waiting' = Waiting
    BY <1>2, <1>8, <1>12
  <2>2. Handled' = Handled
    BY <1>1, <1>6, <1>7, <1>12, HandledAppended
  <2>3. QED
    BY <1>1, <1>10, <1>11, <2>1, <2>2, MailboxStutters
<1>13. CASE c.size = "whole"
  <2>1. PICK x \in Part, s \in Seq(Part) : x = buffer.head /\ s = PartsOf(There)
    BY <1>6, MappedLists, PartsAreParts
  <2>2. AllOf(Waiting, buffer.head) = <<x>>
    <3>1. Waiting = <<c>> \o <<>>
      BY <1>2, <1>8, <1>9, <1>13
    <3>2. Waiting = <<c>>
      BY <3>1
    <3>3. QED
      BY <1>6, <2>1, <3>2, MappedLists, AheadIsAList
  <2>3. Mail = <<x>> \o s
    BY <2>1, <2>2 DEF Mail
  <2>4. Mail' = s
    <3>1. AllOf(Waiting', buffer'.head) = <<>>
      BY <1>9 DEF AllOf
    <3>2. Mail' = AllOf(Waiting', buffer'.head) \o PartsOf(There')
      BY DEF Mail, AllOf, PartsOf
    <3>3. Mail' = <<>> \o s
      BY <1>11, <2>1, <3>1, <3>2
    <3>4. QED
      BY <2>1, <3>3, ConcatEmptySeq
  <2>5. Mail # <<>> /\ Head(Mail) = x /\ Mail' = Tail(Mail)
    BY <2>3, <2>4, HeadAndRest
  <2>6. Made' = Append(Made, [as |-> x.from, from |-> x.from, number |-> x.number])
    <3>1. Handled' = Append(Handled, e) /\ Handled \in Seq(Calls)
      BY <1>1, <1>6, <1>7, <1>13, HandledAppended, MappedLists
    <3>2. MadeOf(Append(Handled, e)) =
            Append(MadeOf(Handled), [as |-> e.as, from |-> e.packet.head.from,
                                     number |-> e.packet.head.number])
      BY <1>7, <3>1, MadeOfAppend
    <3>3. e.as = x.from /\ e.packet.head = x
      BY <1>3, <1>5, <1>13, <2>1
    <3>4. Made = MadeOf(Handled) /\ Made' = MadeOf(Handled')
      BY DEF Made, MadeOf
    <3>5. QED
      BY <3>1, <3>2, <3>3, <3>4
  <2>7. Promise!Handle
    <3>1. /\ Open /\ Mail # <<>> /\ Mail' = Tail(Mail)
          /\ Made' = Append(Made, Promise!Call(Head(Mail).from, Head(Mail)))
          /\ arrived' = arrived /\ Open' = Open
      BY <1>1, <1>10, <2>5, <2>6 DEF Promise!Call
    <3>2. QED
      BY <3>1 DEF Promise!Handle, Mail, Made, Open, AllOf, PartsOf, MadeOf
  <2>8. QED
    BY <2>7 DEF MailStep, Promise!Next
<1>14. QED
  BY <1>12, <1>13

\* The handler of a TCP receive, and one that ends its loop, hands over nothing
\* that is promised.
LEMMA OtherHandlerKeepsPromise ==
  ASSUME LoopInv, Complete, ~ Taken(Head(completed)),
         \/ UNCHANGED <<handled, reads>>
         \/ /\ Head(completed).kind = "tcp"
            /\ handled' = Append(handled, Call(Head(completed), tcpBuffer))
            /\ reads' = Append(reads, "tcp")
  PROVE  MailStep
<1>1. /\ Head(completed) \in Completion /\ Head(completed) = completed[1]
      /\ 1 \in DOMAIN completed
      /\ UNCHANGED <<arriving, buffer, arrived>>
  BY CompletedIsTaken
<1>2. Waiting' = Waiting
  <2>1. Head(completed) \notin WholeTaken
    BY DEF WholeTaken
  <2>2. QED
    BY <2>1, WaitingTaken
<1>3. Open' = Open
  BY OpenAfterOther
<1>4. Handled' = Handled
  <2>1. CASE UNCHANGED <<handled, reads>>
    BY <2>1 DEF Handled
  <2>2. CASE /\ Head(completed).kind = "tcp"
             /\ handled' = Append(handled, Call(Head(completed), tcpBuffer))
    <3> DEFINE e == Call(Head(completed), tcpBuffer)
    <3>1. e = [as |-> endpoint, by |-> "tcp", size |-> Head(completed).size,
               packet |-> tcpBuffer, sender |-> Head(completed).sender]
      BY <2>2 DEF Call
    <3>2. endpoint \in Endpoints /\ tcpBuffer \in Contents
      BY <1>1, <2>2 DEF LoopInv, EndpointIsSet, TypeOK
    <3>3. e \in Calls /\ e \notin WholeCalls
      BY <1>1, <3>1, <3>2 DEF Calls, WholeCalls, Completion, Kinds
    <3>4. QED
      BY <2>2, <3>3, HandledAppended DEF LoopInv
  <2>3. QED
    BY <2>1, <2>2
<1>5. There' = There
  BY <1>1 DEF There
<1>6. QED
  BY <1>1, <1>2, <1>3, <1>4, <1>5, MailboxStutters

LEMMA CompleteKeepsPromise ==
  ASSUME LoopInv, Complete
  PROVE  MailStep
<1> DEFINE c == Head(completed)
<1>1. \/ c.kind = "udp" /\ HandleReceiveFrom(c)
      \/ c.kind = "tcp" /\ HandleTcpReceiveFrom(c)
  BY DEF Complete
<1>2. CASE c.kind = "udp" /\ c.error = "none"
  BY <1>1, <1>2, UdpHandlerKeepsPromise DEF HandleReceiveFrom
<1>3. CASE c.kind = "udp" /\ c.error # "none"
  <2>1. UNCHANGED <<handled, reads>> /\ ~ Taken(c)
    BY <1>1, <1>3 DEF HandleReceiveFrom, Taken
  <2>2. QED
    BY <2>1, OtherHandlerKeepsPromise
<1>4. CASE c.kind = "tcp"
  <2>1. ~ Taken(c)
    BY <1>4 DEF Taken
  <2>2. QED
    BY <1>1, <1>4, <2>1, OtherHandlerKeepsPromise DEF HandleTcpReceiveFrom
<1>5. QED
  BY <1>1, <1>2, <1>3, <1>4

\* Another receive is started.
LEMMA StartTcpKeepsPromise ==
  ASSUME LoopInv, StartTcpReceive
  PROVE  MailStep
<1>1. /\ reads \in Seq(Kinds) /\ "tcp" \in Kinds /\ reads' = Append(reads, "tcp")
      /\ UNCHANGED <<arriving, completed, buffer, handled, arrived>>
  BY DEF LoopInv, TypeOK, StartTcpReceive, Kinds
<1>2. /\ DOMAIN reads' = DOMAIN reads \cup {Len(reads) + 1}
      /\ reads'[Len(reads) + 1] = "tcp"
      /\ \A p \in DOMAIN reads : reads'[p] = reads[p]
  BY <1>1, AppendPositions
<1>3. Open' <=> Open
  BY <1>1, <1>2 DEF Open, Taken
<1>4. UNCHANGED <<Waiting, There, Handled, Open>>
  BY <1>1, <1>3 DEF Waiting, There, Handled, Open
<1>5. QED
  BY <1>1, <1>4, MailboxStutters

LEMMA StepKeepsPromise ==
  ASSUME LoopInv, [Next]_vars
  PROVE  MailStep
<1>1. ASSUME NEW e \in Endpoints, NEW size \in Sizes, Arrive(e, size)
      PROVE  MailStep
  BY <1>1, ArriveKeepsPromise
<1>2. ASSUME NEW error \in Errors, PerformFails(error)
      PROVE  MailStep
  BY <1>2, FailureKeepsPromise
<1>3. CASE UNCHANGED vars
  <2>1. UNCHANGED <<arriving, reads, completed, buffer, handled, arrived>>
    BY <1>3 DEF vars
  <2>2. UNCHANGED <<Waiting, There, Handled, Open>>
    BY <2>1 DEF Waiting, There, Handled, Open
  <2>3. QED
    BY <2>1, <2>2, MailboxStutters
<1>4. QED
  BY <1>1, <1>2, <1>3, PerformKeepsPromise, CompleteKeepsPromise,
     StartTcpKeepsPromise DEF Next

LEMMA PromisedAtFirst == Init => Promise!Init
<1> SUFFICES ASSUME Init PROVE Promise!Init
  OBVIOUS
<1>1. /\ arriving = <<>> /\ completed = <<>> /\ handled = <<>>
      /\ reads = <<"udp">> /\ arrived = 0
  BY DEF Init, Started, Blank
<1>2. Waiting = <<>> /\ There = <<>> /\ Handled = <<>>
  BY <1>1, KeptOfNothing DEF Waiting, There, Handled
<1>3. Mail = <<>> /\ Made = <<>>
  BY <1>2 DEF Mail, Made, AllOf, PartsOf, MadeOf
<1>4. Open = TRUE
  BY <1>1 DEF Open
<1>5. QED
  BY <1>1, <1>3, <1>4 DEF Promise!Init, Mail, Made, Open, AllOf, PartsOf, MadeOf

-----------------------------------------------------------------------------
\* Every behaviour of the receive loops is one of a mailbox: what the handlers of
\* the UDP receive hand over are the packets that arrive, one by one and in the
\* order of their arrival, each once and as a packet of its sender, except those
\* that other receives on the socket take away.  (That nothing waits for ever is
\* the rest of ImplementsMailbox.)
THEOREM KeepsMailboxPromise ==
  Spec => Promise!Init /\ [][Promise!Next]_(Promise!mailboxVars)
<1>1. LoopInv /\ [Next]_vars => [Promise!Next]_(Promise!mailboxVars)
  BY StepKeepsPromise
     DEF MailStep, Promise!mailboxVars, Mail, Made, Open, AllOf, PartsOf, MadeOf
<1>2. QED
  BY <1>1, PromisedAtFirst, LoopInvariant, PTL DEF Spec
=============================================================================
