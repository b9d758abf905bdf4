-------------------------- MODULE IconLedgerProofs --------------------------
(***************************************************************************)
(* Proofs about IconLedger, for every set of users, icons and requests.    *)
(*                                                                         *)
(* That a patient user's reply is never cut off rests on what waits for    *)
(* such a user being a single request (ShortQueues) and on a reply never   *)
(* having more icons than were asked for.                                  *)
(***************************************************************************)
EXTENDS IconLedger, LoopLemmas

LedgerTypeOK ==
  /\ cached \subseteq IconIds
  /\ DOMAIN queue \subseteq Usernames
  /\ \A u \in DOMAIN queue : queue[u] \in Seq(Wanted)
  /\ asked \in [Usernames -> Seq(IconIds)]
  /\ answered \in [Usernames -> Seq(IconIds)]

ShortQueues ==
  \A u \in Usernames : u \notin hasty => Len(Queued(u)) <= Capacity

LedgerInv ==
  /\ LedgerTypeOK
  /\ EveryRequestCounts
  /\ ShortQueues
  /\ PatientUsersGetWholeReplies

USE IconsAssumption, LedgerAssumption DEF IconsAssumption, LedgerAssumption
-----------------------------------------------------------------------------
LEMMA IconsOfList ==
  ASSUME NEW list \in Seq(Wanted)
  PROVE  IconsOf(list) \in Seq(IconIds) /\ Len(IconsOf(list)) = Len(list)
<1>1. Len(list) \in Nat /\ DOMAIN list = 1 .. Len(list)
  BY LenProperties
<1>2. \A p \in 1 .. Len(list) : list[p].icon \in IconIds
  <2>1. \A p \in 1 .. Len(list) : list[p] \in Wanted
    BY LenProperties
  <2>2. QED
    BY <2>1 DEF Wanted
<1>3. IconsOf(list) = [p \in 1 .. Len(list) |-> list[p].icon]
  BY <1>1 DEF IconsOf
<1>4. QED
  BY <1>1, <1>2, <1>3

\* What a request adds to a list is what it asks for.
LEMMA IconsOfLonger ==
  ASSUME NEW list \in Seq(Wanted), NEW from \in Ids, NEW ids \in Seq(IconIds)
  PROVE  /\ list \o WantedBy(from, ids) \in Seq(Wanted)
         /\ Len(list \o WantedBy(from, ids)) = Len(list) + Len(ids)
         /\ IconsOf(list \o WantedBy(from, ids)) = IconsOf(list) \o ids
<1> DEFINE more == WantedBy(from, ids)
<1>1. more \in Seq(Wanted) /\ Len(more) = Len(ids)
      /\ \A p \in 1 .. Len(ids) : more[p].icon = ids[p]
  <2>1. /\ Len(ids) \in Nat /\ DOMAIN ids = 1 .. Len(ids)
        /\ \A p \in 1 .. Len(ids) : ids[p] \in IconIds
    BY LenProperties
  <2>2. more = [p \in 1 .. Len(ids) |-> [icon |-> ids[p], from |-> from]]
    BY <2>1 DEF WantedBy
  <2>3. \A p \in 1 .. Len(ids) : [icon |-> ids[p], from |-> from] \in Wanted
    BY <2>1 DEF Wanted
  <2>4. QED
    BY <2>1, <2>2, <2>3
<1>2. IconsOf(list) \in Seq(IconIds) /\ Len(IconsOf(list)) = Len(list)
  BY IconsOfList
<1> HIDE DEF more
<1> DEFINE longer == list \o more
<1>3. /\ longer \in Seq(Wanted) /\ Len(longer) = Len(list) + Len(ids)
      /\ \A p \in 1 .. Len(list) + Len(ids) :
           longer[p] = IF p <= Len(list) THEN list[p] ELSE more[p - Len(list)]
  <2>1. PICK m \in Seq(Wanted) : m = more /\ Len(m) = Len(ids)
    BY <1>1
  <2>2. /\ list \o m \in Seq(Wanted) /\ Len(list \o m) = Len(list) + Len(m)
        /\ \A p \in 1 .. Len(list) + Len(m) :
             (list \o m)[p] = IF p <= Len(list) THEN list[p] ELSE m[p - Len(list)]
    BY ConcatProperties
  <2>3. QED
    BY <2>1, <2>2
<1> HIDE DEF longer
<1>4. IconsOf(longer) \in Seq(IconIds) /\ Len(IconsOf(longer)) = Len(longer)
  BY <1>3, IconsOfList
<1>5. /\ IconsOf(list) \o ids \in Seq(IconIds)
      /\ Len(IconsOf(list) \o ids) = Len(list) + Len(ids)
      /\ \A p \in 1 .. Len(list) + Len(ids) :
           (IconsOf(list) \o ids)[p] =
             IF p <= Len(list) THEN IconsOf(list)[p] ELSE ids[p - Len(list)]
  <2>1. PICK icons \in Seq(IconIds) : icons = IconsOf(list) /\ Len(icons) = Len(list)
    BY <1>2
  <2>2. /\ icons \o ids \in Seq(IconIds)
        /\ Len(icons \o ids) = Len(icons) + Len(ids)
        /\ \A p \in 1 .. Len(icons) + Len(ids) :
             (icons \o ids)[p] = IF p <= Len(icons) THEN icons[p] ELSE ids[p - Len(icons)]
    BY ConcatProperties
  <2>3. QED
    BY <2>1, <2>2
<1>6. \A p \in 1 .. Len(longer) : IconsOf(longer)[p] = (IconsOf(list) \o ids)[p]
  <2> TAKE p \in 1 .. Len(longer)
  <2>1. /\ Len(list) \in Nat /\ DOMAIN list = 1 .. Len(list)
        /\ Len(ids) \in Nat /\ DOMAIN longer = 1 .. Len(longer)
    BY <1>3, LenProperties
  <2>2. IconsOf(longer)[p] = longer[p].icon
    BY <2>1 DEF IconsOf
  <2>3. CASE p <= Len(list)
    <3>1. IconsOf(list)[p] = list[p].icon
      BY <2>1, <2>3 DEF IconsOf
    <3>2. QED
      BY <1>3, <1>5, <2>1, <2>2, <2>3, <3>1
  <2>4. CASE ~(p <= Len(list))
    <3>1. p - Len(list) \in 1 .. Len(ids)
      BY <1>3, <2>1, <2>4
    <3>2. more[p - Len(list)].icon = ids[p - Len(list)]
      BY <1>1, <3>1
    <3>3. QED
      BY <1>3, <1>5, <2>1, <2>2, <2>4, <3>2
  <2>5. QED
    BY <2>3, <2>4
<1>7. IconsOf(longer) = IconsOf(list) \o ids
  BY <1>3, <1>4, <1>5, <1>6, SeqEqual
<1>8. QED
  BY <1>3, <1>7 DEF longer, more

LEMMA QueuedIsAList ==
  ASSUME LedgerTypeOK, NEW u \in Usernames
  PROVE  Queued(u) \in Seq(Wanted)
BY DEF LedgerTypeOK, Queued

\* A reply has no more icons than were asked for.
LEMMA KnownAreNoMore ==
  ASSUME NEW list \in Seq(Wanted)
  PROVE  Len(Known(list)) <= Len(list) /\ Len(Known(list)) \in Nat
<1>1. IconsOf(list) \in Seq(IconIds) /\ Len(IconsOf(list)) = Len(list)
  BY IconsOfList
<1>2. Known(list) = Kept(IconsOf(list), cached)
  BY DEF Known, IconsOf
<1>3. /\ Kept(IconsOf(list), cached) \in Seq(IconIds \cap cached)
      /\ Len(Kept(IconsOf(list), cached)) <= Len(IconsOf(list))
  BY <1>1, KeptProperties
<1>4. QED
  BY <1>1, <1>2, <1>3, LenProperties
-----------------------------------------------------------------------------
LEMMA LedgerStarts == LedgerInit => LedgerInv
<1> SUFFICES ASSUME LedgerInit PROVE LedgerInv
  OBVIOUS
<1>1. /\ cached = {} /\ DOMAIN queue = {} /\ replies = {}
      /\ asked = [u \in Usernames |-> <<>>]
      /\ answered = [u \in Usernames |-> <<>>]
  BY DEF LedgerInit, IconsInit, NoQueue
<1>2. LedgerTypeOK
  BY <1>1 DEF LedgerTypeOK
<1>3. \A u : Queued(u) = <<>>
  BY <1>1 DEF Queued
<1>4. IconsOf(<<>>) = <<>>
  BY DEF IconsOf
<1>5. EveryRequestCounts
  BY <1>1, <1>3, <1>4 DEF EveryRequestCounts
<1>6. ShortQueues /\ PatientUsersGetWholeReplies
  BY <1>1, <1>3 DEF ShortQueues, PatientUsersGetWholeReplies
<1>7. QED
  BY <1>2, <1>5, <1>6 DEF LedgerInv

LEMMA LedgerLoads ==
  ASSUME LedgerInv, NEW id \in IconIds, NEW isThere \in BOOLEAN, Load(id, isThere)
  PROVE  LedgerInv'
<1>1. replies' = {} /\ UNCHANGED <<queue, asked, answered, requests, hasty>>
  BY DEF Load
<1>2. cached' \subseteq IconIds
  <2>1. LoadAll(<<id>>) \/ LoadFails(<<id>>)
    BY DEF Load
  <2>2. QED
    BY <2>1 DEF LoadAll, LoadFails, LedgerInv, LedgerTypeOK
<1>3. LedgerTypeOK'
  BY <1>1, <1>2 DEF LedgerInv, LedgerTypeOK
<1>4. (EveryRequestCounts /\ ShortQueues)'
  BY <1>1 DEF LedgerInv, EveryRequestCounts, ShortQueues, Queued
<1>5. PatientUsersGetWholeReplies'
  BY <1>1 DEF PatientUsersGetWholeReplies
<1>6. QED
  BY <1>3, <1>4, <1>5 DEF LedgerInv

LEMMA LedgerIsAsked ==
  ASSUME LedgerInv, NEW u \in Usernames, NEW d \in DOMAIN Requests, Ask(u, d)
  PROVE  LedgerInv'
<1> DEFINE ids == Requests[d]
<1> DEFINE list == Queued(u) \o WantedBy(Home[u], ids)
<1>1. /\ queue' = [v \in DOMAIN queue \cup {u} |-> IF v = u THEN list ELSE queue[v]]
      /\ asked' = [asked EXCEPT ![u] = @ \o ids]
      /\ hasty' = IF u \in DOMAIN queue THEN hasty \cup {u} ELSE hasty
      /\ replies' = {} /\ UNCHANGED <<cached, answered>>
  BY DEF Ask, OnRequest, WithQueued
<1>2. LedgerTypeOK /\ Queued(u) \in Seq(Wanted)
  BY QueuedIsAList DEF LedgerInv
<1>3. ids \in Seq(IconIds) /\ Len(ids) <= Capacity /\ Len(ids) \in Nat /\ Home[u] \in Ids
  BY LenProperties
<1>4. /\ list \in Seq(Wanted) /\ Len(list) = Len(Queued(u)) + Len(ids)
      /\ IconsOf(list) = IconsOf(Queued(u)) \o ids
  BY <1>2, <1>3, IconsOfLonger
<1> HIDE DEF list, ids
<1>5. /\ DOMAIN queue' = DOMAIN queue \cup {u} /\ queue'[u] = list
      /\ \A v \in DOMAIN queue \ {u} : queue'[v] = queue[v]
      /\ asked'[u] = asked[u] \o ids
      /\ \A v \in Usernames \ {u} : asked'[v] = asked[v]
      /\ asked[u] \in Seq(IconIds)
  BY <1>1, <1>2 DEF LedgerTypeOK
<1>6. /\ Queued(u)' = list
      /\ \A v \in Usernames \ {u} : Queued(v)' = Queued(v)
  BY <1>5 DEF Queued
<1>7. LedgerTypeOK'
  <2>1. asked' \in [Usernames -> Seq(IconIds)]
    BY <1>1, <1>2, <1>3, ConcatProperties DEF LedgerTypeOK
  <2>2. \A v \in DOMAIN queue' : queue'[v] \in Seq(Wanted)
    BY <1>2, <1>4, <1>5 DEF LedgerTypeOK
  <2>3. QED
    BY <1>1, <1>2, <1>5, <2>1, <2>2 DEF LedgerTypeOK
<1>8. EveryRequestCounts'
  <2>1. answered[u] \o IconsOf(Queued(u)) = asked[u]
    BY DEF LedgerInv, EveryRequestCounts
  <2>2. answered[u] \in Seq(IconIds) /\ IconsOf(Queued(u)) \in Seq(IconIds)
    BY <1>2, IconsOfList DEF LedgerTypeOK
  <2>3. answered[u] \o IconsOf(list) = asked'[u]
    <3>1. answered[u] \o (IconsOf(Queued(u)) \o ids) =
            (answered[u] \o IconsOf(Queued(u))) \o ids
      <4>1. PICK a \in Seq(IconIds), b \in Seq(IconIds) :
              a = answered[u] /\ b = IconsOf(Queued(u))
        BY <2>2
      <4>2. ids \in Seq(IconIds)
        BY <1>3
      <4>3. (a \o b) \o ids = a \o (b \o ids)
        BY <4>2, Regroup
      <4>4. QED
        BY <4>1, <4>3
    <3>2. QED
      BY <1>4, <1>5, <2>1, <3>1
  <2>4. \A v \in Usernames \ {u} : answered[v] \o IconsOf(Queued(v)) = asked[v]
    BY DEF LedgerInv, EveryRequestCounts
  <2>5. QED
    BY <1>1, <1>5, <1>6, <2>3, <2>4 DEF EveryRequestCounts, IconsOf
<1>9. ShortQueues'
  <2>1. u \notin hasty' => Len(list) <= Capacity
    <3>1. u \notin hasty' => Queued(u) = <<>>
      BY <1>1 DEF Queued
    <3>2. QED
      BY <1>3, <1>4, <3>1
  <2>2. \A v \in Usernames \ {u} : v \notin hasty' => Len(Queued(v)) <= Capacity
    BY <1>1 DEF LedgerInv, ShortQueues
  <2>3. QED
    BY <1>6, <2>1, <2>2 DEF ShortQueues
<1>10. PatientUsersGetWholeReplies'
  BY <1>1 DEF PatientUsersGetWholeReplies
<1>11. QED
  BY <1>7, <1>8, <1>9, <1>10 DEF LedgerInv

LEMMA LedgerAnswers ==
  ASSUME LedgerInv, Answer
  PROVE  LedgerInv'
<1>1. /\ queue' = NoQueue /\ UNCHANGED <<cached, asked, hasty>>
      /\ answered' = [u \in Usernames |-> answered[u] \o IconsOf(Queued(u))]
  BY DEF Answer, QueueTaken
<1>2. PICK peer \in [Usernames -> Endpoints] :
        replies' = {ReplyTo(Home[u], peer[u], queue[u]) : u \in DOMAIN queue}
  BY DEF Answer
<1>3. LedgerTypeOK /\ DOMAIN queue \subseteq Usernames
  BY DEF LedgerInv, LedgerTypeOK
<1>4. \A u \in Usernames : /\ IconsOf(Queued(u)) \in Seq(IconIds)
                           /\ answered[u] \in Seq(IconIds)
  BY <1>3, QueuedIsAList, IconsOfList DEF LedgerTypeOK
<1>5. \A u : Queued(u)' = <<>>
  BY <1>1 DEF Queued, NoQueue
<1>6. LedgerTypeOK'
  <2>1. \A u \in Usernames : answered[u] \o IconsOf(Queued(u)) \in Seq(IconIds)
    BY <1>4, ConcatProperties
  <2>2. DOMAIN queue' = {}
    BY <1>1 DEF NoQueue
  <2>3. QED
    BY <1>1, <1>3, <2>1, <2>2 DEF LedgerTypeOK
<1>7. EveryRequestCounts'
  <2>1. \A u \in Usernames : answered'[u] = asked'[u] /\ asked'[u] \in Seq(IconIds)
    BY <1>1, <1>3 DEF LedgerInv, EveryRequestCounts, LedgerTypeOK
  <2>2. IconsOf(<<>>) = <<>>
    BY DEF IconsOf
  <2>3. \A u \in Usernames : asked'[u] \o <<>> = asked'[u]
    BY <2>1, ConcatEmptySeq
  <2>4. QED
    BY <1>5, <2>1, <2>2, <2>3 DEF EveryRequestCounts, IconsOf
<1>8. ShortQueues'
  BY <1>5 DEF ShortQueues
<1>9. PatientUsersGetWholeReplies'
  <2> SUFFICES ASSUME NEW r \in replies', ~r.whole
               PROVE  \E u \in hasty : Home[u] = r.on
    BY <1>1 DEF PatientUsersGetWholeReplies
  <2>1. PICK u \in DOMAIN queue : r = ReplyTo(Home[u], peer[u], queue[u])
    BY <1>2
  <2>2. r.on = Home[u] /\ r.whole = (Len(Known(queue[u])) <= Capacity)
    BY <2>1 DEF ReplyTo
  <2>3. u \in Usernames /\ queue[u] \in Seq(Wanted) /\ Queued(u) = queue[u]
    BY <1>3 DEF LedgerTypeOK, Queued
  <2>4. Len(Known(queue[u])) <= Len(queue[u]) /\ Len(Known(queue[u])) \in Nat
        /\ Len(queue[u]) \in Nat
    BY <2>3, KnownAreNoMore, LenProperties
  <2>5. ~(Len(queue[u]) <= Capacity)
    <3>1. ~(Len(Known(queue[u])) <= Capacity)
      BY <2>2, Zenon
    <3>2. QED
      BY <2>4, <3>1
  <2>6. u \in hasty
    BY <2>3, <2>5 DEF LedgerInv, ShortQueues
  <2>7. QED
    BY <2>2, <2>6
<1>10. QED
  BY <1>6, <1>7, <1>8, <1>9 DEF LedgerInv

LEMMA LedgerGoesOn == LedgerInv /\ [LedgerNext]_ledgerVars => LedgerInv'
<1> SUFFICES ASSUME LedgerInv, [LedgerNext]_ledgerVars PROVE LedgerInv'
  OBVIOUS
<1>1. ASSUME NEW id \in IconIds, NEW isThere \in BOOLEAN, Load(id, isThere)
      PROVE  LedgerInv'
  BY <1>1, LedgerLoads
<1>2. ASSUME NEW u \in Usernames, NEW d \in DOMAIN Requests, Ask(u, d)
      PROVE  LedgerInv'
  BY <1>2, LedgerIsAsked
<1>3. CASE Answer
  BY <1>3, LedgerAnswers
<1>4. CASE UNCHANGED ledgerVars
  BY <1>4 DEF ledgerVars, LedgerInv, LedgerTypeOK, EveryRequestCounts, ShortQueues,
     PatientUsersGetWholeReplies, Queued
<1>5. QED
  BY <1>1, <1>2, <1>3, <1>4 DEF LedgerNext

LEMMA LedgerInvariant == LedgerSpec => []LedgerInv
BY LedgerStarts, LedgerGoesOn, PTL DEF LedgerSpec
-----------------------------------------------------------------------------
\* However onRequest and the ticks of ResponderProcess interleave, what a user
\* asked for has been dealt with or waits, once and in order, for any number of
\* users and requests of any length.
THEOREM RequestsAllCount == LedgerSpec => []EveryRequestCounts
<1>1. LedgerInv => EveryRequestCounts
  BY DEF LedgerInv
<1>2. QED
  BY <1>1, LedgerInvariant, PTL

\* The memcpy of ResponderProcess::update cuts off no reply to a user who always
\* waits for the answer and asks for no more than fits.
THEOREM PatienceIsRewarded == LedgerSpec => []PatientUsersGetWholeReplies
<1>1. LedgerInv => PatientUsersGetWholeReplies
  BY DEF LedgerInv
<1>2. QED
  BY <1>1, LedgerInvariant, PTL
=============================================================================
