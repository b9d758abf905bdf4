------------------------------- MODULE Icons -------------------------------
(***************************************************************************)
(* graphics.h and graphics.cpp: the cache of loaded icons, and the         *)
(* IconRequestsResponder, which collects the icons each user asks for and  *)
(* answers all users every five milliseconds.                              *)
(***************************************************************************)
EXTENDS Wire, Sieve

CONSTANTS
  IconIds,     \* the hashed names of icons
  Requests,    \* the bodies of ResourceRequest packets: lists of icons
  Capacity,    \* how many serialized icons fit into ResourceUpdate::serialized
  MaxWanted    \* bound: how many icons wait under one name

ASSUME IconsAssumption ==
  /\ DOMAIN Requests \subseteq Payloads
  /\ \A d \in DOMAIN Requests : Requests[d] \in Seq(IconIds)
  /\ Capacity \in Nat /\ MaxWanted \in Nat

VARIABLES
  cached,      \* the ids in iconCache()
  queue,       \* IconRequestsResponder::queue, a map from names to lists
  replies      \* the ResourceUpdates the last handler sent

iconVars == <<cached, queue>>

\* An icon that waits.  `from` is history, for the properties only: the
\* connection that asked for it.
Wanted == [icon: IconIds, from: Ids]

\* A ResourceUpdate: the connection it was sent on, the address that connection
\* reaches, the queue it answers, the icons in it, and whether they all fit.
Reply == [on: Ids, to: Endpoints, wanted: Seq(Wanted), icons: Seq(IconIds),
          whole: BOOLEAN]

IconsTypeOK ==
  /\ cached \subseteq IconIds
  /\ DOMAIN queue \subseteq Usernames
  /\ \A u \in DOMAIN queue : queue[u] \in Seq(Wanted)
  /\ replies \subseteq Reply

NoQueue == [u \in {} |-> <<>>]

IconsInit ==
  /\ cached = {}
  /\ queue = NoQueue
  /\ replies = {}
-----------------------------------------------------------------------------
(* load *)

\* A file is read once: what is in the cache is returned as it is.  The icons
\* are loaded in the order of the list.
LoadAll(ids) == cached' = cached \cup {ids[p] : p \in DOMAIN ids}

\* One that is not cached cannot be loaded: IconLoader throws, and those before
\* it stay in the cache.
LoadFails(ids) ==
  \E p \in DOMAIN ids :
    /\ ids[p] \notin cached
    /\ cached' = cached \cup {ids[q] : q \in 1 .. p - 1}
-----------------------------------------------------------------------------
(* onRequest *)

\* What the queue has for the name; queue[name] makes an empty list.
Queued(u) == IF u \in DOMAIN queue THEN queue[u] ELSE <<>>

\* Mutation: whoever waits waits for the same.
WithQueuedForAll(u, list) == [v \in DOMAIN queue \cup {u} |-> list]

WithQueued(u, list) ==
  [v \in DOMAIN queue \cup {u} |-> IF v = u THEN list ELSE queue[v]]

WantedBy(from, ids) == [p \in DOMAIN ids |-> [icon |-> ids[p], from |-> from]]

\* Mutation: a later request replaces what waits.
OnRequestReplaces(u, from, ids) == queue' = WithQueued(u, WantedBy(from, ids))

\* Mutation: an empty request makes no entry.
OnRequestUnlessEmpty(u, from, ids) ==
  IF ids = <<>> THEN UNCHANGED queue
  ELSE queue' = WithQueued(u, Queued(u) \o WantedBy(from, ids))

OnRequest(u, from, ids) ==
  queue' = WithQueued(u, Queued(u) \o WantedBy(from, ids))
-----------------------------------------------------------------------------
(* ResponderProcess::update *)

\* The icons of a list the cache has; an unknown one is logged and left out.
Known(list) ==
  Kept([p \in DOMAIN list |-> list[p].icon], cached)

\* What is sent on connection i, to the address its socket has reached.
ReplyTo(i, peer, list) ==
  [on |-> i, to |-> peer, wanted |-> list, icons |-> Known(list),
   whole |-> Len(Known(list)) <= Capacity]

\* mqueue.merge(parent->queue)
QueueTaken == queue' = NoQueue
=============================================================================
