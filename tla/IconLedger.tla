----------------------------- MODULE IconLedger -----------------------------
(***************************************************************************)
(* The icon responder by itself, and a ledger of what it owes: for every   *)
(* user, what was asked for and what has been answered, in order.  Icons   *)
(* are loaded at any time, because any SimpleGame may be the first to need *)
(* one.  Users are connected here; Service has those who may be gone.      *)
(***************************************************************************)
EXTENDS Icons

CONSTANTS
  Home,        \* the connection of each user
  MaxAsked     \* bound: how many requests are ever made

ASSUME LedgerAssumption ==
  /\ Home \in [Usernames -> Ids]
  /\ MaxAsked \in Nat
  /\ \A d \in DOMAIN Requests : Len(Requests[d]) <= Capacity

VARIABLES
  asked,       \* the icons each user has asked for
  answered,    \* those of them the responder has dealt with
  requests,    \* how many requests have been made
  hasty        \* the users who have asked while an answer was due

ledgerVars == <<sent, fault, cached, queue, replies, asked, answered, requests, hasty>>

LedgerInit ==
  /\ WireInit /\ IconsInit
  /\ asked = [u \in Usernames |-> <<>>]
  /\ answered = [u \in Usernames |-> <<>>]
  /\ requests = 0
  /\ hasty = {}

Load(id, isThere) ==
  /\ id \notin cached
  /\ IF isThere THEN LoadAll(<<id>>) ELSE LoadFails(<<id>>)
  /\ replies' = {}
  /\ UNCHANGED <<sent, fault, queue, asked, answered, requests, hasty>>

Ask(u, d) ==
  /\ requests < MaxAsked
  /\ Len(Queued(u)) + Len(Requests[d]) <= MaxWanted
  /\ OnRequest(u, Home[u], Requests[d])
  /\ asked' = [asked EXCEPT ![u] = @ \o Requests[d]]
  /\ requests' = requests + 1
  /\ hasty' = IF u \in DOMAIN queue THEN hasty \cup {u} ELSE hasty
  /\ replies' = {}
  /\ UNCHANGED <<sent, fault, cached, answered>>

IconsOf(list) == [p \in DOMAIN list |-> list[p].icon]

Answer ==
  /\ DOMAIN queue # {}
  /\ \E peer \in [Usernames -> Endpoints] :
       replies' = {ReplyTo(Home[u], peer[u], queue[u]) : u \in DOMAIN queue}
  /\ answered' = [u \in Usernames |-> answered[u] \o IconsOf(Queued(u))]
  /\ QueueTaken
  /\ UNCHANGED <<sent, fault, cached, asked, requests, hasty>>

LedgerNext ==
  \/ \E id \in IconIds, isThere \in BOOLEAN : Load(id, isThere)
  \/ \E u \in Usernames, d \in DOMAIN Requests : Ask(u, d)
  \/ Answer

LedgerSpec == LedgerInit /\ [][LedgerNext]_ledgerVars
-----------------------------------------------------------------------------
\* Every icon that was asked for has been dealt with or waits, once and in the
\* order of the requests, however requests and ticks of the timer interleave.
EveryRequestCounts ==
  \A u \in Usernames : answered[u] \o IconsOf(Queued(u)) = asked[u]

\* A user who waits for the answer before asking again, for no more than fits,
\* is never sent a reply that memcpy cut off: what others ask for, and what the
\* user was sent before, does not add to it.
PatientUsersGetWholeReplies ==
  \A r \in replies : ~r.whole => \E u \in hasty : Home[u] = r.on
=============================================================================
