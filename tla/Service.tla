------------------------------ MODULE Service ------------------------------
(***************************************************************************)
(* The whole server: Server with the SimpleGames of the authorized clients *)
(* and the icon responder.  They meet in the event queues, Input for the   *)
(* games and ResourceRequest for the responder, in the icon cache, and in  *)
(* the calls back: a SimpleGame asks its client for its name, window and   *)
(* connection, and the responder looks a connection up by name when it     *)
(* answers.                                                                *)
(***************************************************************************)
EXTENDS Server, Game

ASSUME ServiceAssumption ==
  /\ {"input", "resource"} \subseteq PacketKinds
  /\ Bodies["input"] = DOMAIN Keys
  /\ Bodies["resource"] = DOMAIN Requests

serviceVars == <<vars, gameVars, iconVars, frames, replies>>

ServiceInit == Init /\ GameInit /\ IconsInit

ServiceTypeOK == TypeOK /\ GameTypeOK /\ IconsTypeOK
-----------------------------------------------------------------------------
\* The handlers of Server.
ServerStep ==
  /\ Next
  /\ frames' = {} /\ replies' = {}
  /\ UNCHANGED <<gameVars, iconVars>>

\* A PacketReceivedEvent<Input> is delivered to every SimpleGame.
DeliverInput ==
  /\ Running
  /\ TakePacket("input")
  /\ LET event == Head(packets["input"]) IN
     OnInput(event.username, Keys[event.payload])
  /\ sent' = {} /\ replies' = {}
  /\ UNCHANGED <<connections, sessionVars, queue>>

\* A PacketReceivedEvent<ResourceRequest> is delivered to the responder.
DeliverRequest ==
  /\ Running
  /\ TakePacket("resource")
  /\ LET event == Head(packets["resource"])
         ids   == Requests[event.payload] IN
     /\ Len(Queued(event.username)) + Len(ids) <= MaxWanted
     /\ OnRequest(event.username, event.from, ids)
  /\ sent' = {} /\ frames' = {} /\ replies' = {}
  /\ UNCHANGED <<connections, sessionVars, gameVars, cached, fault>>
-----------------------------------------------------------------------------
(* ResponderProcess::update *)

\* Mutation: the newest connection that is not taken yet.
NewestAnswers(u, i) == i \in connections /\ \A j \in connections : j <= i

\* The connection the reply to u is sent on: getConnection(username).
Answers(u, i) == IsFirst(i, Named(u))

\* What the sockets take.  The socket of a connection that is not activated is
\* not open; that its send fails is not looked at.
RepliesTo(U) ==
  UNION {{ReplyTo(i, con[i].peer, queue[u]) :
            i \in {j \in Ids : Answers(u, j) /\ con[j].activated}} : u \in U}

\* Everybody who waits is answered, in the order of the names.  A name that is
\* not listed any more ends the process; those before it have been answered.
Respond ==
  /\ Running
  /\ DOMAIN queue # {}
  /\ \/ /\ \A u \in DOMAIN queue : Named(u) # {}
        /\ replies' = RepliesTo(DOMAIN queue)
        /\ UNCHANGED fault
     \/ \E u \in DOMAIN queue :
          /\ Named(u) = {}
          /\ \E U \in SUBSET (DOMAIN queue \ {u}) : replies' = RepliesTo(U)
          /\ fault' = "responder"
  /\ QueueTaken
  /\ sent' = {} /\ frames' = {}
  /\ UNCHANGED <<networkVars, sessionVars, gameVars, cached>>

ServiceNext == ServerStep \/ DeliverInput \/ DeliverRequest \/ Respond

ServiceSpec == ServiceInit /\ [][ServiceNext]_serviceVars

\* The dispatcher delivers what is enqueued and the timer of PeriodMS<5> ticks.
ServiceFairSpec ==
  /\ ServiceSpec
  /\ WF_serviceVars(DeliverRequest)
  /\ WF_serviceVars(Respond)
-----------------------------------------------------------------------------
\* As long as nobody triggers ClientAuthorizationBlockedEvent, the responder
\* finds the connection of everyone who waits for icons, and no SimpleGame
\* outlives its client, although both use by name, unchecked and later, what
\* was there when the packet was received.
ResponderFindsUser == fault # "responder" /\ Strays = {}

\* Likewise, a reply goes to the connection its icons were requested on, and to
\* no other connection that has the name by then.
RepliesGoToRequester ==
  \A r \in replies : \A p \in DOMAIN r.wanted : r.wanted[p].from = r.on

\* A client that was sent a frame can get the icons in it: when it asks for them,
\* the cache has them, and they are in the reply, which leaves out what the cache
\* does not have.  A reply that is longer than the packet is cut off by the copy
\* into it, wherever that falls, so nothing is promised of the icons in one.
FramedIconsAreKnown ==
  \A r \in replies : r.on \in shown /\ r.whole =>
    \A p \in DOMAIN r.wanted :
      r.wanted[p].icon \in {PlayerIcon, TileIcon} =>
        \E q \in DOMAIN r.icons : r.icons[q] = r.wanted[p].icon

\* How far keys move along an axis, to the one side and to the other.
Steps(keys, key) == Cardinality({p \in DOMAIN keys : keys[p] = key})

\* The position of a player changes only by an input received on the connection
\* of its own client, by 32 for each key, and modulo 2^16: opposite keys
\* cancel, also beyond the left and upper edge.
MovesAreOwn ==
  [][\A g \in Ids :
       position'[g] # position[g] =>
         LET event == Head(packets["input"])
             keys  == Keys[event.payload]
             right == 32 * Steps(keys, "D") + Word * Len(keys)
             down  == 32 * Steps(keys, "S") + Word * Len(keys) IN
         /\ event.from = g
         /\ position'[g].x = (position[g].x + right - 32 * Steps(keys, "A")) % Word
         /\ position'[g].y = (position[g].y + down - 32 * Steps(keys, "W")) % Word]_serviceVars

\* Every request that was received is answered, as long as the process runs.
RequestsAreAnswered ==
  \A i \in Ids :
    (\E p \in DOMAIN packets["resource"] : packets["resource"][p].from = i)
      ~> (~Running \/ \E r \in replies : r.on = i)
=============================================================================
