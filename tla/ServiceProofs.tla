--------------------------- MODULE ServiceProofs ---------------------------
(***************************************************************************)
(* Proofs about Service, and about what holds of Server as long as nobody  *)
(* triggers ClientAuthorizationBlockedEvent (Blockable = {}).              *)
(*                                                                         *)
(* Then no entry ever leaves the list, so the name that was attached to a  *)
(* packet when it was received still belongs to the same connection when   *)
(* the packet, or the icons it asks for, are looked at: names are unique,  *)
(* and the connection that was found by its address holds the name         *)
(* (Holds).  Everything that is attributed by name is attributed rightly   *)
(* because of that.                                                        *)
(*                                                                         *)
(* That the icons of a frame can be had needs no such condition: a frame   *)
(* is sent only after they have been loaded (IconsAreLoaded).  What        *)
(* an input does to a position is followed through the loop over its keys  *)
(* with the lemmas of LoopLemmas.                                          *)
(*                                                                         *)
(* At the end, that requests are answered: they move up in a queue nobody  *)
(* overtakes in, and only the responder makes room for them.               *)
(***************************************************************************)
EXTENDS Service, LifecycleProofs, LoopLemmas, FiniteSetTheorems
-----------------------------------------------------------------------------
(* The loop over the keys of an input. *)

Codes == {"W", "A", "S", "D", "other"}

\* How often a key is among the first n.
Count(keys, key, n) == Cardinality({p \in 1 .. n : keys[p] = key})

LEMMA CountOfPasses ==
  ASSUME NEW keys, NEW key, NEW n \in Nat
  PROVE  /\ Count(keys, key, 0) = 0
         /\ Count(keys, key, n) \in 0 .. n
         /\ Count(keys, key, n + 1) =
              Count(keys, key, n) + (IF keys[n + 1] = key THEN 1 ELSE 0)
<1> DEFINE C(m) == {p \in 1 .. m : keys[p] = key}
<1>1. C(0) = {}
  OBVIOUS
<1>2. IsFiniteSet(1 .. n) /\ Cardinality(1 .. n) = n
  BY FS_Interval
<1>3. C(n) \in SUBSET (1 .. n)
  OBVIOUS
<1>4. IsFiniteSet(C(n)) /\ Cardinality(C(n)) <= n /\ Cardinality(C(n)) \in Nat
  BY <1>2, <1>3, FS_Subset, FS_CardinalityType
<1>5. Cardinality(C(n + 1)) = Cardinality(C(n)) + (IF keys[n + 1] = key THEN 1 ELSE 0)
  <2>1. CASE keys[n + 1] = key
    <3>1. C(n + 1) = C(n) \cup {n + 1} /\ n + 1 \notin C(n)
      BY <2>1
    <3>2. QED
      BY <1>4, <2>1, <3>1, FS_AddElement
  <2>2. CASE keys[n + 1] # key
    <3>1. \A p \in 1 .. n + 1 : p = n + 1 \/ p \in 1 .. n
      OBVIOUS
    <3>2. \A p : p \in C(n + 1) <=> p \in C(n)
      BY <2>2, <3>1
    <3> HIDE DEF C
    <3>s. C(n + 1) = C(n)
      BY <3>2
    <3>3. QED
      BY <1>4, <2>2, <3>s
  <2>3. QED
    BY <2>1, <2>2
<1>6. QED
  BY <1>1, <1>4, <1>5, FS_EmptySet DEF Count

\* 16-bit arithmetic.
Words == 0 .. Word - 1

LEMMA Wraps ==
  ASSUME NEW a \in Int
  PROVE  a % Word \in Int /\ 0 <= a % Word /\ a % Word < Word
BY DEF Word

LEMMA SmallAsItIs ==
  ASSUME NEW a \in Int, 0 <= a, a < Word
  PROVE  a % Word = a
BY DEF Word

LEMMA WordsAreInRange ==
  ASSUME NEW a \in Int
  PROVE  (0 <= a /\ a < Word) <=> a \in 0 .. Word - 1
BY DEF Word

\* After n keys that move up and down an axis so often.
Place(start, n, up, down) == (start + (32 * up + Word * n) - 32 * down) % Word

Up(v) == (v + 32) % Word
Down(v) == (v + Word - 32) % Word
Pushed(v, key, to, fro) ==
  IF key = to THEN Up(v) ELSE IF key = fro THEN Down(v) ELSE v

LEMMA PlaceBeforeKeys ==
  ASSUME NEW start \in Words
  PROVE  Place(start, 0, 0, 0) = start
<1>1. start \in Int /\ 0 <= start /\ start < 65536
  BY DEF Word, Words
<1>2. start + (32 * 0 + Word * 0) - 32 * 0 = start
  BY <1>1 DEF Word
<1>3. start % Word = start
  BY <1>1, SmallAsItIs DEF Word
<1>4. QED
  BY <1>2, <1>3, Zenon DEF Place

LEMMA PlaceAfterKey ==
  ASSUME NEW start \in Words, NEW n \in Nat,
         NEW up \in Int, NEW down \in Int
  PROVE  /\ Up(Place(start, n, up, down)) = Place(start, n + 1, up + 1, down)
         /\ Down(Place(start, n, up, down)) = Place(start, n + 1, up, down + 1)
         /\ Place(start, n, up, down) = Place(start, n + 1, up, down)
<1> DEFINE a == start + (32 * up + Word * n) - 32 * down
<1>1. start \in Int /\ 0 <= start /\ start < 65536 /\ Word = 65536
  BY DEF Word, Words
<1>2. a \in Int
  BY <1>1
<1>4. /\ Place(start, n, up, down) = a % Word
      /\ Place(start, n + 1, up + 1, down) = (a + 32 + Word) % Word
      /\ Place(start, n + 1, up, down + 1) = (a - 32 + Word) % Word
      /\ Place(start, n + 1, up, down) = (a + Word) % Word
  BY <1>1 DEF Place
<1> HIDE DEF a
<1>5. ((a % Word) + 32) % Word = (a + 32 + Word) % Word
  BY <1>2 DEF Word
<1>6. ((a % Word) + Word - 32) % Word = (a - 32 + Word) % Word
  BY <1>2 DEF Word
<1>7. a % Word = (a + Word) % Word
  BY <1>2 DEF Word
<1>8. QED
  BY <1>4, <1>5, <1>6, <1>7, Zenon DEF Up, Down

LEMMA PressedAxes ==
  ASSUME NEW p \in Positions, NEW key
  PROVE  /\ Pressed(p, key) \in Positions
         /\ Pressed(p, key).x = Pushed(p.x, key, "D", "A")
         /\ Pressed(p, key).y = Pushed(p.y, key, "S", "W")
<1>1. /\ p.x \in 0 .. Word - 1 /\ p.y \in 0 .. Word - 1
      /\ p = [x |-> p.x, y |-> p.y]
  BY DEF Positions
<1>2. ASSUME NEW a \in 0 .. Word - 1
      PROVE  (a + 32) % Word \in 0 .. Word - 1 /\ (a + Word - 32) % Word \in 0 .. Word - 1
  <2>1. a + 32 \in Int /\ a + Word - 32 \in Int
    BY DEF Word
  <2>2. PICK b \in Int, c \in Int : b = a + 32 /\ c = a + Word - 32
    BY <2>1
  <2>3. b \in Int /\ c \in Int
    OBVIOUS
  <2>4. b % Word \in 0 .. Word - 1 /\ c % Word \in 0 .. Word - 1
    BY <2>3, Wraps, WordsAreInRange, Zenon
  <2>5. QED
    BY <2>2, <2>4
<1>3. /\ key = "W" => Pressed(p, key) = [p EXCEPT !.y = (@ + Word - 32) % Word]
      /\ key = "S" => Pressed(p, key) = [p EXCEPT !.y = (@ + 32) % Word]
      /\ key = "A" => Pressed(p, key) = [p EXCEPT !.x = (@ + Word - 32) % Word]
      /\ key = "D" => Pressed(p, key) = [p EXCEPT !.x = (@ + 32) % Word]
      /\ key \notin {"W", "S", "A", "D"} => Pressed(p, key) = p
  BY DEF Pressed
<1>4. QED
  BY <1>1, <1>2, <1>3 DEF Positions, Up, Down, Pushed

\* Where the loop leaves a player, whatever it passes through on the way.
Axes(p, q, keys, n) ==
  /\ q \in Positions
  /\ q.x = Place(p.x, n, Count(keys, "D", n), Count(keys, "A", n))
  /\ q.y = Place(p.y, n, Count(keys, "S", n), Count(keys, "W", n))

LEMMA AxisAfterKey ==
  ASSUME NEW start \in Words, NEW n \in Nat, NEW keys, NEW to, NEW fro,
         to # fro
  PROVE  Pushed(Place(start, n, Count(keys, to, n), Count(keys, fro, n)),
                keys[n + 1], to, fro) =
           Place(start, n + 1, Count(keys, to, n + 1), Count(keys, fro, n + 1))
<1>1. PICK up \in Int, down \in Int :
        up = Count(keys, to, n) /\ down = Count(keys, fro, n)
  BY CountOfPasses
<1>2. /\ keys[n + 1] = to => Count(keys, to, n + 1) = up + 1
      /\ keys[n + 1] # to => Count(keys, to, n + 1) = up
      /\ keys[n + 1] = fro => Count(keys, fro, n + 1) = down + 1
      /\ keys[n + 1] # fro => Count(keys, fro, n + 1) = down
  BY <1>1, CountOfPasses
<1>3. up \in Int /\ down \in Int
  OBVIOUS
<1>4. /\ Up(Place(start, n, up, down)) = Place(start, n + 1, up + 1, down)
      /\ Down(Place(start, n, up, down)) = Place(start, n + 1, up, down + 1)
      /\ Place(start, n, up, down) = Place(start, n + 1, up, down)
  BY <1>3, PlaceAfterKey, Zenon
<1>5. CASE keys[n + 1] = to
  BY <1>1, <1>2, <1>4, <1>5 DEF Pushed
<1>6. CASE keys[n + 1] = fro
  BY <1>1, <1>2, <1>4, <1>6 DEF Pushed
<1>7. CASE keys[n + 1] # to /\ keys[n + 1] # fro
  BY <1>1, <1>2, <1>4, <1>7 DEF Pushed
<1>8. QED
  BY <1>5, <1>6, <1>7

LEMMA AxesAfterKey ==
  ASSUME NEW p \in Positions, NEW keys, NEW n \in Nat, NEW q, Axes(p, q, keys, n)
  PROVE  Axes(p, Pressed(q, keys[n + 1]), keys, n + 1)
<1> DEFINE key == keys[n + 1]
<1> DEFINE r == Pressed(q, key)
<1>1. /\ q \in Positions
      /\ q.x = Place(p.x, n, Count(keys, "D", n), Count(keys, "A", n))
      /\ q.y = Place(p.y, n, Count(keys, "S", n), Count(keys, "W", n))
  BY DEF Axes
<1>2. /\ r \in Positions
      /\ r.x = Pushed(q.x, key, "D", "A") /\ r.y = Pushed(q.y, key, "S", "W")
  BY <1>1, PressedAxes
<1>3. p.x \in Words /\ p.y \in Words
  BY DEF Positions, Words
<1>4. "D" # "A" /\ "S" # "W" /\ n \in Nat
  OBVIOUS
<1> HIDE DEF r
<1>5. Pushed(Place(p.x, n, Count(keys, "D", n), Count(keys, "A", n)),
             keys[n + 1], "D", "A") =
        Place(p.x, n + 1, Count(keys, "D", n + 1), Count(keys, "A", n + 1))
  BY <1>3, <1>4, AxisAfterKey
<1>6. Pushed(Place(p.y, n, Count(keys, "S", n), Count(keys, "W", n)),
             keys[n + 1], "S", "W") =
        Place(p.y, n + 1, Count(keys, "S", n + 1), Count(keys, "W", n + 1))
  BY <1>3, <1>4, AxisAfterKey
<1>7. QED
  BY <1>1, <1>2, <1>5, <1>6 DEF Axes, r

LEMMA MovedAxes ==
  ASSUME NEW p \in Positions, NEW keys \in Seq(Codes)
  PROVE  Axes(p, Moved(p, keys), keys, Len(keys))
<1> DEFINE N == Len(keys)
<1> DEFINE After(f, n) == IF n = 0 THEN p ELSE Pressed(f[n - 1], keys[n])
<1> DEFINE Solves(f) == f = [n \in 0 .. N |-> After(f, n)]
<1> DEFINE body == [n \in 1 .. N |-> [q \in Positions |-> Pressed(q, keys[n])]]
<1>1. N \in Nat
  OBVIOUS
<1>2. body \in LoopBodies(N, Positions)
  BY PressedAxes DEF LoopBodies
<1>3. PICK f : Computes(f, N, Positions, p, body)
  <2> HIDE DEF body, N
  <2>1. QED
    BY <1>1, <1>2, LoopComputes
<1>4. Solves(f)
  <2>1. /\ f \in [0 .. N -> Positions] /\ f[0] = p
        /\ \A n \in 1 .. N : f[n] = body[n][f[n - 1]]
    BY <1>3 DEF Computes
  <2>2. \A n \in 0 .. N : f[n] = After(f, n)
    <3> TAKE n \in 0 .. N
    <3>1. CASE n = 0
      BY <2>1, <3>1
    <3>2. CASE n # 0
      <4>1. n \in 1 .. N /\ n - 1 \in 0 .. N
        BY <1>1, <3>2
      <4>2. f[n - 1] \in Positions
        BY <2>1, <4>1
      <4>3. body[n][f[n - 1]] = Pressed(f[n - 1], keys[n])
        BY <4>1, <4>2
      <4>4. QED
        BY <2>1, <3>2, <4>1, <4>3
    <3>3. QED
      BY <3>1, <3>2
  <2> HIDE DEF After
  <2>3. QED
    BY <2>1, <2>2
<1> DEFINE g == CHOOSE h : Solves(h)
<1>5. Solves(g)
  <2> HIDE DEF Solves
  <2>1. QED
    BY <1>4
<1>6. Moved(p, keys) = g[N]
  BY DEF Moved
<1> HIDE DEF g, body
<1>7. /\ g[0] = p
      /\ \A n \in 1 .. N : g[n] = Pressed(g[n - 1], keys[n])
  <2>1. 0 \in 0 .. N
    BY <1>1
  <2>2. \A n \in 1 .. N : n \in 0 .. N /\ n # 0
    BY <1>1
  <2>3. QED
    BY <1>5, <2>1, <2>2
<1> HIDE DEF Solves
<1> DEFINE T == {n \in 0 .. N : Axes(p, g[n], keys, n)}
<1>8. 0 \in T
  <2>1. p.x \in Words /\ p.y \in Words
    BY DEF Positions, Words
  <2>2. \A k : Count(keys, k, 0) = 0
    BY CountOfPasses
  <2>3. Place(p.x, 0, 0, 0) = p.x /\ Place(p.y, 0, 0, 0) = p.y
    BY <2>1, PlaceBeforeKeys
  <2>4. Axes(p, g[0], keys, 0)
    BY <1>7, <2>2, <2>3 DEF Axes
  <2>5. QED
    BY <1>1, <2>4
<1>9. ASSUME NEW n \in 1 .. N, n - 1 \in T
      PROVE  n \in T
  <2>1. PICK m \in Nat : m = n - 1 /\ n = m + 1 /\ n \in 0 .. N
    BY <1>1
  <2>2. Axes(p, g[m], keys, m)
    BY <1>9, <2>1
  <2>3. Axes(p, Pressed(g[m], keys[m + 1]), keys, m + 1)
    BY <2>1, <2>2, AxesAfterKey
  <2>4. QED
    BY <1>7, <2>1, <2>3
<1>10. \A n \in 0 .. N : n \in T
  <2> HIDE DEF T, N
  <2>1. QED
    BY <1>1, <1>8, <1>9, EveryPass
<1>11. QED
  BY <1>1, <1>6, <1>10
-----------------------------------------------------------------------------
\* Connection i, and by UniqueUsernames no other, is listed with the name u and
\* has finished its TCP handshake.
Holds(i, u) == i \in connections /\ con[i].activated /\ con[i].username = u

PacketsAreOwn ==
  \A k \in PacketKinds : \A p \in DOMAIN packets[k] :
    /\ packets[k][p].payload \in Bodies[k]
    /\ Holds(packets[k][p].from, packets[k][p].username)

OwnInv ==
  /\ Inv
  /\ WrappersAreValid
  /\ PacketsAreOwn

USE WireAssumption, NetworkAssumption, SessionsAssumption, ServerAssumption,
    IconsAssumption, GameAssumption, ServiceAssumption
  DEF WireAssumption, NetworkAssumption, SessionsAssumption, ServerAssumption,
      IconsAssumption, GameAssumption, ServiceAssumption
-----------------------------------------------------------------------------
LEMMA HoldersAreOne ==
  ASSUME UniqueUsernames, NEW u, NEW i, NEW j, Holds(i, u), Holds(j, u)
  PROVE  i = j
BY DEF UniqueUsernames, Holds

LEMMA HeldInTheSameList ==
  ASSUME UNCHANGED <<con, connections>>, NEW i, NEW u, Holds(i, u)
  PROVE  Holds(i, u)'
BY DEF Holds

LEMMA HeldAfterConnect ==
  ASSUME Inv, NEW e \in Endpoints, NEW n \in RawNames, HandleConnect(e, n),
         NEW i, NEW u, Holds(i, u)
  PROVE  Holds(i, u)'
<1> DEFINE v == Sanitize[n]
<1>1. con \in Seq(Connection) /\ i \in 1 .. Len(con)
  BY DEF Holds, Inv, TypeOK, NetworkTypeOK
<1>2. CASE AlreadyConnected(e, v)
  BY <1>2, HeldInTheSameList DEF AlreadyConnected, networkVars
<1>3. CASE \E verdict \in {"unavailable", "banned"} : Refuse(e, v, verdict)
  <2>1. UNCHANGED <<con, connections>>
    BY <1>3 DEF Refuse, Without, Named
  <2>2. QED
    BY <2>1, HeldInTheSameList
<1>4. CASE AwaitTcp(e, v)
  <2> DEFINE entry == [username |-> v, endpoint |-> e, activated |-> FALSE,
                       peer |-> Nobody]
  <2>1. con' = Append(con, entry) /\ i \in connections'
    BY <1>4 DEF AwaitTcp, Holds
  <2>2. entry \in Connection
    BY DEF Connection
  <2> HIDE DEF entry
  <2>3. con'[i] = con[i]
    BY <1>1, <2>1, <2>2, AppendProperties
  <2>4. QED
    BY <2>1, <2>3 DEF Holds
<1>5. QED
  BY <1>2, <1>3, <1>4 DEF HandleConnect

LEMMA HeldAfterAccept ==
  ASSUME Inv, NEW a \in Ids, NEW peer \in Endpoints, HandleAccept(a, peer),
         NEW i, NEW u, Holds(i, u)
  PROVE  Holds(i, u)'
<1>1. /\ con \in Seq(Connection) /\ i \in 1 .. Len(con) /\ a \in 1 .. Len(con)
      /\ connections' = connections /\ i \in connections
      /\ con' = [con EXCEPT ![a].activated = TRUE, ![a].peer = peer]
  BY DEF Holds, Inv, TypeOK, NetworkTypeOK, HandleAccept, IsFirst
<1> DEFINE entry == [con[a] EXCEPT !.activated = TRUE, !.peer = peer]
<1>2. con[a] \in Connection
  BY <1>1
<1>3. /\ entry \in Connection /\ entry.activated
      /\ entry.username = con[a].username
      /\ con' = [con EXCEPT ![a] = entry]
  BY <1>1, <1>2 DEF Connection
<1> HIDE DEF entry
<1>4. con'[i] = IF i = a THEN entry ELSE con[i]
  <2>1. con \in Seq(Connection) /\ i \in 1 .. Len(con) /\ i \in DOMAIN con
    BY <1>1
  <2>2. con' = [con EXCEPT ![a] = entry]
    BY <1>3
  <2>3. QED
    BY <2>1, <2>2
<1>5. QED
  BY <1>1, <1>3, <1>4 DEF Holds

\* A holder of a name keeps it.
LEMMA HeldAfterStep ==
  ASSUME Blockable = {}, Inv, [Next]_vars, NEW i, NEW u, Holds(i, u)
  PROVE  Holds(i, u)'
<1>1. CASE Network(NetworkHandlers)
  <2>1. ASSUME NEW e \in Endpoints, NEW n \in RawNames, HandleConnect(e, n)
        PROVE  Holds(i, u)'
    BY <2>1, HeldAfterConnect
  <2>2. ASSUME NEW a \in Ids, NEW peer \in Endpoints, HandleAccept(a, peer)
        PROVE  Holds(i, u)'
    BY <2>2, HeldAfterAccept
  <2>3. ASSUME NEW a \in Ids, AcceptFails(a)
        PROVE  Holds(i, u)'
    BY <2>3, HeldInTheSameList DEF AcceptFails
  <2>4. ASSUME NEW e \in Endpoints, NEW k \in PacketKinds, NEW d \in Bodies[k],
               HandlePacket(e, k, d)
        PROVE  Holds(i, u)'
    BY <2>4, HeldInTheSameList DEF HandlePacket
  <2>5. QED
    BY <1>1, <2>1, <2>2, <2>3, <2>4 DEF Network, NetworkHandlers
<1>2. CASE \/ \E a \in Ids : DeliverNewConnection(a)
           \/ DeliverMessage \/ DeliverClientInfo
           \/ \E a \in Ids : UpdateProcess(a)
           \/ UNCHANGED vars
  <2>1. UNCHANGED <<con, connections>>
    BY <1>2 DEF DeliverNewConnection, DeliverMessage, DeliverClientInfo,
      UpdateProcess, TakeNewConnection, TakePacket, networkVars, vars
  <2>2. QED
    BY <2>1, HeldInTheSameList
<1>3. CASE \E v \in Usernames : Blocked(v)
  BY <1>3 DEF Blocked
<1>4. QED
  BY <1>1, <1>2, <1>3 DEF Next
-----------------------------------------------------------------------------
\* What a step does to the waiting packets.
LEMMA TakenPacketsWereThere ==
  ASSUME Inv, NEW kind \in PacketKinds, TakePacket(kind)
  PROVE  \A k \in PacketKinds : \A p \in DOMAIN packets'[k] :
           \E q \in DOMAIN packets[k] : packets'[k][p] = packets[k][q]
<1>1. /\ packets \in [PacketKinds -> Seq(PacketEvent)]
      /\ packets[kind] \in Seq(PacketEvent) /\ packets[kind] # <<>>
      /\ packets' = [packets EXCEPT ![kind] = Tail(packets[kind])]
  BY DEF Inv, TypeOK, NetworkTypeOK, TakePacket
<1>2. /\ packets'[kind] = Tail(packets[kind])
      /\ \A k \in PacketKinds \ {kind} : packets'[k] = packets[k]
  BY <1>1
<1>3. \A p \in DOMAIN packets'[kind] :
        /\ p + 1 \in DOMAIN packets[kind]
        /\ packets'[kind][p] = packets[kind][p + 1]
  BY <1>1, <1>2, HeadTailProperties, LenProperties
<1>4. QED
  BY <1>2, <1>3

LEMMA TakenPacketsAreOwn ==
  ASSUME Inv, PacketsAreOwn, NEW kind \in PacketKinds, TakePacket(kind),
         \A i, u : Holds(i, u) => Holds(i, u)'
  PROVE  PacketsAreOwn'
<1>1. \A i, u : Holds(i, u) =>
        i \in connections' /\ con'[i].activated /\ con'[i].username = u
  BY DEF Holds
<1>2. ASSUME NEW k \in PacketKinds, NEW p \in DOMAIN packets'[k]
      PROVE  /\ packets'[k][p].payload \in Bodies[k]
             /\ packets'[k][p].from \in connections'
             /\ con'[packets'[k][p].from].activated
             /\ con'[packets'[k][p].from].username = packets'[k][p].username
  <2>1. PICK q \in DOMAIN packets[k] : packets'[k][p] = packets[k][q]
    BY TakenPacketsWereThere
  <2>2. /\ packets[k][q].payload \in Bodies[k]
        /\ Holds(packets[k][q].from, packets[k][q].username)
    BY DEF PacketsAreOwn
  <2>3. QED
    BY <1>1, <2>1, <2>2
<1>3. QED
  BY <1>2 DEF PacketsAreOwn, Holds

LEMMA ReceivedPacketIsOwn ==
  ASSUME Inv, PacketsAreOwn,
         NEW e \in Endpoints, NEW k \in PacketKinds, NEW d \in Bodies[k],
         HandlePacket(e, k, d)
  PROVE  PacketsAreOwn'
<1>1. PICK i \in Ids :
        /\ IsFirst(i, At(e)) /\ IsValid(i)
        /\ packets' = [packets EXCEPT ![k] =
             Append(@, [username |-> con[i].username, payload |-> d, from |-> i])]
  BY DEF HandlePacket
<1>2. UNCHANGED <<con, connections>>
  BY DEF HandlePacket
<1> DEFINE event == [username |-> con[i].username, payload |-> d, from |-> i]
<1>3. i \in connections /\ con[i].activated
  BY <1>1 DEF IsFirst, At, IsValid
<1>4. /\ con[i].username \in Usernames /\ d \in Payloads
      /\ packets \in [PacketKinds -> Seq(PacketEvent)]
  BY <1>3, ListedIsConnection DEF Inv, TypeOK, NetworkTypeOK, Connection
<1>5. event \in PacketEvent
  BY <1>4 DEF PacketEvent
<1>6. event.payload \in Bodies[k] /\ Holds(event.from, event.username)
  BY <1>3 DEF Holds
<1>7. packets[k] \in Seq(PacketEvent) /\ packets' = [packets EXCEPT ![k] = Append(packets[k], event)]
  BY <1>1, <1>4
<1> HIDE DEF event
<1>8. /\ packets'[k] = Append(packets[k], event)
      /\ \A l \in PacketKinds \ {k} : packets'[l] = packets[l]
  BY <1>4, <1>7
<1>9. /\ DOMAIN packets'[k] = DOMAIN packets[k] \cup {Len(packets[k]) + 1}
      /\ packets'[k][Len(packets[k]) + 1] = event
      /\ \A p \in DOMAIN packets[k] : packets'[k][p] = packets[k][p]
  BY <1>5, <1>7, <1>8, AppendProperties, LenProperties
<1>10. \A l \in PacketKinds : \A p \in DOMAIN packets'[l] :
         /\ packets'[l][p].payload \in Bodies[l]
         /\ Holds(packets'[l][p].from, packets'[l][p].username)
  BY <1>6, <1>8, <1>9 DEF PacketsAreOwn
<1>11. QED
  BY <1>2, <1>10 DEF PacketsAreOwn, Holds

LEMMA PacketsStayOwn ==
  ASSUME Blockable = {}, Inv, PacketsAreOwn, [Next]_vars
  PROVE  PacketsAreOwn'
<1>1. \A i, u : Holds(i, u) => Holds(i, u)'
  BY HeldAfterStep
<1>2. ASSUME UNCHANGED packets
      PROVE  PacketsAreOwn'
  <2>1. \A i, u : Holds(i, u) =>
          i \in connections' /\ con'[i].activated /\ con'[i].username = u
    BY <1>1 DEF Holds
  <2>2. QED
    BY <1>2, <2>1 DEF PacketsAreOwn, Holds
<1>3. CASE Network(NetworkHandlers)
  <2>1. ASSUME NEW e \in Endpoints, NEW n \in RawNames, HandleConnect(e, n)
        PROVE  UNCHANGED packets
    BY <2>1 DEF HandleConnect, AlreadyConnected, Refuse, AwaitTcp, networkVars
  <2>2. CASE \/ \E a \in Ids, peer \in Endpoints : HandleAccept(a, peer)
             \/ \E a \in Ids : AcceptFails(a)
    BY <1>2, <2>2 DEF HandleAccept, AcceptFails
  <2>3. ASSUME NEW e \in Endpoints, NEW k \in PacketKinds, NEW d \in Bodies[k],
               HandlePacket(e, k, d)
        PROVE  PacketsAreOwn'
    BY <2>3, ReceivedPacketIsOwn
  <2>4. QED
    BY <1>2, <1>3, <2>1, <2>2, <2>3 DEF Network, NetworkHandlers
<1>4. CASE DeliverMessage \/ DeliverClientInfo
  <2>1. \E kind \in PacketKinds : TakePacket(kind)
    BY <1>4 DEF DeliverMessage, DeliverClientInfo
  <2>2. QED
    BY <1>1, <2>1, TakenPacketsAreOwn
<1>5. CASE \/ \E a \in Ids : DeliverNewConnection(a)
           \/ \E a \in Ids : UpdateProcess(a)
           \/ \E u \in Usernames : Blocked(u)
           \/ UNCHANGED vars
  BY <1>2, <1>5 DEF DeliverNewConnection, TakeNewConnection, UpdateProcess,
    Blocked, networkVars, vars
<1>6. QED
  BY <1>3, <1>4, <1>5 DEF Next

\* No client is destroyed, so no ClientAuthorization loses its client.
LEMMA WrappersStayValid ==
  ASSUME Blockable = {}, WrappersAreValid, [Next]_vars
  PROVE  WrappersAreValid'
<1>1. fault # "wrapper" /\ asking \subseteq clients
  BY DEF WrappersAreValid, Orphans
<1>2. CASE Network(NetworkHandlers)
  <2>1. UNCHANGED <<asking, clients>>
    BY <1>2 DEF Network, sessionVars
  <2>2. fault' # "wrapper"
    <3>1. fault' = fault \/ fault' = "accept"
      BY <1>2 DEF Network, NetworkHandlers, HandleConnect, HandleAccept,
        AcceptFails, HandlePacket
    <3>2. QED
      BY <1>1, <3>1
  <2>3. QED
    BY <1>1, <2>1, <2>2 DEF WrappersAreValid, Orphans
<1>3. ASSUME NEW i \in Ids, DeliverNewConnection(i)
      PROVE  WrappersAreValid'
  <2>1. CASE \E j \in Ids : ClientInitialize(i, con[j]) /\ UNCHANGED fault
    BY <1>1, <2>1 DEF ClientInitialize, WrappersAreValid, Orphans
  <2>2. CASE fault' = "connection" /\ UNCHANGED sessionVars
    BY <1>1, <2>2 DEF sessionVars, WrappersAreValid, Orphans
  <2>3. QED
    BY <1>3, <2>1, <2>2 DEF DeliverNewConnection
<1>4. CASE DeliverMessage
  <2>1. \/ OnMessageFaults
        \/ \E u, d : OnMessage(u, d) /\ UNCHANGED fault
    BY <1>4 DEF DeliverMessage
  <2>2. ASSUME NEW u, NEW d, OnMessage(u, d)
        PROVE  asking' \subseteq asking /\ clients' = clients
    BY <2>2 DEF OnMessage, PasswordRight, PasswordWrong, sessionVars
  <2>3. QED
    BY <1>1, <2>1, <2>2 DEF OnMessageFaults, WrappersAreValid, Orphans
<1>5. CASE DeliverClientInfo \/ UNCHANGED vars
  <2>1. UNCHANGED <<asking, clients, fault>>
    BY <1>5 DEF DeliverClientInfo, OnClientInformation, vars, sessionVars
  <2>2. QED
    BY <1>1, <2>1 DEF WrappersAreValid, Orphans
<1>6. ASSUME NEW i \in Ids, UpdateProcess(i)
      PROVE  WrappersAreValid'
  <2>1. asking' \subseteq asking /\ clients' = clients /\ fault' = fault
    BY <1>6 DEF UpdateProcess, Update, UpdateOrphaned, UpdateFails, UpdatePrompts
  <2>2. QED
    BY <1>1, <2>1 DEF WrappersAreValid, Orphans
<1>7. CASE \E u \in Usernames : Blocked(u)
  BY <1>7 DEF Blocked
<1>8. QED
  BY <1>2, <1>3, <1>4, <1>5, <1>6, <1>7 DEF Next

LEMMA OwnInit == Init => OwnInv
<1> SUFFICES ASSUME Init PROVE OwnInv
  OBVIOUS
<1>1. Inv
  BY InvInit
<1>2. WrappersAreValid
  BY DEF Init, WireInit, SessionsInit, WrappersAreValid, Orphans
<1>3. PacketsAreOwn
  BY DEF Init, NetworkInit, PacketsAreOwn
<1>4. QED
  BY <1>1, <1>2, <1>3 DEF OwnInv

LEMMA OwnNext ==
  ASSUME Blockable = {}
  PROVE  OwnInv /\ [Next]_vars => OwnInv'
BY InvNext, PacketsStayOwn, WrappersStayValid DEF OwnInv
-----------------------------------------------------------------------------
\* The password that authorizes a client came from the client itself.
LEMMA ConfirmedByOwnMessage ==
  ASSUME OwnInv, DeliverMessage, NEW c \in authorized' \ authorized
  PROVE  Head(packets["message"]).from = c
<1> DEFINE event == Head(packets["message"])
<1>1. packets["message"] \in Seq(PacketEvent) /\ packets["message"] # <<>>
  BY DEF DeliverMessage, TakePacket, OwnInv, Inv, TypeOK, NetworkTypeOK
<1>2. event = packets["message"][1] /\ 1 \in DOMAIN packets["message"]
  BY <1>1, HeadTailProperties, LenProperties, EmptySeq
<1>3. Holds(event.from, event.username)
  BY <1>2 DEF OwnInv, PacketsAreOwn
<1> HIDE DEF event
<1>4. c \in Undecided(event.username)
  BY DEF DeliverMessage, OnMessage, OnMessageFaults, PasswordRight, PasswordWrong,
    Confirm, sessionVars, event
<1>5. Holds(c, event.username)
  BY <1>4 DEF Undecided, Holds, OwnInv, Inv, CopyIsCurrent, AnnouncedAreActivated
<1>6. QED
  BY <1>3, <1>5, HoldersAreOne DEF OwnInv, Inv, event

LEMMA ConfirmedByProcess ==
  ASSUME OwnInv, NEW i \in Ids, UpdateProcess(i),
         NEW c \in authorized' \ authorized
  PROVE  c \notin processes'
<1>1. UpdateFails(i)
  BY DEF UpdateProcess, Update, UpdateOrphaned, UpdatePrompts
<1>2. c \in Undecided(copy[i].username) /\ i \in clients /\ processes' = processes \ {i}
  BY <1>1 DEF UpdateFails, Confirm, Orphans
<1>3. c = i
  BY <1>2, OneClientPerName DEF Undecided, OwnInv, Inv
<1>4. QED
  BY <1>2, <1>3
-----------------------------------------------------------------------------
\* Without blocked clients, no ClientAuthorization, process or SimpleGame is
\* ever used after the Client it wraps has been destroyed.
THEOREM WrappersAreAlwaysValid ==
  ASSUME Blockable = {}
  PROVE  Spec => []WrappersAreValid
<1>1. OwnInv => WrappersAreValid
  BY DEF OwnInv
<1>2. QED
  BY <1>1, OwnInit, OwnNext, PTL DEF Spec

\* A client that is authorized while its process goes on got a password.
LEMMA ConfirmedWhileAsked ==
  ASSUME OwnInv, Next, NEW c \in authorized' \ authorized, c \in processes'
  PROVE  DeliverMessage
<1>1. CASE Network(NetworkHandlers) \/ DeliverClientInfo
  BY <1>1 DEF Network, DeliverClientInfo, OnClientInformation, sessionVars
<1>2. ASSUME NEW i \in Ids, DeliverNewConnection(i)
      PROVE  UNCHANGED authorized
  BY <1>2 DEF DeliverNewConnection, ClientInitialize, sessionVars
<1>3. ~ (\E i \in Ids : UpdateProcess(i))
  BY ConfirmedByProcess
<1>4. CASE \E u \in Usernames : Blocked(u)
  BY <1>4 DEF Blocked, Block
<1>5. QED
  BY <1>1, <1>2, <1>3, <1>4 DEF Next

\* Without blocked clients, a client is authorized by no message but one that was
\* received from its own connection, whoever else sends what in the meantime.
THEOREM PasswordsAreOwn ==
  ASSUME Blockable = {}
  PROVE  Spec => PasswordIsOwn
<1> DEFINE Own == \A c \in authorized' \ authorized :
                    c \in processes' => Head(packets["message"]).from = c
<1>1. OwnInv /\ [Next]_vars => [Own]_vars
  BY ConfirmedWhileAsked, ConfirmedByOwnMessage
<1>2. QED
  BY <1>1, OwnInit, OwnNext, PTL DEF Spec, PasswordIsOwn

\* A password that has been received was attributed to the oldest name of its
\* address.
LEMMA MessageIsOfOldest ==
  ASSUME OwnInv, NetInv, DeliverMessage, NEW i \in connections,
         con[i].endpoint = con[Head(packets["message"]).from].endpoint
  PROVE  ~ (i < Head(packets["message"]).from)
<1>1. packets["message"] \in Seq(PacketEvent) /\ packets["message"] # <<>>
  BY DEF DeliverMessage, TakePacket, OwnInv, Inv, TypeOK, NetworkTypeOK
<1>2. /\ Head(packets["message"]) = packets["message"][1]
      /\ 1 \in DOMAIN packets["message"]
  BY <1>1, HeadTailProperties, LenProperties, EmptySeq
<1>3. "message" \in PacketKinds
  BY ServerAssumption
<1>4. /\ Head(packets["message"]).from <= i
      /\ Head(packets["message"]).from \in DOMAIN con
  BY <1>2, <1>3 DEF NetInv, OldestSpeaks
<1>5. i \in Nat /\ Head(packets["message"]).from \in Nat
  BY <1>4, ConnectionsAreTyped
<1>6. QED
  BY <1>4, <1>5

\* Without blocked clients, a name at an address that has an older name is never
\* authorized by a password, whatever is sent from there and by whomever.
THEOREM SecondNamesAreMute ==
  ASSUME Blockable = {}
  PROVE  Spec => SecondNameHasNoVoice
<1> DEFINE Mute ==
      \A c \in authorized' \ authorized :
        (\E i \in connections : i < c /\ con[i].endpoint = con[c].endpoint)
          => c \notin processes'
<1>1. OwnInv /\ NetInv /\ [Next]_vars => [Mute]_vars
  <2> SUFFICES ASSUME OwnInv, NetInv, Next, NEW c \in authorized' \ authorized,
                      c \in processes', NEW i \in connections,
                      con[i].endpoint = con[c].endpoint
               PROVE  ~ (i < c)
    OBVIOUS
  <2>1. DeliverMessage
    BY ConfirmedWhileAsked
  <2>2. Head(packets["message"]).from = c
    BY <2>1, ConfirmedByOwnMessage
  <2>3. QED
    BY <2>1, <2>2, MessageIsOfOldest
<1>2. QED
  BY <1>1, OwnInit, OwnNext, ServerUsesNetwork, OpenNetInvariant, PTL
     DEF Spec, SecondNameHasNoVoice
-----------------------------------------------------------------------------
(* The games and the responder. *)

QueueIsOwn ==
  \A u \in DOMAIN queue :
    /\ queue[u] \in Seq(Wanted)
    /\ \E i \in connections : Holds(i, u)
    /\ \A p \in DOMAIN queue[u] : Holds(queue[u][p].from, u)

\* What the deliveries to games and responder leave alone, and how the process
\* can stop in them.
LEMMA OtherStepsAreApart ==
  ASSUME Inv, DeliverInput \/ DeliverRequest \/ Respond
  PROVE  /\ Running
         /\ UNCHANGED <<con, connections, accepts, newConnections>>
         /\ UNCHANGED sessionVars
         /\ packets' \in [PacketKinds -> Seq(PacketEvent)]
         /\ sent' \subseteq Datagrams
         /\ fault' \in {fault, "icon", "wrapper", "responder"}
<1>1. CASE DeliverInput
  <2>1. TakePacket("input")
    BY <1>1 DEF DeliverInput
  <2>2. fault' \in {fault, "icon", "wrapper"}
    BY <1>1 DEF DeliverInput, OnInput, Play
  <2>3. QED
    BY <1>1, <2>1, <2>2, TakenPacketsAreTyped DEF DeliverInput, TakePacket
<1>2. CASE DeliverRequest
  <2>1. TakePacket("resource")
    BY <1>2 DEF DeliverRequest
  <2>2. QED
    BY <1>2, <2>1, TakenPacketsAreTyped DEF DeliverRequest, TakePacket
<1>3. CASE Respond
  BY <1>3 DEF Respond, networkVars, Inv, TypeOK, NetworkTypeOK
<1>4. QED
  BY <1>1, <1>2, <1>3

LEMMA OtherStepsKeepInv ==
  ASSUME Inv, DeliverInput \/ DeliverRequest \/ Respond
  PROVE  Inv'
<1>1. Running /\ fault' \in {fault, "icon", "wrapper", "responder"}
  BY OtherStepsAreApart
<1>2. fault' \in Faults \ {"connection"} /\ (Running' => Running)
  BY <1>1 DEF Running, Faults
<1>3. QED
  BY <1>2, OtherStepsAreApart, InvSameState

LEMMA ServiceKeepsInv == Inv /\ [ServiceNext]_serviceVars => Inv'
<1>1. ASSUME Inv, ServerStep \/ UNCHANGED serviceVars
      PROVE  Inv'
  BY <1>1, InvNext DEF ServerStep, serviceVars
<1>2. QED
  BY <1>1, OtherStepsKeepInv DEF ServiceNext

-----------------------------------------------------------------------------
\* The games of a client that is there, and only those, are not strays.
LEMMA GamesHaveClients ==
  ASSUME Inv
  PROVE  Strays = {}
<1>1. \A g \in Ids : games[g] > 0 => g \in authorized
  BY DEF Inv, OneGamePerAuthorizedClient
<1>2. authorized \subseteq clients
  BY DEF Inv, TypeOK, SessionsTypeOK
<1>3. QED
  BY <1>1, <1>2 DEF Strays

\* What the responder does if everybody who waits is still listed.
LEMMA EverybodyIsAnswered ==
  ASSUME QueueIsOwn, Respond
  PROVE  replies' = RepliesTo(DOMAIN queue) /\ fault' = fault
<1>1. \A u \in DOMAIN queue : Named(u) # {}
  BY DEF QueueIsOwn, Holds, Named
<1>2. QED
  BY <1>1 DEF Respond

LEMMA RepliesAreToHolders ==
  ASSUME Inv, QueueIsOwn, NEW r \in RepliesTo(DOMAIN queue)
  PROVE  \A p \in DOMAIN r.wanted : r.wanted[p].from = r.on
<1>1. PICK u \in DOMAIN queue, i \in Ids :
        /\ Answers(u, i) /\ con[i].activated
        /\ r = ReplyTo(i, con[i].peer, queue[u])
  BY DEF RepliesTo
<1>2. r.wanted = queue[u] /\ r.on = i
  BY <1>1 DEF ReplyTo
<1>3. Holds(i, u)
  BY <1>1 DEF Answers, IsFirst, Named, Holds
<1>4. \A p \in DOMAIN queue[u] : Holds(queue[u][p].from, u)
  BY DEF QueueIsOwn
<1>5. QED
  BY <1>2, <1>3, <1>4, HoldersAreOne DEF Inv

\* Requested icons are queued under the name of whoever asked for them.
LEMMA RequestIsQueuedAsOwn ==
  ASSUME OwnInv, QueueIsOwn, DeliverRequest
  PROVE  QueueIsOwn'
<1> DEFINE event == Head(packets["resource"])
<1> DEFINE u == event.username
<1> DEFINE new == WantedBy(event.from, Requests[event.payload])
<1>1. packets["resource"] \in Seq(PacketEvent) /\ packets["resource"] # <<>>
  BY DEF DeliverRequest, TakePacket, OwnInv, Inv, TypeOK, NetworkTypeOK
<1>2. event = packets["resource"][1] /\ 1 \in DOMAIN packets["resource"]
  BY <1>1, HeadTailProperties, LenProperties, EmptySeq
<1>3. event.payload \in Bodies["resource"] /\ Holds(event.from, event.username)
  BY <1>2 DEF OwnInv, PacketsAreOwn
<1>4. UNCHANGED <<con, connections>>
  BY DEF DeliverRequest, TakePacket
<1>5. queue' = WithQueued(u, Queued(u) \o new)
  BY DEF DeliverRequest, OnRequest
<1>6. event.from \in Ids
  <2>1. connections \subseteq Ids
    BY DEF OwnInv, Inv, TypeOK, NetworkTypeOK, Ids
  <2>2. QED
    BY <1>3, <2>1 DEF Holds
<1>7. /\ new \in Seq(Wanted)
      /\ \A p \in DOMAIN new : new[p].from = event.from
  <2>1. Requests[event.payload] \in Seq(IconIds)
    BY <1>3
  <2>2. PICK ids \in Seq(IconIds) : ids = Requests[event.payload]
    BY <2>1
  <2>3. new = [p \in 1 .. Len(ids) |-> [icon |-> ids[p], from |-> event.from]]
    BY <2>2, LenProperties DEF WantedBy
  <2>4. \A p \in 1 .. Len(ids) : ids[p] \in IconIds
    BY <2>2
  <2>5. Len(ids) \in Nat
    BY <2>2
  <2> HIDE DEF new, event
  <2>6. \A p \in 1 .. Len(ids) : [icon |-> ids[p], from |-> event.from] \in Wanted
    BY <1>6, <2>4 DEF Wanted
  <2>7. new \in Seq(Wanted) /\ DOMAIN new = 1 .. Len(ids)
    BY <2>3, <2>5, <2>6
  <2>8. QED
    BY <2>3, <2>7
<1> HIDE DEF event, u, new
<1>8. /\ Queued(u) \in Seq(Wanted)
      /\ \A p \in DOMAIN Queued(u) : Holds(Queued(u)[p].from, u)
  BY DEF Queued, QueueIsOwn
<1>9. Holds(event.from, u)
  BY <1>3 DEF u
<1>10. /\ Queued(u) \o new \in Seq(Wanted)
       /\ \A p \in DOMAIN (Queued(u) \o new) : Holds((Queued(u) \o new)[p].from, u)
  <2>1. PICK old \in Seq(Wanted) : old = Queued(u)
    BY <1>8
  <2>2. /\ old \o new \in Seq(Wanted)
        /\ \A p \in DOMAIN (old \o new) :
             \/ p \in DOMAIN old /\ (old \o new)[p] = old[p]
             \/ \E q \in DOMAIN new : (old \o new)[p] = new[q]
    BY <1>7, ConcatProperties, LenProperties
  <2>3. \A p \in DOMAIN old : Holds(old[p].from, u)
    BY <1>8, <2>1
  <2>4. \A p \in DOMAIN (old \o new) : Holds((old \o new)[p].from, u)
    BY <1>7, <1>9, <2>2, <2>3
  <2>5. QED
    BY <2>1, <2>2, <2>4
<1>11. \A v \in DOMAIN queue' :
         /\ queue'[v] \in Seq(Wanted)
         /\ \E i \in connections : Holds(i, v)
         /\ \A p \in DOMAIN queue'[v] : Holds(queue'[v][p].from, v)
  <2>1. /\ DOMAIN queue' = DOMAIN queue \cup {u}
        /\ queue'[u] = Queued(u) \o new
        /\ \A v \in DOMAIN queue : v # u => queue'[v] = queue[v]
    BY <1>5 DEF WithQueued
  <2>2. \E i \in connections : Holds(i, u)
    BY <1>9 DEF Holds
  <2>3. QED
    BY <1>10, <2>1, <2>2 DEF QueueIsOwn
<1>12. QED
  BY <1>4, <1>11 DEF QueueIsOwn, Holds
-----------------------------------------------------------------------------
ServiceInv ==
  /\ OwnInv
  /\ QueueIsOwn
  /\ RepliesGoToRequester
  /\ fault # "responder"

LEMMA ServiceInvInit == ServiceInit => ServiceInv
<1> SUFFICES ASSUME ServiceInit PROVE ServiceInv
  OBVIOUS
<1>1. OwnInv
  BY OwnInit DEF ServiceInit
<1>2. QueueIsOwn /\ RepliesGoToRequester
  BY DEF ServiceInit, IconsInit, NoQueue, QueueIsOwn, RepliesGoToRequester
<1>3. fault # "responder"
  BY DEF ServiceInit, Init, WireInit
<1>4. QED
  BY <1>1, <1>2, <1>3 DEF ServiceInv

LEMMA QueueStaysOwn ==
  ASSUME QueueIsOwn, UNCHANGED queue, \A i, u : Holds(i, u) => Holds(i, u)'
  PROVE  QueueIsOwn'
<1>1. \A i, u : Holds(i, u) =>
        i \in connections' /\ con'[i].activated /\ con'[i].username = u
  BY DEF Holds
<1>2. ASSUME NEW u \in DOMAIN queue
      PROVE  /\ queue[u] \in Seq(Wanted)
             /\ \E i \in connections' : con'[i].activated /\ con'[i].username = u
             /\ \A p \in DOMAIN queue[u] :
                  /\ queue[u][p].from \in connections'
                  /\ con'[queue[u][p].from].activated
                  /\ con'[queue[u][p].from].username = u
  <2>1. PICK i \in connections : Holds(i, u)
    BY DEF QueueIsOwn
  <2>2. QED
    BY <1>1, <2>1 DEF QueueIsOwn
<1>3. queue' = queue
  OBVIOUS
<1>4. QED
  BY <1>2, <1>3 DEF QueueIsOwn, Holds

LEMMA ServiceInvServerStep ==
  ASSUME Blockable = {}, ServiceInv, ServerStep
  PROVE  ServiceInv'
<1>1. [Next]_vars /\ UNCHANGED queue /\ replies' = {}
  BY DEF ServerStep, iconVars
<1>2. OwnInv'
  BY <1>1, OwnNext DEF ServiceInv
<1>3. QueueIsOwn'
  BY <1>1, HeldAfterStep, QueueStaysOwn DEF ServiceInv, OwnInv
<1>4. RepliesGoToRequester'
  BY <1>1 DEF RepliesGoToRequester
<1>5. fault' \in {fault, "accept", "connection", "wrapper"}
  BY DEF ServerStep, Next, Network, NetworkHandlers, HandleConnect, HandleAccept,
    AcceptFails, HandlePacket, DeliverNewConnection, DeliverMessage,
    DeliverClientInfo, UpdateProcess, Blocked
<1>6. QED
  BY <1>2, <1>3, <1>4, <1>5 DEF ServiceInv

LEMMA OtherStepsKeepOwn ==
  ASSUME OwnInv, DeliverInput \/ DeliverRequest \/ Respond
  PROVE  OwnInv'
<1>1. Inv'
  BY OtherStepsKeepInv DEF OwnInv
<1>2. UNCHANGED <<con, connections>> /\ UNCHANGED <<asking, clients>>
  BY OtherStepsAreApart DEF OwnInv, sessionVars
<1>3. fault' # "wrapper"
  <2>1. fault # "wrapper"
    BY DEF OwnInv, WrappersAreValid
  <2>2. CASE DeliverInput
    BY <2>1, <2>2, GamesHaveClients DEF DeliverInput, OnInput, Play, OwnInv
  <2>3. CASE DeliverRequest \/ Respond
    BY <2>1, <2>3 DEF DeliverRequest, Respond
  <2>4. QED
    BY <2>2, <2>3
<1>4. WrappersAreValid'
  BY <1>2, <1>3 DEF OwnInv, WrappersAreValid, Orphans
<1>5. PacketsAreOwn'
  <2>1. \A i, u : Holds(i, u) => Holds(i, u)'
    BY <1>2, HeldInTheSameList
  <2>2. CASE DeliverInput \/ DeliverRequest
    <3>1. TakePacket("input") \/ TakePacket("resource")
      BY <2>2 DEF DeliverInput, DeliverRequest
    <3>2. QED
      BY <2>1, <3>1, TakenPacketsAreOwn DEF OwnInv
  <2>3. CASE Respond
    <3>1. UNCHANGED packets
      BY <2>3 DEF Respond, networkVars
    <3>2. QED
      BY <1>2, <3>1 DEF OwnInv, PacketsAreOwn, Holds
  <2>4. QED
    BY <2>2, <2>3
<1>6. QED
  BY <1>1, <1>4, <1>5 DEF OwnInv

LEMMA ServiceInvNext ==
  ASSUME Blockable = {}
  PROVE  ServiceInv /\ [ServiceNext]_serviceVars => ServiceInv'
<1> SUFFICES ASSUME ServiceInv, [ServiceNext]_serviceVars PROVE ServiceInv'
  OBVIOUS
<1>1. CASE ServerStep
  BY <1>1, ServiceInvServerStep
<1>2. CASE DeliverInput
  <2>1. OwnInv' /\ UNCHANGED <<con, connections, queue>> /\ replies' = {}
    BY <1>2, OtherStepsKeepOwn DEF ServiceInv, DeliverInput, TakePacket
  <2>2. fault' # "responder"
    BY <1>2 DEF ServiceInv, DeliverInput, OnInput, Play
  <2>3. QED
    BY <2>1, <2>2, HeldInTheSameList, QueueStaysOwn
       DEF ServiceInv, RepliesGoToRequester
<1>3. CASE DeliverRequest
  BY <1>3, OtherStepsKeepOwn, RequestIsQueuedAsOwn
     DEF ServiceInv, DeliverRequest, RepliesGoToRequester
<1>4. CASE Respond
  <2>1. OwnInv'
    BY <1>4, OtherStepsKeepOwn DEF ServiceInv
  <2>2. replies' = RepliesTo(DOMAIN queue) /\ fault' = fault
    BY <1>4, EverybodyIsAnswered DEF ServiceInv
  <2>3. RepliesGoToRequester'
    BY <2>2, RepliesAreToHolders DEF ServiceInv, OwnInv, RepliesGoToRequester
  <2>4. QueueIsOwn'
    <3>1. DOMAIN queue' = {}
      BY <1>4 DEF Respond, QueueTaken, NoQueue
    <3>2. QED
      BY <3>1 DEF QueueIsOwn
  <2>5. QED
    BY <2>1, <2>2, <2>3, <2>4 DEF ServiceInv
<1>5. CASE UNCHANGED serviceVars
  <2>1. [Next]_vars /\ UNCHANGED <<con, connections, fault, queue, replies>>
    BY <1>5 DEF serviceVars, vars, networkVars, iconVars
  <2>2. OwnInv'
    BY <2>1, OwnNext DEF ServiceInv
  <2>3. QED
    BY <2>1, <2>2, HeldInTheSameList, QueueStaysOwn
       DEF ServiceInv, RepliesGoToRequester
<1>6. QED
  BY <1>1, <1>2, <1>3, <1>4, <1>5 DEF ServiceNext
-----------------------------------------------------------------------------
\* Without blocked clients, ResponderProcess::update never dereferences a null
\* connection, and no SimpleGame outlives its client.
THEOREM RespondersFindUsers ==
  ASSUME Blockable = {}
  PROVE  ServiceSpec => []ResponderFindsUser
<1>1. ServiceInv => ResponderFindsUser
  BY GamesHaveClients DEF ServiceInv, OwnInv, ResponderFindsUser
<1>2. QED
  BY <1>1, ServiceInvInit, ServiceInvNext, PTL DEF ServiceSpec

\* Without blocked clients, every icon is sent on the connection its request was
\* received from, however long the request waited and whoever connected since.
THEOREM RepliesAreOwn ==
  ASSUME Blockable = {}
  PROVE  ServiceSpec => []RepliesGoToRequester
<1>1. ServiceInv => RepliesGoToRequester
  BY DEF ServiceInv
<1>2. QED
  BY <1>1, ServiceInvInit, ServiceInvNext, PTL DEF ServiceSpec
-----------------------------------------------------------------------------
(* The games and the responder, whoever may be blocked. *)

\* A packet has one of the bodies its kind can have.
BodiesFit ==
  \A k \in PacketKinds : \A p \in DOMAIN packets[k] :
    packets[k][p].payload \in Bodies[k]

\* handleAccept activates a connection together with its socket.
PeersAreThere == \A i \in DOMAIN con : con[i].activated => con[i].peer \in Endpoints

\* Before the first frame is sent, its icons have been loaded; nothing leaves the
\* cache.
IconsAreLoaded == shown # {} => {PlayerIcon, TileIcon} \subseteq cached

GamesInv ==
  /\ Inv
  /\ BodiesFit
  /\ PeersAreThere
  /\ IconsAreLoaded
  /\ GameTypeOK
  /\ IconsTypeOK
  /\ FramedIconsAreKnown

LEMMA TakenBodiesFit ==
  ASSUME Inv, BodiesFit, NEW kind \in PacketKinds, TakePacket(kind)
  PROVE  BodiesFit'
BY TakenPacketsWereThere DEF BodiesFit

LEMMA ReceivedBodyFits ==
  ASSUME Inv, BodiesFit,
         NEW e \in Endpoints, NEW k \in PacketKinds, NEW d \in Bodies[k],
         HandlePacket(e, k, d)
  PROVE  BodiesFit'
<1>1. PICK i \in Ids :
        /\ IsFirst(i, At(e))
        /\ packets' = [packets EXCEPT ![k] =
             Append(@, [username |-> con[i].username, payload |-> d, from |-> i])]
  BY DEF HandlePacket
<1> DEFINE event == [username |-> con[i].username, payload |-> d, from |-> i]
<1>2. i \in connections
  BY <1>1 DEF IsFirst, At
<1>3. /\ con[i].username \in Usernames /\ d \in Payloads
      /\ packets \in [PacketKinds -> Seq(PacketEvent)]
  BY <1>2, ListedIsConnection DEF Inv, TypeOK, NetworkTypeOK, Connection
<1>4. event \in PacketEvent /\ event.payload = d
  BY <1>3 DEF PacketEvent
<1>5. packets[k] \in Seq(PacketEvent) /\ packets' = [packets EXCEPT ![k] = Append(packets[k], event)]
  BY <1>1, <1>3
<1> HIDE DEF event
<1>6. /\ packets'[k] = Append(packets[k], event)
      /\ \A l \in PacketKinds \ {k} : packets'[l] = packets[l]
  BY <1>3, <1>5
<1>7. /\ DOMAIN packets'[k] = DOMAIN packets[k] \cup {Len(packets[k]) + 1}
      /\ packets'[k][Len(packets[k]) + 1] = event
      /\ \A p \in DOMAIN packets[k] : packets'[k][p] = packets[k][p]
  BY <1>4, <1>5, <1>6, AppendProperties, LenProperties
<1>8. QED
  BY <1>4, <1>6, <1>7 DEF BodiesFit

LEMMA BodiesStayFit ==
  ASSUME Inv, BodiesFit, [Next]_vars
  PROVE  BodiesFit'
<1>1. ASSUME UNCHANGED packets
      PROVE  BodiesFit'
  BY <1>1 DEF BodiesFit
<1>2. CASE Network(NetworkHandlers)
  <2>1. ASSUME NEW e \in Endpoints, NEW n \in RawNames, HandleConnect(e, n)
        PROVE  UNCHANGED packets
    BY <2>1 DEF HandleConnect, AlreadyConnected, Refuse, AwaitTcp, networkVars
  <2>2. CASE \/ \E a \in Ids, peer \in Endpoints : HandleAccept(a, peer)
             \/ \E a \in Ids : AcceptFails(a)
    BY <1>1, <2>2 DEF HandleAccept, AcceptFails
  <2>3. ASSUME NEW e \in Endpoints, NEW k \in PacketKinds, NEW d \in Bodies[k],
               HandlePacket(e, k, d)
        PROVE  BodiesFit'
    BY <2>3, ReceivedBodyFits
  <2>4. QED
    BY <1>1, <1>2, <2>1, <2>2, <2>3 DEF Network, NetworkHandlers
<1>3. CASE DeliverMessage \/ DeliverClientInfo
  <2>1. \E kind \in PacketKinds : TakePacket(kind)
    BY <1>3 DEF DeliverMessage, DeliverClientInfo
  <2>2. QED
    BY <2>1, TakenBodiesFit
<1>4. CASE \/ \E a \in Ids : DeliverNewConnection(a)
           \/ \E a \in Ids : UpdateProcess(a)
           \/ \E u \in Usernames : Blocked(u)
           \/ UNCHANGED vars
  BY <1>1, <1>4 DEF DeliverNewConnection, TakeNewConnection, UpdateProcess,
    Blocked, networkVars, vars
<1>5. QED
  BY <1>2, <1>3, <1>4 DEF Next

LEMMA PeersStayThere ==
  ASSUME Inv, PeersAreThere, [Next]_vars
  PROVE  PeersAreThere'
<1>1. con \in Seq(Connection)
  BY DEF Inv, TypeOK, NetworkTypeOK
<1>2. ASSUME UNCHANGED con
      PROVE  PeersAreThere'
  BY <1>2 DEF PeersAreThere
<1>3. CASE Network(NetworkHandlers)
  <2>1. ASSUME NEW e \in Endpoints, NEW n \in RawNames, HandleConnect(e, n)
        PROVE  PeersAreThere'
    <3> DEFINE entry == [username |-> Sanitize[n], endpoint |-> e,
                         activated |-> FALSE, peer |-> Nobody]
    <3>1. con' = con \/ con' = Append(con, entry)
      BY <2>1 DEF HandleConnect, AlreadyConnected, Refuse, AwaitTcp, networkVars
    <3>2. entry \in Connection /\ ~entry.activated
      BY DEF Connection
    <3> HIDE DEF entry
    <3>3. CASE con' = Append(con, entry)
      <4>1. /\ DOMAIN con' = DOMAIN con \cup {Len(con) + 1}
            /\ con'[Len(con) + 1] = entry
            /\ \A i \in DOMAIN con : con'[i] = con[i]
        BY <1>1, <3>2, <3>3, AppendProperties, LenProperties
      <4>2. QED
        BY <3>2, <4>1 DEF PeersAreThere
    <3>4. QED
      BY <1>2, <3>1, <3>3
  <2>2. ASSUME NEW a \in Ids, NEW peer \in Endpoints, HandleAccept(a, peer)
        PROVE  PeersAreThere'
    <3>1. /\ con' = [con EXCEPT ![a].activated = TRUE, ![a].peer = peer]
          /\ \A i \in DOMAIN con : con[i] \in Connection
      BY <1>1, <2>2 DEF HandleAccept
    <3>2. DOMAIN con' = DOMAIN con
      BY <3>1
    <3>3. \A i \in DOMAIN con : i # a => con'[i] = con[i]
      BY <3>1
    <3>4. a \in DOMAIN con => con'[a].peer = peer
      BY <3>1 DEF Connection
    <3>5. QED
      BY <3>2, <3>3, <3>4 DEF PeersAreThere
  <2>3. CASE \/ \E a \in Ids : AcceptFails(a)
             \/ \E e \in Endpoints, k \in PacketKinds : \E d \in Bodies[k] :
                  HandlePacket(e, k, d)
    BY <1>2, <2>3 DEF AcceptFails, HandlePacket
  <2>4. QED
    BY <1>3, <2>1, <2>2, <2>3 DEF Network, NetworkHandlers
<1>4. CASE \/ \E a \in Ids : DeliverNewConnection(a)
           \/ DeliverMessage \/ DeliverClientInfo
           \/ \E a \in Ids : UpdateProcess(a)
           \/ \E u \in Usernames : Blocked(u)
           \/ UNCHANGED vars
  BY <1>2, <1>4 DEF DeliverNewConnection, TakeNewConnection, DeliverMessage,
    DeliverClientInfo, TakePacket, UpdateProcess, Blocked, networkVars, vars
<1>5. QED
  BY <1>3, <1>4 DEF Next
-----------------------------------------------------------------------------
LEMMA GamesInit == ServiceInit => GamesInv
<1> SUFFICES ASSUME ServiceInit PROVE GamesInv
  OBVIOUS
<1>1. Inv
  BY InvInit DEF ServiceInit
<1>2. /\ con = <<>> /\ packets = [k \in PacketKinds |-> <<>>]
      /\ shown = {} /\ frames = {} /\ replies = {} /\ cached = {} /\ inputs = 0
      /\ queue = NoQueue
      /\ position = [i \in Ids |-> [x |-> 0, y |-> 0]]
  BY DEF ServiceInit, Init, NetworkInit, GameInit, IconsInit
<1>3. BodiesFit /\ PeersAreThere /\ IconsAreLoaded
  BY <1>2 DEF BodiesFit, PeersAreThere, IconsAreLoaded
<1>4. 0 \in Words
  BY DEF Words, Word
<1>5. GameTypeOK /\ IconsTypeOK
  <2>1. [x |-> 0, y |-> 0] \in Positions
    BY <1>4 DEF Positions, Words
  <2>2. GameTypeOK
    BY <1>2, <2>1 DEF GameTypeOK
  <2>3. IconsTypeOK
    BY <1>2 DEF IconsTypeOK, NoQueue
  <2>4. QED
    BY <2>2, <2>3
<1>6. FramedIconsAreKnown
  BY <1>2 DEF FramedIconsAreKnown
<1>7. QED
  BY <1>1, <1>3, <1>5, <1>6 DEF GamesInv

\* The player of a game is its client's, which is there.
LEMMA PlayersAreClients ==
  ASSUME Inv, NEW u, NEW g \in Players(u)
  PROVE  /\ g \in Ids /\ g \in authorized /\ g \in connections
         /\ copy[g].endpoint = con[g].endpoint /\ con[g].endpoint \in Endpoints
         /\ Holds(g, u)
<1>1. g \in Ids /\ games[g] > 0 /\ copy[g].username = u
  BY DEF Players
<1>2. g \in authorized /\ g \in clients
  BY <1>1 DEF Inv, OneGamePerAuthorizedClient, TypeOK, SessionsTypeOK
<1>3. /\ g \in connections
      /\ copy[g].endpoint = con[g].endpoint /\ con[g].username = u
      /\ con[g].activated
  BY <1>1, <1>2 DEF Inv, CopyIsCurrent, AnnouncedAreActivated
<1>4. con[g].endpoint \in Endpoints
  BY <1>3, ListedIsConnection DEF Inv, Connection
<1>5. QED
  BY <1>1, <1>2, <1>3, <1>4 DEF Holds

\* The cache only grows.
LEMMA CacheGrows ==
  ASSUME cached \subseteq IconIds, NEW ids \in Seq(IconIds), LoadAll(ids) \/ LoadFails(ids)
  PROVE  /\ cached \subseteq cached' /\ cached' \subseteq IconIds
         /\ LoadAll(ids) => \A p \in DOMAIN ids : ids[p] \in cached'
<1>1. DOMAIN ids = 1 .. Len(ids) /\ Len(ids) \in Nat
      /\ \A p \in DOMAIN ids : ids[p] \in IconIds
  BY LenProperties
<1>2. LoadAll(ids) => \A p \in DOMAIN ids : ids[p] \in cached'
  BY DEF LoadAll
<1>3. CASE LoadAll(ids)
  BY <1>1, <1>3 DEF LoadAll
<1>4. CASE LoadFails(ids)
  <2>1. PICK p \in 1 .. Len(ids) : cached' = cached \cup {ids[q] : q \in 1 .. p - 1}
    BY <1>1, <1>4 DEF LoadFails
  <2>2. \A q \in 1 .. p - 1 : q \in 1 .. Len(ids)
    BY <1>1
  <2>3. cached \subseteq cached' /\ cached' \subseteq IconIds
    BY <1>1, <2>1, <2>2
  <2>4. QED
    BY <1>2, <2>3
<1>5. QED
  BY <1>2, <1>3, <1>4

\* The icons in a reply.
LEMMA KnownIcons ==
  ASSUME NEW list \in Seq(Wanted)
  PROVE  /\ Known(list) \in Seq(IconIds)
         /\ \A p \in DOMAIN list : list[p].icon \in cached =>
              \E q \in DOMAIN Known(list) : Known(list)[q] = list[p].icon
<1> DEFINE icons == [p \in DOMAIN list |-> list[p].icon]
<1>1. /\ Len(list) \in Nat /\ DOMAIN list = 1 .. Len(list)
      /\ \A p \in 1 .. Len(list) : list[p] \in Wanted
  BY LenProperties
<1>2. \A p \in 1 .. Len(list) : list[p].icon \in IconIds
  BY <1>1 DEF Wanted
<1>3. /\ icons \in Seq(IconIds) /\ DOMAIN icons = DOMAIN list
      /\ \A p \in DOMAIN list : icons[p] = list[p].icon
  BY <1>1, <1>2
<1>4. Known(list) = Kept(icons, cached)
  BY DEF Known
<1> HIDE DEF icons
<1>5. Kept(icons, cached) \in Seq(IconIds \cap cached)
  BY <1>3, KeptProperties
<1>6. ASSUME NEW p \in 1 .. Len(icons), icons[p] \in cached
      PROVE  \E q \in 1 .. Len(Kept(icons, cached)) : Kept(icons, cached)[q] = icons[p]
  BY <1>3, <1>6, KeptElement
<1>7. Kept(icons, cached) \in Seq(IconIds)
  BY <1>5, SeqMonotonic
<1>8. DOMAIN icons = 1 .. Len(icons) /\ DOMAIN Kept(icons, cached) = 1 .. Len(Kept(icons, cached))
  BY <1>3, <1>7, LenProperties
<1>9. QED
  BY <1>3, <1>4, <1>6, <1>7, <1>8
-----------------------------------------------------------------------------
LEMMA GamesServerStep ==
  ASSUME GamesInv, ServerStep \/ UNCHANGED serviceVars
  PROVE  GamesInv'
<1>1. [Next]_vars /\ UNCHANGED <<position, inputs, shown, cached, queue>>
  BY DEF ServerStep, serviceVars, gameVars, iconVars
<1>2. Inv' /\ BodiesFit' /\ PeersAreThere'
  BY <1>1, InvNext, BodiesStayFit, PeersStayThere DEF GamesInv
<1>3. IconsAreLoaded'
  BY <1>1 DEF GamesInv, IconsAreLoaded
<1>4. CASE ServerStep
  <2>1. frames' = {} /\ replies' = {}
    BY <1>4 DEF ServerStep
  <2>2. GameTypeOK' /\ IconsTypeOK'
    BY <1>1, <2>1 DEF GamesInv, GameTypeOK, IconsTypeOK
  <2>3. FramedIconsAreKnown'
    BY <2>1 DEF FramedIconsAreKnown
  <2>4. QED
    BY <1>2, <1>3, <2>2, <2>3 DEF GamesInv
<1>5. CASE UNCHANGED serviceVars
  <2>1. UNCHANGED <<position, inputs, shown, cached, queue, frames, replies,
                    authorized, con, window>>
    BY <1>5 DEF serviceVars, vars, gameVars, iconVars, networkVars, sessionVars
  <2>2. GameTypeOK' /\ IconsTypeOK'
    BY <2>1 DEF GamesInv, GameTypeOK, IconsTypeOK
  <2>3. FramedIconsAreKnown'
    BY <2>1 DEF GamesInv, FramedIconsAreKnown
  <2>4. QED
    BY <1>2, <1>3, <2>2, <2>3 DEF GamesInv
<1>6. QED
  BY <1>4, <1>5

LEMMA GamesInput ==
  ASSUME GamesInv, DeliverInput
  PROVE  GamesInv'
<1> DEFINE event == Head(packets["input"])
<1> DEFINE keys == Keys[event.payload]
<1> DEFINE G == Players(event.username)
<1>1. /\ TakePacket("input") /\ OnInput(event.username, keys)
      /\ replies' = {} /\ UNCHANGED <<con, authorized, copy, window, queue>>
  BY DEF DeliverInput, sessionVars, TakePacket
<1>2. keys \in Seq(Codes)
  <2>1. packets["input"] \in Seq(PacketEvent) /\ packets["input"] # <<>>
    BY <1>1 DEF GamesInv, Inv, TypeOK, NetworkTypeOK, TakePacket
  <2>2. event = packets["input"][1] /\ 1 \in DOMAIN packets["input"]
    BY <2>1, HeadTailProperties, LenProperties, EmptySeq
  <2>3. event.payload \in DOMAIN Keys
    BY <2>2 DEF GamesInv, BodiesFit
  <2>4. QED
    BY <2>3 DEF Codes
<1> HIDE DEF event, keys, G
<1>3. Inv' /\ BodiesFit' /\ PeersAreThere'
  BY <1>1, OtherStepsKeepInv, TakenBodiesFit DEF GamesInv, PeersAreThere
<1>4. cached \subseteq cached' /\ cached' \subseteq IconIds
      /\ (shown' # shown => {PlayerIcon, TileIcon} \subseteq cached')
  <2>1. FrameIcons \in Seq(IconIds) /\ 1 \in DOMAIN FrameIcons /\ 2 \in DOMAIN FrameIcons
        /\ FrameIcons[1] = PlayerIcon /\ FrameIcons[2] = TileIcon
    BY DEF FrameIcons
  <2>2. cached \subseteq IconIds
    BY DEF GamesInv, IconsTypeOK
  <2>3. \/ LoadAll(FrameIcons) \/ (LoadFails(FrameIcons) /\ UNCHANGED shown)
        \/ UNCHANGED <<cached, shown>>
    BY <1>1 DEF OnInput, Play, gameVars
  <2>4. QED
    BY <2>1, <2>2, <2>3, CacheGrows
<1>5. IconsAreLoaded'
  BY <1>4 DEF GamesInv, IconsAreLoaded
<1>6. IconsTypeOK' /\ FramedIconsAreKnown'
  BY <1>1, <1>4 DEF GamesInv, IconsTypeOK, FramedIconsAreKnown
<1>7. CASE Play(G, keys)
  <2>0. inputs' \in 0 .. MaxInputs
    BY <1>7 DEF Play, GamesInv, GameTypeOK
  <2>1. /\ position' = [g \in Ids |-> IF g \in G THEN Moved(position[g], keys)
                                      ELSE position[g]]
        /\ frames' \subseteq {Frame(g, position'[g]) : g \in G}
        /\ shown' \subseteq shown \cup G
    BY <1>7 DEF Play
  <2>2. position \in [Ids -> Positions] /\ shown \subseteq Ids
    BY DEF GamesInv, GameTypeOK
  <2>3. \A g \in Ids : Moved(position[g], keys) \in Positions
    BY <1>2, <2>2, MovedAxes DEF Axes
  <2>4. position' \in [Ids -> Positions]
    BY <2>1, <2>2, <2>3
  <2>5. \A g \in G : g \in Ids /\ g \in authorized /\ copy[g].endpoint = con[g].endpoint
                     /\ con[g].endpoint \in Endpoints
    BY PlayersAreClients DEF GamesInv, G
  <2>6. window \in [Ids -> Payloads \cup {NoWindow}]
    BY DEF GamesInv, Inv, TypeOK, SessionsTypeOK
  <2>7. \A f \in frames' : \E g \in G :
          f = [to |-> con[g].endpoint, window |-> window[g], player |-> position'[g]]
    BY <2>1, <2>5 DEF Frame
  <2>8. frames' \subseteq Frames
    <3> SUFFICES ASSUME NEW f \in frames' PROVE f \in Frames
      OBVIOUS
    <3>1. PICK g \in G :
            f = [to |-> con[g].endpoint, window |-> window[g], player |-> position'[g]]
      BY <2>7
    <3>2. /\ con[g].endpoint \in Endpoints /\ window[g] \in Payloads \cup {NoWindow}
          /\ position'[g] \in Positions
      BY <2>4, <2>5, <2>6
    <3>3. QED
      BY <3>1, <3>2 DEF Frames
  <2>9. shown' \subseteq Ids
    BY <2>1, <2>2, <2>5
  <2>10. GameTypeOK'
    BY <2>0, <2>4, <2>8, <2>9 DEF GameTypeOK
  <2>11. QED
    BY <1>3, <1>5, <1>6, <2>10 DEF GamesInv
<1>8. CASE frames' = {} /\ UNCHANGED <<position, inputs, shown>>
  <2>1. GameTypeOK'
    BY <1>8 DEF GamesInv, GameTypeOK
  <2>2. QED
    BY <1>3, <1>5, <1>6, <2>1 DEF GamesInv
<1>9. QED
  BY <1>1, <1>7, <1>8 DEF OnInput, gameVars, G
-----------------------------------------------------------------------------
LEMMA WantedByIsAList ==
  ASSUME NEW from \in Ids, NEW ids \in Seq(IconIds)
  PROVE  WantedBy(from, ids) \in Seq(Wanted)
<1>1. DOMAIN ids = 1 .. Len(ids) /\ Len(ids) \in Nat /\ \A p \in 1 .. Len(ids) : ids[p] \in IconIds
  BY LenProperties
<1>2. \A p \in 1 .. Len(ids) : [icon |-> ids[p], from |-> from] \in Wanted
  BY <1>1 DEF Wanted
<1>3. WantedBy(from, ids) = [p \in 1 .. Len(ids) |-> [icon |-> ids[p], from |-> from]]
  BY <1>1 DEF WantedBy
<1>4. QED
  BY <1>1, <1>2, <1>3

LEMMA GamesRequest ==
  ASSUME GamesInv, DeliverRequest
  PROVE  GamesInv'
<1> DEFINE event == Head(packets["resource"])
<1> DEFINE u == event.username
<1> DEFINE new == WantedBy(event.from, Requests[event.payload])
<1>1. packets["resource"] \in Seq(PacketEvent) /\ packets["resource"] # <<>>
  BY DEF DeliverRequest, TakePacket, GamesInv, Inv, TypeOK, NetworkTypeOK
<1>2. event \in PacketEvent /\ event.payload \in Bodies["resource"]
  <2>1. event = packets["resource"][1] /\ 1 \in DOMAIN packets["resource"]
    BY <1>1, HeadTailProperties, LenProperties, EmptySeq
  <2>2. QED
    BY <1>1, <2>1 DEF GamesInv, BodiesFit
<1>3. /\ TakePacket("resource") /\ queue' = WithQueued(u, Queued(u) \o new)
      /\ replies' = {} /\ frames' = {}
      /\ UNCHANGED <<con, position, inputs, shown, cached>>
  BY DEF DeliverRequest, OnRequest, TakePacket, gameVars
<1>4. event.from \in Ids /\ u \in Usernames /\ Requests[event.payload] \in Seq(IconIds)
  BY <1>2 DEF PacketEvent
<1> HIDE DEF event, u
<1>5. new \in Seq(Wanted)
  BY <1>4, WantedByIsAList
<1> HIDE DEF new
<1>6. Queued(u) \in Seq(Wanted)
  BY DEF GamesInv, IconsTypeOK, Queued
<1>7. Queued(u) \o new \in Seq(Wanted)
  BY <1>5, <1>6, ConcatProperties
<1>8. IconsTypeOK'
  <2>1. /\ DOMAIN queue' = DOMAIN queue \cup {u}
        /\ queue'[u] = Queued(u) \o new
        /\ \A v \in DOMAIN queue : v # u => queue'[v] = queue[v]
    BY <1>3 DEF WithQueued
  <2>2. QED
    BY <1>3, <1>4, <1>7, <2>1 DEF GamesInv, IconsTypeOK
<1>9. Inv' /\ BodiesFit' /\ PeersAreThere'
  BY <1>3, OtherStepsKeepInv, TakenBodiesFit DEF GamesInv, PeersAreThere
<1>10. GameTypeOK' /\ IconsAreLoaded' /\ FramedIconsAreKnown'
  BY <1>3 DEF GamesInv, GameTypeOK, IconsAreLoaded, FramedIconsAreKnown
<1>11. QED
  BY <1>8, <1>9, <1>10 DEF GamesInv

\* A whole reply has the icons of a frame, if its client has been sent one.
HasFrameIcons(r) ==
  r.on \in shown /\ r.whole =>
    \A p \in DOMAIN r.wanted :
      r.wanted[p].icon \in {PlayerIcon, TileIcon} =>
        \E q \in DOMAIN r.icons : r.icons[q] = r.wanted[p].icon

LEMMA ReplyIsWhole ==
  ASSUME GamesInv, NEW u \in DOMAIN queue, NEW i \in Ids, con[i].activated,
         Answers(u, i)
  PROVE  LET r == ReplyTo(i, con[i].peer, queue[u]) IN
         r \in Reply /\ HasFrameIcons(r)
<1> DEFINE r == ReplyTo(i, con[i].peer, queue[u])
<1>1. PICK list \in Seq(Wanted) : list = queue[u]
  BY DEF GamesInv, IconsTypeOK
<1>2. /\ Known(list) \in Seq(IconIds)
      /\ \A p \in DOMAIN list : list[p].icon \in cached =>
           \E q \in DOMAIN Known(list) : Known(list)[q] = list[p].icon
  BY KnownIcons
<1>3. con[i].peer \in Endpoints
  <2>1. i \in connections
    BY DEF Answers, IsFirst, Named
  <2>2. i \in DOMAIN con
    BY <2>1, LenProperties DEF GamesInv, Inv, TypeOK, NetworkTypeOK
  <2>3. QED
    BY <2>2 DEF GamesInv, PeersAreThere
<1>4. r = [on |-> i, to |-> con[i].peer, wanted |-> list, icons |-> Known(list),
           whole |-> Len(Known(list)) <= Capacity]
  BY <1>1 DEF ReplyTo
<1>5. (Len(Known(list)) <= Capacity) \in BOOLEAN
  OBVIOUS
<1> DEFINE whole == Len(Known(list)) <= Capacity
<1> HIDE DEF whole
<1>6. r = [on |-> i, to |-> con[i].peer, wanted |-> list, icons |-> Known(list),
           whole |-> whole] /\ whole \in BOOLEAN
  BY <1>4, <1>5, Zenon DEF whole
<1> HIDE DEF r
<1>7. r \in Reply
  BY <1>2, <1>3, <1>6, Zenon DEF Reply
<1>8. r.on = i /\ r.wanted = list /\ r.icons = Known(list)
  BY <1>6
<1>9. shown # {} => PlayerIcon \in cached /\ TileIcon \in cached
  BY DEF GamesInv, IconsAreLoaded
<1>10. HasFrameIcons(r)
  BY <1>2, <1>8, <1>9 DEF HasFrameIcons
<1>11. QED
  BY <1>7, <1>10 DEF r

LEMMA GamesRespond ==
  ASSUME GamesInv, Respond
  PROVE  GamesInv'
<1>1. /\ queue' = NoQueue /\ frames' = {}
      /\ UNCHANGED <<con, packets, position, inputs, shown, cached>>
  BY DEF Respond, QueueTaken, networkVars, gameVars
<1>2. PICK U \in SUBSET (DOMAIN queue) : replies' = RepliesTo(U)
  BY DEF Respond
<1>3. ASSUME NEW r \in replies'
      PROVE  r \in Reply /\ HasFrameIcons(r)
  <2>1. PICK u \in DOMAIN queue, i \in Ids :
          /\ Answers(u, i) /\ con[i].activated
          /\ r = ReplyTo(i, con[i].peer, queue[u])
    BY <1>2 DEF RepliesTo
  <2>2. QED
    BY <2>1, ReplyIsWhole
<1>4. IconsTypeOK'
  BY <1>1, <1>3 DEF GamesInv, IconsTypeOK, NoQueue
<1>5. FramedIconsAreKnown'
  BY <1>1, <1>3 DEF FramedIconsAreKnown, HasFrameIcons
<1>6. Inv' /\ BodiesFit' /\ PeersAreThere'
  BY <1>1, OtherStepsKeepInv DEF GamesInv, BodiesFit, PeersAreThere
<1>7. GameTypeOK' /\ IconsAreLoaded'
  BY <1>1 DEF GamesInv, GameTypeOK, IconsAreLoaded
<1>8. QED
  BY <1>4, <1>5, <1>6, <1>7 DEF GamesInv

LEMMA GamesNext == GamesInv /\ [ServiceNext]_serviceVars => GamesInv'
BY GamesServerStep, GamesInput, GamesRequest, GamesRespond DEF ServiceNext

LEMMA GamesInvariant == ServiceSpec => []GamesInv
BY GamesInit, GamesNext, PTL DEF ServiceSpec

-----------------------------------------------------------------------------
(* Whoever may be blocked, and whatever fails. *)

\* The queue, the cache, the replies, the frames and the positions are always of
\* their types: 16-bit positions, replies only to addresses that are there.
THEOREM ServiceTypeCorrect == ServiceSpec => []ServiceTypeOK
<1>1. GamesInv => ServiceTypeOK
  BY DEF GamesInv, ServiceTypeOK, Inv
<1>2. QED
  BY <1>1, GamesInvariant, PTL

\* sendFrame loads its icons before the frame is sent, so that the responder's
\* reply, unless it is cut off, has each of them that a client which was sent a
\* frame asks for.
THEOREM FramedIconsAreAlwaysKnown == ServiceSpec => []FramedIconsAreKnown
<1>1. GamesInv => FramedIconsAreKnown
  BY DEF GamesInv
<1>2. QED
  BY <1>1, GamesInvariant, PTL
-----------------------------------------------------------------------------
(* The moves of a player, as long as nobody is blocked. *)

LEMMA MovedByOwnInput ==
  ASSUME ServiceInv, GamesInv, DeliverInput, NEW g \in Ids, position'[g] # position[g]
  PROVE  LET event == Head(packets["input"])
             keys  == Keys[event.payload]
             right == 32 * Steps(keys, "D") + Word * Len(keys)
             down  == 32 * Steps(keys, "S") + Word * Len(keys) IN
         /\ event.from = g
         /\ position'[g].x = (position[g].x + right - 32 * Steps(keys, "A")) % Word
         /\ position'[g].y = (position[g].y + down - 32 * Steps(keys, "W")) % Word
<1> DEFINE event == Head(packets["input"])
<1> DEFINE keys == Keys[event.payload]
<1> DEFINE G == Players(event.username)
<1>1. /\ TakePacket("input") /\ OnInput(event.username, keys)
  BY DEF DeliverInput
<1>2. packets["input"] \in Seq(PacketEvent) /\ packets["input"] # <<>>
  BY <1>1 DEF GamesInv, Inv, TypeOK, NetworkTypeOK, TakePacket
<1>3. event = packets["input"][1] /\ 1 \in DOMAIN packets["input"]
  BY <1>2, HeadTailProperties, LenProperties, EmptySeq
<1>4. event.payload \in DOMAIN Keys /\ Holds(event.from, event.username)
  BY <1>3 DEF ServiceInv, OwnInv, PacketsAreOwn
<1>5. keys \in Seq(Codes)
  BY <1>4 DEF Codes
<1> HIDE DEF event, keys, G
<1>6. Play(G, keys)
  BY <1>1 DEF OnInput, gameVars, G
<1>7. g \in G /\ position'[g] = Moved(position[g], keys)
  BY <1>6 DEF Play
<1>8. Holds(g, event.username)
  BY <1>7, PlayersAreClients DEF GamesInv, G
<1>9. event.from = g
  BY <1>4, <1>8, HoldersAreOne DEF ServiceInv, OwnInv, Inv
<1>10. position[g] \in Positions
  BY DEF GamesInv, GameTypeOK
<1>11. Axes(position[g], position'[g], keys, Len(keys))
  BY <1>5, <1>7, <1>10, MovedAxes
<1>12. DOMAIN keys = 1 .. Len(keys)
  BY <1>5, LenProperties
<1>13. /\ Count(keys, "D", Len(keys)) = Steps(keys, "D")
       /\ Count(keys, "A", Len(keys)) = Steps(keys, "A")
       /\ Count(keys, "S", Len(keys)) = Steps(keys, "S")
       /\ Count(keys, "W", Len(keys)) = Steps(keys, "W")
  BY <1>12 DEF Steps, Count
<1>14. /\ position'[g].x = Place(position[g].x, Len(keys), Steps(keys, "D"), Steps(keys, "A"))
       /\ position'[g].y = Place(position[g].y, Len(keys), Steps(keys, "S"), Steps(keys, "W"))
  BY <1>11, <1>13 DEF Axes
<1>15. QED
  BY <1>9, <1>14, Zenon DEF event, keys, Place

\* Without blocked clients, a player is moved by no input but its own client's,
\* and by every number and order of keys exactly as far as 16-bit arithmetic
\* says, whatever it wraps around on the way.
THEOREM MovesAreAlwaysOwn ==
  ASSUME Blockable = {}
  PROVE  ServiceSpec => MovesAreOwn
<1> DEFINE Own ==
      \A g \in Ids :
        position'[g] # position[g] =>
          LET event == Head(packets["input"])
              keys  == Keys[event.payload]
              right == 32 * Steps(keys, "D") + Word * Len(keys)
              down  == 32 * Steps(keys, "S") + Word * Len(keys) IN
          /\ event.from = g
          /\ position'[g].x = (position[g].x + right - 32 * Steps(keys, "A")) % Word
          /\ position'[g].y = (position[g].y + down - 32 * Steps(keys, "W")) % Word
<1>1. ServiceInv /\ GamesInv /\ [ServiceNext]_serviceVars => [Own]_serviceVars
  <2> SUFFICES ASSUME ServiceInv, GamesInv, ServiceNext PROVE Own
    OBVIOUS
  <2>1. CASE DeliverInput
    BY <2>1, MovedByOwnInput, Zenon
  <2>2. CASE ServerStep \/ DeliverRequest \/ Respond
    <3>1. UNCHANGED position
      BY <2>2 DEF ServerStep, DeliverRequest, Respond, gameVars
    <3>2. QED
      BY <3>1
  <2>3. QED
    BY <2>1, <2>2 DEF ServiceNext
<1>2. QED
  BY <1>1, ServiceInvInit, ServiceInvNext, GamesInit, GamesNext, PTL
     DEF ServiceSpec, MovesAreOwn
-----------------------------------------------------------------------------
\* What the games and the responder are to Network.
LEMMA ServiceStepUsesNetwork ==
  Inv /\ [ServiceNext]_serviceVars => [OpenNetworkNext]_<<networkVars, sent, fault>>
<1> SUFFICES ASSUME Inv, [ServiceNext]_serviceVars
             PROVE  [OpenNetworkNext]_<<networkVars, sent, fault>>
  OBVIOUS
<1>1. CASE ServerStep \/ UNCHANGED serviceVars
  <2>1. [Next]_vars
    BY <1>1 DEF ServerStep, serviceVars
  <2>2. QED
    BY <2>1, ServerStepUsesNetwork
<1>2. CASE DeliverInput \/ DeliverRequest \/ Respond
  <2>1. Running /\ sent' \subseteq Datagrams
    BY <1>2, OtherStepsAreApart
  <2>2. Inv'
    BY <1>2, OtherStepsKeepInv
  <2>3. fault' \in Faults
    BY <2>2 DEF Inv, TypeOK, NetworkTypeOK, WireTypeOK
  <2>4. CASE DeliverInput
    <3>1. UNCHANGED connections /\ TakePacket("input") /\ "input" \in PacketKinds
      BY <2>4, ServiceAssumption DEF DeliverInput
    <3>2. QED
      BY <2>1, <2>3, <3>1, DeliveryUsesNetwork DEF OpenNetworkNext
  <2>5. CASE DeliverRequest
    <3>1. UNCHANGED connections /\ TakePacket("resource") /\ "resource" \in PacketKinds
      BY <2>5, ServiceAssumption DEF DeliverRequest
    <3>2. QED
      BY <2>1, <2>3, <3>1, DeliveryUsesNetwork DEF OpenNetworkNext
  <2>6. CASE Respond
    BY <2>1, <2>3, <2>6 DEF Respond, UseOfNetwork, OpenNetworkNext
  <2>7. QED
    BY <1>2, <2>4, <2>5, <2>6
<1>3. QED
  BY <1>1, <1>2 DEF ServiceNext

\* So do the games and the icon responder.
THEOREM ServiceUsesNetwork == ServiceSpec => OpenNetworkSpec
<1>1. ServiceInit => NetworkUseInit /\ Inv
  BY InvInit DEF ServiceInit, Init, NetworkUseInit
<1>2. QED
  BY <1>1, ServiceKeepsInv, ServiceStepUsesNetwork, PTL DEF ServiceSpec, OpenNetworkSpec

\* Hence what holds of NetworkController by itself holds in the whole server:
\* connections are activated in the order of handleConnect.
THEOREM ServiceKeepsHandshakes == ServiceSpec => []HandshakesCompleteInOrder
<1>1. NetInv => HandshakesCompleteInOrder
  BY DEF NetInv
<1>2. QED
  BY <1>1, ServiceUsesNetwork, OpenNetInvariant, PTL
-----------------------------------------------------------------------------
(* Answers to requests. *)

\* The dispatcher can deliver the oldest ResourceRequest.
CanDeliverRequest ==
  /\ Running
  /\ packets["resource"] # <<>>
  /\ LET event == Head(packets["resource"]) IN
     Len(Queued(event.username)) + Len(Requests[event.payload]) <= MaxWanted

\* The timer of PeriodMS<5> can call the responder, and somebody waits.
CanRespond == Running /\ DOMAIN queue # {}

\* Weak fairness of both, as in ServiceFairSpec, with the guards written out.
ResponderIsFair ==
  /\ []<>~CanDeliverRequest \/ []<><<DeliverRequest>>_serviceVars
  /\ []<>~CanRespond \/ []<><<Respond>>_serviceVars

\* A request of connection i is the p-th that waits for delivery; the 0-th waits
\* for the responder.
StandsAt(i, p) ==
  /\ Running
  /\ IF p = 0 THEN \E u \in DOMAIN queue : Holds(i, u)
     ELSE p \in DOMAIN packets["resource"] /\ packets["resource"][p].from = i

\* What RequestsAreAnswered promises.
Answered(i) == ~Running \/ \E r \in replies : r.on = i

\* What a step does to the packets that wait.
LEMMA PacketsOfStep ==
  ASSUME [ServiceNext]_serviceVars
  PROVE  \/ UNCHANGED packets
         \/ \E kind \in PacketKinds :
              TakePacket(kind) /\ (DeliverRequest \/ kind # "resource")
         \/ \E e \in Endpoints, k \in PacketKinds : \E d \in Bodies[k] : HandlePacket(e, k, d)
<1>1. {"message", "clientInfo", "input", "resource"} \subseteq PacketKinds
  OBVIOUS
<1>2. CASE ServerStep
  BY <1>1, <1>2 DEF ServerStep, Next, Network, NetworkHandlers, HandleConnect,
    AlreadyConnected, Refuse, AwaitTcp, HandleAccept, AcceptFails, DeliverNewConnection,
    TakeNewConnection, DeliverMessage, DeliverClientInfo, UpdateProcess, Blocked, networkVars
<1>3. CASE DeliverInput \/ DeliverRequest
  BY <1>1, <1>3 DEF DeliverInput, DeliverRequest
<1>4. CASE Respond \/ UNCHANGED serviceVars
  BY <1>4 DEF Respond, serviceVars, vars, networkVars
<1>5. QED
  BY <1>2, <1>3, <1>4 DEF ServiceNext

\* Only DeliverRequest takes a request out of its queue.
LEMMA RequestsOnlyGrow ==
  ASSUME Inv, [ServiceNext]_serviceVars, ~DeliverRequest
  PROVE  \A p \in DOMAIN packets["resource"] :
           p \in DOMAIN packets'["resource"] /\ packets'["resource"][p] = packets["resource"][p]
<1>1. packets \in [PacketKinds -> Seq(PacketEvent)] /\ "resource" \in PacketKinds
  BY DEF Inv, TypeOK, NetworkTypeOK
<1>2. ASSUME NEW kind \in PacketKinds, kind # "resource", TakePacket(kind)
      PROVE  packets'["resource"] = packets["resource"]
  BY <1>1, <1>2 DEF TakePacket
<1>3. ASSUME NEW e \in Endpoints, NEW k \in PacketKinds, NEW d \in Bodies[k],
             HandlePacket(e, k, d), NEW p \in DOMAIN packets["resource"]
      PROVE  p \in DOMAIN packets'["resource"] /\ packets'["resource"][p] = packets["resource"][p]
  <2>1. PICK i \in Ids :
          /\ IsFirst(i, At(e))
          /\ packets' = [packets EXCEPT ![k] =
               Append(@, [username |-> con[i].username, payload |-> d, from |-> i])]
    BY <1>3 DEF HandlePacket
  <2> DEFINE event == [username |-> con[i].username, payload |-> d, from |-> i]
  <2>2. i \in connections
    BY <2>1 DEF IsFirst, At
  <2>3. con[i].username \in Usernames /\ d \in Payloads
    BY <1>3, <2>2, ListedIsConnection DEF Inv, TypeOK, NetworkTypeOK, Connection
  <2>4. event \in PacketEvent
    BY <2>3 DEF PacketEvent
  <2>5. packets' = [packets EXCEPT ![k] = Append(packets[k], event)]
    BY <1>1, <2>1
  <2> HIDE DEF event
  <2>6. CASE k = "resource"
    <3>1. packets'["resource"] = Append(packets["resource"], event)
      BY <1>1, <2>5, <2>6
    <3>2. packets["resource"] \in Seq(PacketEvent)
      BY <1>1
    <3>3. QED
      BY <1>3, <2>4, <3>1, <3>2, AppendProperties, LenProperties
  <2>7. CASE k # "resource"
    BY <1>1, <1>3, <2>5, <2>7
  <2>8. QED
    BY <2>6, <2>7
<1>4. CASE UNCHANGED packets
  BY <1>4
<1>5. QED
  BY <1>2, <1>3, <1>4, PacketsOfStep

\* Holders keep their names in all steps.
LEMMA HeldAfterServiceStep ==
  ASSUME Blockable = {}, Inv, [ServiceNext]_serviceVars, NEW i, NEW u, Holds(i, u)
  PROVE  Holds(i, u)'
<1>1. CASE ServerStep \/ UNCHANGED serviceVars
  <2>1. [Next]_vars
    BY <1>1 DEF ServerStep, serviceVars
  <2>2. QED
    BY <2>1, HeldAfterStep
<1>2. CASE DeliverInput \/ DeliverRequest \/ Respond
  BY <1>2, OtherStepsAreApart, HeldInTheSameList
<1>3. QED
  BY <1>1, <1>2 DEF ServiceNext

\* What waits for the responder waits until it responds.
LEMMA QueueOnlyGrows ==
  ASSUME [ServiceNext]_serviceVars, ~Respond
  PROVE  /\ DOMAIN queue \subseteq DOMAIN queue'
         /\ ~DeliverRequest => queue' = queue
<1>1. CASE DeliverRequest
  BY <1>1 DEF DeliverRequest, OnRequest, WithQueued
<1>2. CASE ServerStep \/ DeliverInput \/ UNCHANGED serviceVars
  BY <1>2 DEF ServerStep, DeliverInput, serviceVars, iconVars
<1>3. QED
  BY <1>1, <1>2 DEF ServiceNext

\* A request keeps its place until the next one is delivered.
LEMMA RequestStands ==
  ASSUME Blockable = {}, ServiceInv, [ServiceNext]_serviceVars, ~DeliverRequest,
         NEW i, NEW p \in Nat \ {0}, StandsAt(i, p), Running'
  PROVE  StandsAt(i, p)'
BY RequestsOnlyGrow DEF StandsAt, ServiceInv, OwnInv

\* By a delivery every request moves up by one, the first to the responder.
LEMMA RequestMovesUp ==
  ASSUME Blockable = {}, ServiceInv, DeliverRequest, NEW i, NEW p \in Nat \ {0},
         NEW q \in Nat, p = q + 1, StandsAt(i, p), Running'
  PROVE  StandsAt(i, q)'
<1>1. /\ packets["resource"] \in Seq(PacketEvent) /\ packets["resource"] # <<>>
      /\ packets'["resource"] = Tail(packets["resource"])
      /\ "resource" \in PacketKinds
  BY DEF DeliverRequest, TakePacket, ServiceInv, OwnInv, Inv, TypeOK, NetworkTypeOK
<1>2. p \in DOMAIN packets["resource"] /\ packets["resource"][p].from = i
  BY DEF StandsAt
<1>3. CASE q = 0
  <2>1. Head(packets["resource"]) = packets["resource"][p]
    BY <1>1, <1>3, HeadTailProperties
  <2>2. PICK v : v = Head(packets["resource"]).username
    OBVIOUS
  <2>3. Holds(i, v)
    BY <1>1, <1>2, <2>1, <2>2 DEF ServiceInv, OwnInv, PacketsAreOwn
  <2>4. UNCHANGED <<con, connections>>
    BY DEF DeliverRequest, TakePacket
  <2>5. Holds(i, v)'
    BY <2>3, <2>4, HeldInTheSameList
  <2>6. v \in DOMAIN queue'
    BY <2>2 DEF DeliverRequest, OnRequest, WithQueued
  <2>7. QED
    BY <1>3, <2>5, <2>6 DEF StandsAt
<1>4. CASE q # 0
  <2>1. PICK s \in Seq(PacketEvent) : s = packets["resource"]
    BY <1>1
  <2>2. p \in 1 .. Len(s) /\ s # <<>> /\ Len(s) \in Nat
    BY <1>1, <1>2, <2>1
  <2>3. q \in 1 .. Len(s) - 1
    BY <1>4, <2>2
  <2>4. DOMAIN Tail(s) = 1 .. Len(s) - 1 /\ Tail(s)[q] = s[q + 1]
    BY <2>2, <2>3, HeadTailProperties
  <2>5. q \in DOMAIN packets'["resource"] /\ packets'["resource"][q].from = i
    BY <1>1, <1>2, <2>1, <2>3, <2>4
  <2>6. QED
    BY <1>4, <2>5 DEF StandsAt
<1>5. QED
  BY <1>3, <1>4

\* Somebody who is queued stays queued until Respond.
LEMMA QueuedStands ==
  ASSUME Blockable = {}, ServiceInv, [ServiceNext]_serviceVars, ~Respond,
         NEW i, StandsAt(i, 0), Running'
  PROVE  StandsAt(i, 0)'
<1>1. PICK u \in DOMAIN queue : Holds(i, u)
  BY DEF StandsAt
<1>2. Holds(i, u)'
  BY <1>1, HeldAfterServiceStep DEF ServiceInv, OwnInv
<1>3. u \in DOMAIN queue'
  BY <1>1, QueueOnlyGrows
<1>4. QED
  BY <1>2, <1>3 DEF StandsAt

\* Whoever is queued is sent a reply by Respond.
LEMMA QueuedIsAnswered ==
  ASSUME ServiceInv, Respond, NEW i, StandsAt(i, 0)
  PROVE  Answered(i)'
<1>1. PICK u \in DOMAIN queue : Holds(i, u)
  BY DEF StandsAt
<1>2. replies' = RepliesTo(DOMAIN queue)
  BY EverybodyIsAnswered DEF ServiceInv
<1>3. i \in Ids /\ i \in connections /\ con[i].activated /\ con[i].username = u
  BY <1>1 DEF Holds, ServiceInv, OwnInv, Inv, TypeOK, NetworkTypeOK, Ids
<1>4. Named(u) = {i}
  BY <1>3 DEF Named, ServiceInv, OwnInv, Inv, UniqueUsernames
<1>5. Answers(u, i)
  BY <1>3, <1>4 DEF Answers, IsFirst, Ids
<1>6. ReplyTo(i, con[i].peer, queue[u]) \in replies'
  BY <1>1, <1>2, <1>3, <1>5 DEF RepliesTo
<1>7. ReplyTo(i, con[i].peer, queue[u]).on = i
  BY DEF ReplyTo
<1>8. QED
  BY <1>6, <1>7 DEF Answered

\* The bound MaxWanted leaves room for one request when nobody is queued.
RequestsFit == \A d \in DOMAIN Requests : Len(Requests[d]) <= MaxWanted

\* So the bound holds up no delivery for ever.
LEMMA EmptyQueueAccepts ==
  ASSUME RequestsFit, ServiceInv, DOMAIN queue = {}, NEW i, NEW p \in Nat \ {0},
         StandsAt(i, p)
  PROVE  CanDeliverRequest
<1>1. Running /\ p \in DOMAIN packets["resource"]
  BY DEF StandsAt
<1>2. packets["resource"] \in Seq(PacketEvent) /\ "resource" \in PacketKinds
  BY DEF ServiceInv, OwnInv, Inv, TypeOK, NetworkTypeOK
<1>3. packets["resource"] # <<>>
  BY <1>1
<1>4. Head(packets["resource"]) = packets["resource"][1] /\ 1 \in DOMAIN packets["resource"]
  BY <1>2, <1>3, HeadTailProperties, LenProperties, EmptySeq
<1>5. packets["resource"][1].payload \in DOMAIN Requests
  BY <1>2, <1>4 DEF ServiceInv, OwnInv, PacketsAreOwn
<1>6. PICK d \in DOMAIN Requests : d = Head(packets["resource"]).payload
  BY <1>4, <1>5
<1>7. Requests[d] \in Seq(IconIds)
  BY <1>6
<1>8. Len(Requests[d]) \in Nat /\ Len(Requests[d]) <= MaxWanted
  BY <1>7, LenProperties DEF RequestsFit
<1>9. Queued(Head(packets["resource"]).username) = <<>>
  BY DEF Queued
<1>10. Len(<<>>) + Len(Requests[d]) <= MaxWanted
  BY <1>8
<1>11. QED
  BY <1>1, <1>3, <1>6, <1>9, <1>10 DEF CanDeliverRequest

\* Nobody waits for the responder.
NobodyQueued == DOMAIN queue = {}

\* The p-th request gets to be the q-th.
MovesUp(i, p, q) ==
  ServiceSpec /\ ResponderIsFair => (StandsAt(i, p) ~> StandsAt(i, q) \/ ~Running)

\* The invariant of the attribution by name, as a fact about behaviours.
LEMMA ServiceInvHolds ==
  ASSUME Blockable = {}
  PROVE  ServiceSpec => []ServiceInv
BY ServiceInvInit, ServiceInvNext, PTL DEF ServiceSpec

\* If nobody waits, only a delivery can change that, so it is enabled until it
\* happens; and whoever waits is taken by the responder.
LEMMA RequestsMoveUp ==
  ASSUME Blockable = {}, RequestsFit, NEW i \in Ids, NEW p \in Nat \ {0},
         NEW q \in Nat, p = q + 1
  PROVE  MovesUp(i, p, q)
<1>1. ServiceInv /\ StandsAt(i, p) /\ [ServiceNext]_serviceVars =>
        StandsAt(i, p)' \/ StandsAt(i, q)' \/ ~Running'
  BY RequestStands, RequestMovesUp
<1>2. ServiceInv /\ StandsAt(i, p) /\ <<ServiceNext /\ DeliverRequest>>_serviceVars =>
        StandsAt(i, q)' \/ ~Running'
  BY RequestMovesUp
<1>3. ServiceInv /\ StandsAt(i, p) /\ NobodyQueued /\ [ServiceNext]_serviceVars =>
        (StandsAt(i, p)' /\ NobodyQueued') \/ StandsAt(i, q)' \/ ~Running'
  <2> SUFFICES ASSUME ServiceInv, StandsAt(i, p), NobodyQueued,
                      [ServiceNext]_serviceVars, Running', ~StandsAt(i, q)'
               PROVE  StandsAt(i, p)' /\ NobodyQueued'
    OBVIOUS
  <2>1. ~DeliverRequest
    BY RequestMovesUp
  <2>2. StandsAt(i, p)'
    BY <2>1, RequestStands
  <2>3. DOMAIN queue' = {}
    <3>1. CASE Respond
      BY <3>1 DEF Respond, QueueTaken, NoQueue
    <3>2. CASE ~Respond
      BY <2>1, <3>2, QueueOnlyGrows DEF NobodyQueued
    <3>3. QED
      BY <3>1, <3>2
  <2>4. QED
    BY <2>2, <2>3 DEF NobodyQueued
<1>4. ServiceInv /\ StandsAt(i, p) /\ NobodyQueued => CanDeliverRequest
  BY EmptyQueueAccepts DEF NobodyQueued
<1>5. StandsAt(i, p) /\ ~NobodyQueued => CanRespond
  BY DEF StandsAt, CanRespond, NobodyQueued
<1>6. ServiceInv /\ StandsAt(i, p) /\ <<ServiceNext /\ Respond>>_serviceVars => NobodyQueued'
  BY DEF Respond, QueueTaken, NoQueue, NobodyQueued
<1>7. QED
  BY <1>1, <1>2, <1>3, <1>4, <1>5, <1>6, ServiceInvHolds, PTL
     DEF MovesUp, ServiceSpec, ResponderIsFair

\* What has been delivered to the responder is answered, on the connection it
\* came from, by its next call, however the queues are filled meanwhile.
THEOREM QueuedRequestIsAnswered ==
  ASSUME Blockable = {}, NEW i \in Ids
  PROVE  ServiceSpec /\ ResponderIsFair => (StandsAt(i, 0) ~> Answered(i))
<1>1. ServiceInv /\ StandsAt(i, 0) /\ [ServiceNext]_serviceVars =>
        StandsAt(i, 0)' \/ Answered(i)'
  BY QueuedStands, QueuedIsAnswered DEF Answered
<1>2. ServiceInv /\ StandsAt(i, 0) /\ <<ServiceNext /\ Respond>>_serviceVars => Answered(i)'
  BY QueuedIsAnswered
<1>3. StandsAt(i, 0) => CanRespond
  BY DEF StandsAt, CanRespond
<1>4. QED
  BY <1>1, <1>2, <1>3, ServiceInvHolds, PTL DEF ServiceSpec, ResponderIsFair

\* The bound on the queue of ResourceRequests.
RequestsAreFew == Len(packets["resource"]) <= MaxEvents

\* It is respected.
LEMMA RequestsStayFew ==
  ASSUME Inv, RequestsAreFew, [ServiceNext]_serviceVars
  PROVE  RequestsAreFew'
<1>1. /\ packets \in [PacketKinds -> Seq(PacketEvent)]
      /\ "resource" \in PacketKinds /\ packets["resource"] \in Seq(PacketEvent)
  BY DEF Inv, TypeOK, NetworkTypeOK
<1>2. ASSUME NEW kind \in PacketKinds, TakePacket(kind)
      PROVE  RequestsAreFew'
  <2>1. packets' = [packets EXCEPT ![kind] = Tail(packets[kind])] /\ packets[kind] # <<>>
    BY <1>1, <1>2 DEF TakePacket
  <2>2. CASE kind = "resource"
    <3>1. packets'["resource"] = Tail(packets["resource"])
      BY <1>1, <2>1, <2>2
    <3>2. Len(Tail(packets["resource"])) = Len(packets["resource"]) - 1
      BY <1>1, <2>1, <2>2, HeadTailProperties
    <3>3. QED
      BY <1>1, <3>1, <3>2, LenProperties DEF RequestsAreFew
  <2>3. CASE kind # "resource"
    BY <1>1, <2>1, <2>3 DEF RequestsAreFew
  <2>4. QED
    BY <2>2, <2>3
<1>3. ASSUME NEW e \in Endpoints, NEW k \in PacketKinds, NEW d \in Bodies[k],
             HandlePacket(e, k, d)
      PROVE  RequestsAreFew'
  <2>1. PICK i \in Ids :
          /\ IsFirst(i, At(e)) /\ Len(packets[k]) < MaxEvents
          /\ packets' = [packets EXCEPT ![k] =
               Append(@, [username |-> con[i].username, payload |-> d, from |-> i])]
    BY <1>3 DEF HandlePacket
  <2> DEFINE event == [username |-> con[i].username, payload |-> d, from |-> i]
  <2>2. i \in connections
    BY <2>1 DEF IsFirst, At
  <2>3. con[i].username \in Usernames /\ d \in Payloads
    BY <1>3, <2>2, ListedIsConnection DEF Inv, TypeOK, NetworkTypeOK, Connection
  <2>4. event \in PacketEvent
    BY <2>3 DEF PacketEvent
  <2>5. packets' = [packets EXCEPT ![k] = Append(packets[k], event)]
    BY <1>1, <2>1
  <2> HIDE DEF event
  <2>6. CASE k = "resource"
    <3>1. packets'["resource"] = Append(packets["resource"], event)
      BY <1>1, <2>5, <2>6
    <3>2. Len(Append(packets["resource"], event)) = Len(packets["resource"]) + 1
      BY <1>1, <2>4, AppendProperties
    <3>3. Len(packets["resource"]) \in Nat /\ Len(packets["resource"]) < MaxEvents
      BY <1>1, <2>1, <2>6, LenProperties
    <3>4. QED
      BY <3>1, <3>2, <3>3 DEF RequestsAreFew
  <2>7. CASE k # "resource"
    BY <1>1, <1>3, <2>5, <2>7 DEF RequestsAreFew
  <2>8. QED
    BY <2>6, <2>7
<1>4. CASE UNCHANGED packets
  BY <1>4 DEF RequestsAreFew
<1>5. \/ UNCHANGED packets
      \/ \E kind \in PacketKinds : TakePacket(kind)
      \/ \E e \in Endpoints, k \in PacketKinds : \E d \in Bodies[k] : HandlePacket(e, k, d)
  BY PacketsOfStep
<1>6. QED
  BY <1>2, <1>3, <1>4, <1>5

\* A request of connection i waits for delivery.
HasRequest(i) == \E p \in DOMAIN packets["resource"] : packets["resource"][p].from = i

\* RequestsAreAnswered for one connection.
IsAnswered(i) == ServiceSpec /\ ResponderIsFair => (HasRequest(i) ~> Answered(i))

\* At most eight deliveries and one answer.
LEMMA EveryRequestIsAnswered ==
  ASSUME Blockable = {}, RequestsFit, MaxEvents <= 8, NEW i \in Ids
  PROVE  IsAnswered(i)
<1>1. ServiceInit => RequestsAreFew
  BY DEF ServiceInit, Init, NetworkInit, RequestsAreFew
<1>2. ServiceInv /\ RequestsAreFew /\ HasRequest(i) =>
        \/ StandsAt(i, 1) \/ StandsAt(i, 2) \/ StandsAt(i, 3) \/ StandsAt(i, 4)
        \/ StandsAt(i, 5) \/ StandsAt(i, 6) \/ StandsAt(i, 7) \/ StandsAt(i, 8)
        \/ ~Running
  <2> SUFFICES ASSUME ServiceInv, RequestsAreFew, HasRequest(i), Running
               PROVE  \E p \in 1 .. 8 : StandsAt(i, p)
    OBVIOUS
  <2>1. PICK s \in Seq(PacketEvent) : s = packets["resource"]
    BY DEF ServiceInv, OwnInv, Inv, TypeOK, NetworkTypeOK
  <2>2. PICK p \in DOMAIN packets["resource"] : packets["resource"][p].from = i
    BY DEF HasRequest
  <2>3. Len(s) \in Nat /\ Len(s) <= 8 /\ p \in 1 .. Len(s)
    BY <2>1, <2>2, LenProperties DEF RequestsAreFew
  <2>4. p \in 1 .. 8
    BY <2>3
  <2>5. QED
    BY <2>2, <2>4 DEF StandsAt
<1>3. /\ MovesUp(i, 1, 0) /\ MovesUp(i, 2, 1) /\ MovesUp(i, 3, 2) /\ MovesUp(i, 4, 3)
      /\ MovesUp(i, 5, 4) /\ MovesUp(i, 6, 5) /\ MovesUp(i, 7, 6) /\ MovesUp(i, 8, 7)
  BY RequestsMoveUp
<1>4. ~Running => Answered(i)
  BY DEF Answered
<1>5. ServiceInv /\ RequestsAreFew /\ [ServiceNext]_serviceVars => RequestsAreFew'
  BY RequestsStayFew DEF ServiceInv, OwnInv
<1>6. QED
  BY <1>1, <1>2, <1>3, <1>4, <1>5, ServiceInvHolds, QueuedRequestIsAnswered, PTL
     DEF IsAnswered, MovesUp, ServiceSpec

\* Without blocked clients, every ResourceRequest is answered on the connection
\* it was received from, unless the process stops, if the dispatcher and the
\* timer are fair: for queues of up to eight requests.
THEOREM RequestsAreAlwaysAnswered ==
  ASSUME Blockable = {}, RequestsFit, MaxEvents <= 8
  PROVE  ServiceSpec /\ ResponderIsFair => RequestsAreAnswered
<1>1. \A i \in Ids : IsAnswered(i)
  BY EveryRequestIsAnswered
<1>2. QED
  BY <1>1 DEF IsAnswered, RequestsAreAnswered, HasRequest, Answered
=============================================================================
