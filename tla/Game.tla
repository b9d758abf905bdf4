-------------------------------- MODULE Game --------------------------------
(***************************************************************************)
(* SimpleGame (game/game.h, game/game.cpp) after its creation: the input   *)
(* that moves the player, and the frame sent after each move.  Layout has  *)
(* the picture that is in a frame.                                         *)
(*                                                                         *)
(* A client's SimpleGame has the number of the client.                     *)
(***************************************************************************)
EXTENDS Sessions, Icons

CONSTANTS
  Keys,          \* the bodies of Input packets: lists of key codes
  PlayerIcon,    \* "1.png"_hs
  TileIcon,      \* "tiles/tile.png"_hs
  MaxInputs      \* bound: how many inputs move a player

ASSUME GameAssumption ==
  /\ DOMAIN Keys \subseteq Payloads
  /\ \A d \in DOMAIN Keys : Keys[d] \in Seq({"W", "A", "S", "D", "other"})
  /\ PlayerIcon \in IconIds /\ TileIcon \in IconIds
  /\ MaxInputs \in Nat

VARIABLES
  position,      \* SimpleGame::x and y
  inputs,        \* how many inputs have moved a player
  shown,         \* history: the clients a frame has been sent to
  frames         \* the frames the last handler sent

gameVars == <<position, inputs, shown>>

\* uint16_t
Word == 65536

Positions == [x: 0 .. Word - 1, y: 0 .. Word - 1]

Frames == [to: Endpoints, window: Payloads \cup {NoWindow}, player: Positions]

GameTypeOK ==
  /\ position \in [Ids -> Positions]
  /\ inputs \in 0 .. MaxInputs
  /\ shown \subseteq Ids
  /\ frames \subseteq Frames

GameInit ==
  /\ position = [i \in Ids |-> [x |-> 0, y |-> 0]]
  /\ inputs = 0
  /\ shown = {}
  /\ frames = {}
-----------------------------------------------------------------------------
(* onInput *)

\* Mutation: x and y are int.
PressedWide(p, key) ==
  CASE key = "W" -> [p EXCEPT !.y = @ - 32]
    [] key = "S" -> [p EXCEPT !.y = @ + 32]
    [] key = "A" -> [p EXCEPT !.x = @ - 32]
    [] key = "D" -> [p EXCEPT !.x = @ + 32]
    [] OTHER -> p

\* One pass of the loop over the keys: 16-bit arithmetic, which wraps.
Pressed(p, key) ==
  CASE key = "W" -> [p EXCEPT !.y = (@ + Word - 32) % Word]
    [] key = "S" -> [p EXCEPT !.y = (@ + 32) % Word]
    [] key = "A" -> [p EXCEPT !.x = (@ + Word - 32) % Word]
    [] key = "D" -> [p EXCEPT !.x = (@ + 32) % Word]
    [] OTHER -> p

Moved(p, keys) ==
  LET after[n \in 0 .. Len(keys)] ==
        IF n = 0 THEN p ELSE Pressed(after[n - 1], keys[n])
  IN after[Len(keys)]

\* isUpdated
Updates(keys) == \E p \in DOMAIN keys : keys[p] # "other"

\* Mutation: every player moves.
AnyPlayers(u) == {g \in Ids : games[g] > 0}

\* The games whose client has that name; the others return at once, but only
\* after asking their client for it.
Players(u) == {g \in Ids : games[g] > 0 /\ copy[g].username = u}

\* The games whose client has been destroyed.
Strays == {g \in Ids : games[g] > 0} \ clients

\* Mutation: the tile is loaded when somebody asks for it.
PlayerIconOnly == <<PlayerIcon>>

\* The icons sendFrame loads, in its order.
FrameIcons == <<PlayerIcon, TileIcon>>

\* The packet sendFrame makes; Layout has the tiles in it.
Frame(g, p) == [to |-> copy[g].endpoint, window |-> window[g], player |-> p]

\* The loop over the keys and the frame after it.
Play(G, keys) ==
  /\ inputs < MaxInputs
  /\ inputs' = inputs + 1
  /\ position' = [g \in Ids |->
                    IF g \in G THEN Moved(position[g], keys) ELSE position[g]]
  /\ \/ /\ LoadAll(FrameIcons)
        /\ frames' = {Frame(g, position'[g]) : g \in G}
        /\ shown' = shown \cup G
        /\ UNCHANGED fault
     \/ /\ LoadFails(FrameIcons)
        /\ fault' = "icon"
        /\ frames' = {}
        /\ UNCHANGED shown

OnInput(u, keys) ==
  \/ /\ Strays = {} /\ Players(u) # {} /\ Updates(keys)
     /\ Play(Players(u), keys)
  \/ /\ Strays = {} /\ (Players(u) = {} \/ ~Updates(keys))
     /\ frames' = {}
     /\ UNCHANGED <<gameVars, cached, fault>>
  \/ /\ Strays # {}
     /\ fault' = "wrapper"
     /\ frames' = {}
     /\ UNCHANGED <<gameVars, cached>>
=============================================================================
