------------------------------- MODULE Layout -------------------------------
(***************************************************************************)
(* The picture SimpleGame::sendFrame composes (game/game.cpp): one vertex  *)
(* for each of the width * height tiles of the field, and one for the      *)
(* player.  sendFrame is part of one handler, so nothing interleaves with  *)
(* it; its loop nest is taken step by step here, for the properties of the *)
(* picture it leaves behind.                                               *)
(*                                                                         *)
(* The source computes in float: scaleX is windowWidth / (width * 64).  The*)
(* window sizes are 16-bit, and for each of them the products truncated to *)
(* unsigned below are exactly the quotients of the integers.               *)
(***************************************************************************)
EXTENDS Naturals, Sequences

CONSTANT Sizes    \* the window widths and heights a client may announce

\* uint16_t
ASSUME LayoutAssumption == \A size \in Sizes : size \in Nat /\ size < 65536

VARIABLES
  w, h,           \* client->windowWidth and windowHeight
  x, y,           \* the loops' counters
  vertices        \* vg.vertices

layoutVars == <<w, h, x, y, vertices>>

width == 30
height == 16

\* A tile's icon is 64 pixels wide and high.
IconSide == 64
-----------------------------------------------------------------------------
\* Mutation: rounded up.
CellRoundedUp(size, count) == (size + count - 1) \div count

\* dx = static_cast<unsigned>(64 * scaleX), and dy
Cell(size, count) == size \div count

\* Mutation: rounded up.
ScaleRoundedUp(size, count) ==
  (size + count * IconSide - 1) \div (count * IconSide)

\* static_cast<unsigned>(scaleX), and scaleY: the factor of the Scale filter
Scale(size, count) == size \div (count * IconSide)

\* cropX = w - 64 * scaleX * width, and cropY: the floats make no remainder.
Crop == 0

\* Where a tile's vertex is put along one axis.
Along(size, count, k) ==
  Crop \div 2 + k * Cell(size, count) + Cell(size, count) \div 2

\* How far a tile drawn at its scale reaches from the middle.
Reach(size, count) == (IconSide \div 2) * Scale(size, count)

Vertex(i, j) == [x |-> Along(w, width, i), y |-> Along(h, height, j)]
-----------------------------------------------------------------------------
LayoutInit ==
  /\ w \in Sizes /\ h \in Sizes
  /\ x = 0 /\ y = 0
  /\ vertices = <<>>

\* Mutation: the counters are swapped.
PlaceTileSwapped ==
  /\ x < width /\ y < height
  /\ vertices' = Append(vertices, Vertex(y, x))
  /\ y' = y + 1
  /\ UNCHANGED <<w, h, x>>

\* The body of the inner loop.
PlaceTile ==
  /\ x < width /\ y < height
  /\ vertices' = Append(vertices, Vertex(x, y))
  /\ y' = y + 1
  /\ UNCHANGED <<w, h, x>>

\* The inner loop ends and the outer one goes on.
NextColumn ==
  /\ x < width /\ y = height
  /\ x' = x + 1 /\ y' = 0
  /\ UNCHANGED <<w, h, vertices>>

LayoutNext == PlaceTile \/ NextColumn

LayoutSpec == LayoutInit /\ [][LayoutNext]_layoutVars
-----------------------------------------------------------------------------
LayoutTypeOK ==
  /\ w \in Sizes /\ h \in Sizes
  /\ x \in 0 .. width /\ y \in 0 .. height
  /\ vertices \in Seq([x: Nat, y: Nat])

\* However small the window and whatever remains of its size, every tile, drawn
\* at the scale of the frame around its vertex, lies inside the window.
TilesInsideWindow ==
  \A p \in DOMAIN vertices :
    LET v == vertices[p] IN
    /\ Reach(w, width) <= v.x /\ v.x + Reach(w, width) <= w
    /\ Reach(h, height) <= v.y /\ v.y + Reach(h, height) <= h

\* The vertices are those of different tiles of the field, in column order, so
\* the frame has width * height of them when the loops are done, whatever the
\* window: its size does not grow with what the client announced.
EveryTileIsPlacedOnce ==
  /\ Len(vertices) = x * height + y
  /\ \A p \in DOMAIN vertices :
       vertices[p] = Vertex((p - 1) \div height, (p - 1) % height)

Apart(a, b, reach) == a + 2 * reach <= b \/ b + 2 * reach <= a

\* Tiles drawn at the scale of the frame do not cover each other.  The last
\* vertex is compared with all before it.
TilesDoNotOverlap ==
  \A p \in 1 .. Len(vertices) - 1 :
    LET v == vertices[p]
        l == vertices[Len(vertices)] IN
    Apart(v.x, l.x, Reach(w, width)) \/ Apart(v.y, l.y, Reach(h, height))
=============================================================================
