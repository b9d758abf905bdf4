--------------------------- MODULE DrawingProofs ---------------------------
(***************************************************************************)
(* Proofs about Drawing: the loops of Layout, for every window a client    *)
(* may announce (Sizes), and the calls of SDL_image that load the icons    *)
(* before, for every Code a library could be made of and any number of     *)
(* icons.                                                                  *)
(*                                                                         *)
(* A tile at its scale is at most as large as its cell, and the cells      *)
(* follow one another inside the window: so much is arithmetic.  That the  *)
(* vertices are those of the different tiles is an invariant of the loops  *)
(* (LayoutInv).                                                            *)
(*                                                                         *)
(* Of a call of the library one has to know that all functions but the     *)
(* last are at a call (IsStack): that is what a function that returns      *)
(* finds, whatever was called in between.                                  *)
(***************************************************************************)
EXTENDS Drawing, SequenceTheorems, TLAPS
-----------------------------------------------------------------------------
(* The loops over the tiles *)

LEMMA SizesAreNat == Sizes \subseteq Nat
BY LayoutAssumption DEF LayoutAssumption

LEMMA Halves ==
  ASSUME NEW c \in Nat
  PROVE  c \div 2 \in Nat /\ 2 * (c \div 2) <= c /\ c < 2 * (c \div 2) + 2
OBVIOUS

\* Multiples of a cell that end before the last one stay below it.
LEMMA Multiples ==
  ASSUME NEW c \in Nat, NEW n \in Nat, NEW k \in 0 .. n - 1
  PROVE  k * c \in Nat /\ n * c \in Nat /\ k * c + c <= n * c
<1>1. PICK d \in Nat : n = k + 1 + d
  <2>1. n - k - 1 \in Nat /\ n = k + 1 + (n - k - 1)
    OBVIOUS
  <2>2. QED
    BY <2>1
<1>2. k \in Nat
  OBVIOUS
<1>3. k * c \in Nat /\ d * c \in Nat
  BY <1>2
<1>4. (k + 1 + d) * c = k * c + c + d * c
  BY <1>2
<1>5. n * c = k * c + c + d * c
  BY <1>1, <1>4
<1>6. PICK a \in Nat, b \in Nat : a = k * c /\ b = d * c
  BY <1>3
<1>7. QED
  BY <1>5, <1>6

\* A tile at its scale is not larger than its cell, and the cells fit into the
\* window.
LEMMA TileFitsAcross ==
  ASSUME NEW size \in Nat
  PROVE  /\ Cell(size, width) \in Nat /\ Scale(size, width) \in Nat
         /\ 64 * Scale(size, width) <= Cell(size, width)
         /\ width * Cell(size, width) <= size
<1>1. /\ size \div 30 \in Nat /\ 30 * (size \div 30) <= size
      /\ size < 30 * (size \div 30) + 30
  OBVIOUS
<1>2. size \div 1920 \in Nat /\ 1920 * (size \div 1920) <= size
  OBVIOUS
<1>3. Cell(size, width) = size \div 30 /\ Scale(size, width) = size \div 1920
  BY DEF Cell, Scale, width, IconSide
<1>4. width = 30
  BY DEF width
<1>5. QED
  BY <1>1, <1>2, <1>3, <1>4

LEMMA TileFitsDown ==
  ASSUME NEW size \in Nat
  PROVE  /\ Cell(size, height) \in Nat /\ Scale(size, height) \in Nat
         /\ 64 * Scale(size, height) <= Cell(size, height)
         /\ height * Cell(size, height) <= size
<1>1. /\ size \div 16 \in Nat /\ 16 * (size \div 16) <= size
      /\ size < 16 * (size \div 16) + 16
  OBVIOUS
<1>2. size \div 1024 \in Nat /\ 1024 * (size \div 1024) <= size
  OBVIOUS
<1>3. Cell(size, height) = size \div 16 /\ Scale(size, height) = size \div 1024
  BY DEF Cell, Scale, height, IconSide
<1>4. height = 16
  BY DEF height
<1>5. QED
  BY <1>1, <1>2, <1>3, <1>4

LEMMA InsideAlong ==
  ASSUME NEW size \in Nat, NEW count \in Nat, NEW k \in 0 .. count - 1,
         Cell(size, count) \in Nat, Scale(size, count) \in Nat,
         64 * Scale(size, count) <= Cell(size, count),
         count * Cell(size, count) <= size
  PROVE  /\ Along(size, count, k) \in Nat
         /\ Reach(size, count) <= Along(size, count, k)
         /\ Along(size, count, k) + Reach(size, count) <= size
<1>1. PICK c \in Nat, s \in Nat : c = Cell(size, count) /\ s = Scale(size, count)
  OBVIOUS
<1>2. PICK m \in Nat, t \in Nat : m = k * c /\ t = count * c /\ m + c <= t
  BY Multiples
<1>3. PICK a \in Nat : a = c \div 2 /\ 2 * a <= c /\ c < 2 * a + 2
  BY Halves
<1>4. Along(size, count, k) = m + a
  <2>1. Crop \div 2 = 0 /\ 0 + m + a = m + a
    BY DEF Crop
  <2>2. QED
    BY <1>1, <1>2, <1>3, <2>1, Zenon DEF Along
<1>5. Reach(size, count) = 32 * s
  <2>1. IconSide \div 2 = 32
    BY DEF IconSide
  <2>2. QED
    BY <1>1, <2>1, Zenon DEF Reach
<1>6. 64 * s <= c /\ t <= size
  BY <1>1, <1>2
<1>7. QED
  <2>1. m + a \in Nat /\ 32 * s <= m + a /\ m + a + 32 * s <= size
    BY <1>2, <1>3, <1>6
  <2>2. QED
    BY <1>4, <1>5, <2>1

\* Of two tiles in a row or a column, the earlier ends before the later begins.
LEMMA ApartAlong ==
  ASSUME NEW size \in Nat, NEW count \in Nat, NEW l \in Nat, NEW k \in 0 .. l - 1,
         Cell(size, count) \in Nat, Scale(size, count) \in Nat,
         64 * Scale(size, count) <= Cell(size, count)
  PROVE  Apart(Along(size, count, k), Along(size, count, l), Reach(size, count))
<1>1. PICK c \in Nat, s \in Nat : c = Cell(size, count) /\ s = Scale(size, count)
  OBVIOUS
<1>2. PICK m \in Nat, t \in Nat : m = k * c /\ t = l * c /\ m + c <= t
  BY Multiples
<1>3. PICK a \in Nat : a = c \div 2
  BY Halves
<1>4. Along(size, count, k) = m + a /\ Along(size, count, l) = t + a
  <2>1. Crop \div 2 = 0 /\ 0 + m + a = m + a /\ 0 + t + a = t + a
    BY DEF Crop
  <2>2. QED
    BY <1>1, <1>2, <1>3, <2>1, Zenon DEF Along
<1>5. Reach(size, count) = 32 * s
  <2>1. IconSide \div 2 = 32
    BY DEF IconSide
  <2>2. QED
    BY <1>1, <2>1, Zenon DEF Reach
<1>6. 64 * s <= c
  BY <1>1
<1>7. m + a + 2 * (32 * s) <= t + a
  BY <1>2, <1>6
<1>8. QED
  BY <1>4, <1>5, <1>7 DEF Apart
-----------------------------------------------------------------------------
\* The column and the row of the p-th tile.
Column(p) == (p - 1) \div height
Row(p) == (p - 1) % height

LEMMA Positions ==
  ASSUME NEW p \in Nat \ {0}
  PROVE  /\ Column(p) \in Nat /\ Row(p) \in 0 .. height - 1
         /\ p = height * Column(p) + Row(p) + 1
<1>1. PICK n \in Nat : n = p - 1
  OBVIOUS
<1>2. n \div 16 \in Nat /\ n % 16 \in 0 .. 15 /\ n = 16 * (n \div 16) + (n % 16)
  OBVIOUS
<1>3. QED
  BY <1>1, <1>2 DEF Column, Row, height

LEMMA PositionOf ==
  ASSUME NEW i \in Nat, NEW j \in 0 .. height - 1, NEW p \in Nat,
         p = i * height + j + 1
  PROVE  Column(p) = i /\ Row(p) = j
<1>1. j \in 0 .. 15 /\ p - 1 = 16 * i + j
  BY DEF height
<1>2. (16 * i + j) \div 16 = i /\ ((16 * i + j) % 16) = j
  BY <1>1
<1>3. QED
  BY <1>1, <1>2 DEF Column, Row, height

LayoutInv ==
  /\ LayoutTypeOK
  /\ EveryTileIsPlacedOnce
  /\ x = width => y = 0

LEMMA VertexIsPoint ==
  ASSUME LayoutTypeOK, NEW i \in 0 .. width - 1, NEW j \in 0 .. height - 1
  PROVE  /\ Vertex(i, j) \in [x: Nat, y: Nat]
         /\ Vertex(i, j).x = Along(w, width, i) /\ Vertex(i, j).y = Along(h, height, j)
         /\ w \in Nat /\ h \in Nat
<1>1. w \in Nat /\ h \in Nat
  BY SizesAreNat DEF LayoutTypeOK
<1>2. width \in Nat /\ height \in Nat
  BY DEF width, height
<1>3. Along(w, width, i) \in Nat
  BY <1>1, <1>2, TileFitsAcross, InsideAlong
<1>4. Along(h, height, j) \in Nat
  BY <1>1, <1>2, TileFitsDown, InsideAlong
<1>5. QED
  BY <1>1, <1>3, <1>4 DEF Vertex

LEMMA LayoutInvInit == LayoutInit => LayoutInv
BY DEF LayoutInit, LayoutInv, LayoutTypeOK, EveryTileIsPlacedOnce, width, height

LEMMA LayoutInvPlaceTile ==
  ASSUME LayoutInv, PlaceTile
  PROVE  LayoutInv'
<1>1. /\ x \in 0 .. width - 1 /\ y \in 0 .. height - 1
      /\ vertices \in Seq([x: Nat, y: Nat])
      /\ vertices' = Append(vertices, Vertex(x, y))
      /\ y' = y + 1 /\ UNCHANGED <<w, h, x>>
  BY DEF PlaceTile, LayoutInv, LayoutTypeOK, width, height
<1>2. PICK new \in Nat : new = Len(vertices) + 1
  BY <1>1
<1>3. Vertex(x, y) \in [x: Nat, y: Nat]
  BY <1>1, VertexIsPoint DEF LayoutInv
<1>4. PICK e \in [x: Nat, y: Nat] : e = Vertex(x, y)
  BY <1>3
<1>5. /\ vertices' \in Seq([x: Nat, y: Nat]) /\ Len(vertices') = new
      /\ DOMAIN vertices' = DOMAIN vertices \cup {new}
      /\ vertices'[new] = Vertex(x, y)
      /\ \A p \in DOMAIN vertices : vertices'[p] = vertices[p]
  <2>1. vertices' = Append(vertices, e)
    BY <1>1, <1>4
  <2>2. /\ vertices' \in Seq([x: Nat, y: Nat]) /\ Len(vertices') = new
        /\ vertices'[new] = e
        /\ \A p \in 1 .. Len(vertices) : vertices'[p] = vertices[p]
    BY <1>1, <1>2, <2>1, AppendProperties
  <2>3. DOMAIN vertices = 1 .. Len(vertices) /\ DOMAIN vertices' = 1 .. new
    BY <1>1, <2>2, LenProperties
  <2>4. QED
    BY <1>1, <1>2, <1>4, <2>2, <2>3
<1>6. LayoutTypeOK'
  <2>1. x' \in 0 .. width /\ y' \in 0 .. height
    BY <1>1 DEF width, height
  <2>2. w' \in Sizes /\ h' \in Sizes
    BY <1>1 DEF LayoutInv, LayoutTypeOK
  <2>3. QED
    BY <1>5, <2>1, <2>2 DEF LayoutTypeOK
<1>7. EveryTileIsPlacedOnce'
  <2>1. Len(vertices) = x * height + y /\ x \in Nat
    BY <1>1 DEF LayoutInv, EveryTileIsPlacedOnce, width
  <2>2. new = x * height + y + 1
    BY <1>2, <2>1
  <2>3. Column(new) = x /\ Row(new) = y
    BY <1>1, <2>1, <2>2, PositionOf
  <2>4. \A i, j : Vertex(i, j)' = Vertex(i, j)
    BY <1>1 DEF Vertex
  <2>5. \A p \in DOMAIN vertices' : vertices'[p] = Vertex(Column(p), Row(p))
    BY <1>5, <2>3 DEF LayoutInv, EveryTileIsPlacedOnce, Column, Row
  <2>6. Len(vertices') = x' * height + y'
    <3>1. x * height + y + 1 = x * height + (y + 1)
      BY <1>1 DEF width, height
    <3>2. QED
      BY <1>1, <1>5, <2>2, <3>1
  <2>7. QED
    BY <2>4, <2>5, <2>6 DEF EveryTileIsPlacedOnce, Column, Row
<1>8. x' # width
  BY <1>1 DEF width
<1>9. QED
  BY <1>6, <1>7, <1>8 DEF LayoutInv

LEMMA LayoutInvNextColumn ==
  ASSUME LayoutInv, NextColumn
  PROVE  LayoutInv'
<1>1. /\ x \in 0 .. width - 1 /\ y = height
      /\ x' = x + 1 /\ y' = 0 /\ UNCHANGED <<w, h, vertices>>
  BY DEF NextColumn, LayoutInv, LayoutTypeOK, width, height
<1>2. LayoutTypeOK'
  BY <1>1 DEF LayoutInv, LayoutTypeOK, width, height
<1>3. EveryTileIsPlacedOnce'
  <2>1. x * height + height = (x + 1) * height + 0
    BY <1>1 DEF width, height
  <2>2. \A i, j : Vertex(i, j)' = Vertex(i, j)
    BY <1>1 DEF Vertex
  <2>3. Len(vertices') = x' * height + y'
    BY <1>1, <2>1 DEF LayoutInv, EveryTileIsPlacedOnce
  <2>4. QED
    BY <1>1, <2>2, <2>3 DEF LayoutInv, EveryTileIsPlacedOnce
<1>4. QED
  BY <1>1, <1>2, <1>3 DEF LayoutInv

LEMMA LayoutInvNext == LayoutInv /\ [LayoutNext]_layoutVars => LayoutInv'
<1> SUFFICES ASSUME LayoutInv, [LayoutNext]_layoutVars PROVE LayoutInv'
  OBVIOUS
<1>1. CASE UNCHANGED layoutVars
  BY <1>1 DEF layoutVars, LayoutInv, LayoutTypeOK, EveryTileIsPlacedOnce, Vertex
<1>2. QED
  BY <1>1, LayoutInvPlaceTile, LayoutInvNextColumn DEF LayoutNext

LEMMA LayoutInvariant == LayoutSpec => []LayoutInv
BY LayoutInvInit, LayoutInvNext, PTL DEF LayoutSpec

\* Where the vertices are.
LEMMA VerticesOfTiles ==
  ASSUME LayoutInv, NEW p \in DOMAIN vertices
  PROVE  /\ Column(p) \in 0 .. width - 1 /\ Row(p) \in 0 .. height - 1
         /\ vertices[p] = Vertex(Column(p), Row(p))
<1>1. /\ vertices \in Seq([x: Nat, y: Nat])
      /\ x \in 0 .. 30 /\ y \in 0 .. 16 /\ (x = 30 => y = 0)
  BY DEF LayoutInv, LayoutTypeOK, width, height
<1>2. p \in Nat \ {0} /\ p <= Len(vertices) /\ Len(vertices) = x * 16 + y
  BY <1>1, LenProperties DEF LayoutInv, EveryTileIsPlacedOnce, height
<1>3. PICK c \in Nat, r \in 0 .. 15 :
        c = Column(p) /\ r = Row(p) /\ p = 16 * c + r + 1
  <2>1. /\ Column(p) \in Nat /\ Row(p) \in 0 .. height - 1
        /\ p = height * Column(p) + Row(p) + 1
    BY <1>2, Positions
  <2>2. height = 16
    BY DEF height
  <2>3. Row(p) \in 0 .. 15 /\ p = 16 * Column(p) + Row(p) + 1
    BY <2>1, <2>2
  <2>4. QED
    BY <2>1, <2>3
<1>4. c \in 0 .. 29
  <2>1. 16 * c + r + 1 <= x * 16 + y
    BY <1>2, <1>3
  <2>2. r \in Nat /\ c \in Nat
    OBVIOUS
  <2>3. x \in Nat /\ y \in Nat /\ y <= 16 /\ x <= 30 /\ (x = 30 => y = 0)
    BY <1>1
  <2>4. QED
    BY <2>1, <2>2, <2>3
<1>5. vertices[p] = Vertex(Column(p), Row(p))
  BY DEF LayoutInv, EveryTileIsPlacedOnce, Column, Row
<1>6. QED
  BY <1>3, <1>4, <1>5 DEF width, height
-----------------------------------------------------------------------------
\* The counters, the vertices and their coordinates stay in their types.
THEOREM LayoutTypes == LayoutSpec => []LayoutTypeOK
<1>1. LayoutInv => LayoutTypeOK
  BY DEF LayoutInv
<1>2. QED
  BY <1>1, LayoutInvariant, PTL

\* sendFrame puts every tile of the field into the frame once, in column order.
THEOREM TilesArePlaced == LayoutSpec => []EveryTileIsPlacedOnce
<1>1. LayoutInv => EveryTileIsPlacedOnce
  BY DEF LayoutInv
<1>2. QED
  BY <1>1, LayoutInvariant, PTL

\* Whatever window a client announces, no tile sticks out of it.
THEOREM TilesStayInside == LayoutSpec => []TilesInsideWindow
<1>1. ASSUME LayoutInv, NEW p \in DOMAIN vertices
      PROVE  /\ Reach(w, width) <= vertices[p].x
             /\ vertices[p].x + Reach(w, width) <= w
             /\ Reach(h, height) <= vertices[p].y
             /\ vertices[p].y + Reach(h, height) <= h
  <2>1. PICK i \in 0 .. width - 1, j \in 0 .. height - 1 : vertices[p] = Vertex(i, j)
    BY <1>1, VerticesOfTiles
  <2>2. /\ vertices[p].x = Along(w, width, i) /\ vertices[p].y = Along(h, height, j)
        /\ w \in Nat /\ h \in Nat
    BY <1>1, <2>1, VertexIsPoint DEF LayoutInv
  <2>3. width \in Nat /\ height \in Nat
    BY DEF width, height
  <2>4. Reach(w, width) <= Along(w, width, i) /\ Along(w, width, i) + Reach(w, width) <= w
    BY <2>2, <2>3, TileFitsAcross, InsideAlong
  <2>5. Reach(h, height) <= Along(h, height, j) /\ Along(h, height, j) + Reach(h, height) <= h
    BY <2>2, <2>3, TileFitsDown, InsideAlong
  <2>6. QED
    BY <2>2, <2>4, <2>5
<1>2. LayoutInv => TilesInsideWindow
  BY <1>1 DEF TilesInsideWindow
<1>3. QED
  BY <1>2, LayoutInvariant, PTL

\* Whatever window a client announces, no two tiles cover each other.
THEOREM TilesStayApart == LayoutSpec => []TilesDoNotOverlap
<1>1. ASSUME LayoutInv, NEW p \in 1 .. Len(vertices) - 1
      PROVE  \/ Apart(vertices[p].x, vertices[Len(vertices)].x, Reach(w, width))
             \/ Apart(vertices[p].y, vertices[Len(vertices)].y, Reach(h, height))
  <2>1. PICK l \in Nat : l = Len(vertices)
    BY <1>1 DEF LayoutInv, LayoutTypeOK
  <2>2. p \in DOMAIN vertices /\ l \in DOMAIN vertices /\ p # l /\ p \in Nat \ {0}
        /\ l \in Nat \ {0} /\ vertices[Len(vertices)] = vertices[l]
    BY <1>1, <2>1 DEF LayoutInv, LayoutTypeOK
  <2>3. PICK i \in 0 .. width - 1, j \in 0 .. height - 1 :
          i = Column(p) /\ j = Row(p) /\ vertices[p] = Vertex(i, j)
    BY <1>1, <2>2, VerticesOfTiles
  <2>4. PICK k \in 0 .. width - 1, m \in 0 .. height - 1 :
          k = Column(l) /\ m = Row(l) /\ vertices[l] = Vertex(k, m)
    BY <1>1, <2>2, VerticesOfTiles
  <2>5. /\ vertices[p].x = Along(w, width, i) /\ vertices[p].y = Along(h, height, j)
        /\ vertices[l].x = Along(w, width, k) /\ vertices[l].y = Along(h, height, m)
        /\ w \in Nat /\ h \in Nat
    BY <1>1, <2>3, <2>4, VertexIsPoint DEF LayoutInv
  <2>6. i # k \/ j # m
    BY <2>2, <2>3, <2>4, Positions
  <2>7. width = 30 /\ height = 16
    BY DEF width, height
  <2>8. CASE i # k
    <3>1. i \in 0 .. k - 1 \/ k \in 0 .. i - 1
      BY <2>7, <2>8
    <3>2. \/ Apart(Along(w, width, i), Along(w, width, k), Reach(w, width))
          \/ Apart(Along(w, width, k), Along(w, width, i), Reach(w, width))
      <4>1. i \in Nat /\ k \in Nat /\ width \in Nat
        BY <2>7
      <4>2. QED
        BY <2>5, <3>1, <4>1, TileFitsAcross, ApartAlong
    <3>3. QED
      BY <2>2, <2>5, <3>2 DEF Apart
  <2>9. CASE j # m
    <3>1. j \in 0 .. m - 1 \/ m \in 0 .. j - 1
      BY <2>7, <2>9
    <3>2. \/ Apart(Along(h, height, j), Along(h, height, m), Reach(h, height))
          \/ Apart(Along(h, height, m), Along(h, height, j), Reach(h, height))
      <4>1. j \in Nat /\ m \in Nat /\ height \in Nat
        BY <2>7
      <4>2. QED
        BY <2>5, <3>1, <4>1, TileFitsDown, ApartAlong
    <3>3. QED
      BY <2>2, <2>5, <3>2 DEF Apart
  <2>10. QED
    BY <2>6, <2>8, <2>9
<1>2. LayoutInv => TilesDoNotOverlap
  BY <1>1 DEF TilesDoNotOverlap
<1>3. QED
  BY <1>2, LayoutInvariant, PTL
-----------------------------------------------------------------------------
(* The stack of calls *)

Point == [at: Labels, k: Nat]

\* Every function is at a step of its block, and all but the last at a call.
IsStack(s) ==
  /\ s \in Seq(Point)
  /\ \A n \in DOMAIN s :
       /\ s[n].k \in DOMAIN Code[s[n].at]
       /\ n < Len(s) => Code[s[n].at][s[n].k].do = "call"

\* The step the last function is at.
LastStep(s) == Code[s[Len(s)].at][s[Len(s)].k]

LEMMA Steps ==
  ASSUME NEW l \in Labels
  PROVE  /\ Code[l] \in Seq(CodeStep) /\ 1 \in DOMAIN Code[l]
         /\ DOMAIN Code[l] = 1 .. Len(Code[l]) /\ Len(Code[l]) \in Nat
         /\ \A k \in DOMAIN Code[l] :
              /\ Code[l][k] \in CodeStep
              /\ Code[l][k].to \subseteq Labels
              /\ Code[l][k].do = "call" => Code[l][k].what \in Labels
              /\ Code[l][k].do \notin Leaves => k + 1 \in DOMAIN Code[l]
<1>1. PICK block : block = Code[l]
  OBVIOUS
<1>2. /\ block \in Seq(CodeStep) /\ block # <<>>
      /\ \A k \in DOMAIN block :
           /\ block[k].do = "call" => block[k].what \in Labels
           /\ (block[k].do \in Leaves) <=> (k = Len(block))
  BY <1>1, CodeAssumption DEF CodeAssumption
<1>3. DOMAIN block = 1 .. Len(block) /\ Len(block) \in Nat \ {0}
  BY <1>2, LenProperties, EmptySeq
<1>4. \A k \in DOMAIN block : block[k] \in CodeStep
  BY <1>2, <1>3
<1>5. \A s \in CodeStep : s.to \subseteq Labels
  BY DEF CodeStep
<1>6. \A k \in DOMAIN block : block[k].do \notin Leaves => k + 1 \in DOMAIN block
  BY <1>2, <1>3
<1>7. QED
  BY <1>1, <1>2, <1>3, <1>4, <1>5, <1>6

LEMMA LastOfStack ==
  ASSUME NEW s, IsStack(s), s # <<>>
  PROVE  /\ DOMAIN s = 1 .. Len(s) /\ Len(s) \in Nat \ {0} /\ Len(s) \in DOMAIN s
         /\ s[Len(s)] \in Point /\ s[Len(s)].at \in Labels
         /\ s[Len(s)].k \in DOMAIN Code[s[Len(s)].at] /\ s[Len(s)].k \in Nat
         /\ LastStep(s) \in CodeStep /\ LastStep(s).to \subseteq Labels
         /\ LastStep(s).do = "call" => LastStep(s).what \in Labels
         /\ LastStep(s).do \notin Leaves =>
              s[Len(s)].k + 1 \in DOMAIN Code[s[Len(s)].at]
<1>1. s \in Seq(Point)
  BY DEF IsStack
<1>2. DOMAIN s = 1 .. Len(s) /\ Len(s) \in Nat \ {0} /\ Len(s) \in DOMAIN s
  BY <1>1, LenProperties, EmptySeq
<1>3. s[Len(s)] \in Point
  BY <1>1, <1>2
<1>4. s[Len(s)].at \in Labels /\ s[Len(s)].k \in Nat
  BY <1>3 DEF Point
<1>5. s[Len(s)].k \in DOMAIN Code[s[Len(s)].at]
  BY <1>2 DEF IsStack
<1>6. QED
  BY <1>2, <1>3, <1>4, <1>5, Steps DEF LastStep

\* The last function of a stack is somewhere else.
LEMMA LastReplaced ==
  ASSUME NEW s, IsStack(s), s # <<>>, NEW e \in Point,
         e.k \in DOMAIN Code[e.at]
  PROVE  IsStack([s EXCEPT ![Len(s)] = e]) /\ [s EXCEPT ![Len(s)] = e] # <<>>
<1>1. s \in Seq(Point)
  BY DEF IsStack
<1>2. DOMAIN s = 1 .. Len(s) /\ Len(s) \in Nat \ {0} /\ Len(s) \in DOMAIN s
  BY LastOfStack
<1>3. PICK t : t = [s EXCEPT ![Len(s)] = e]
  OBVIOUS
<1>4. /\ DOMAIN t = 1 .. Len(s) /\ t[Len(s)] = e
      /\ \A n \in 1 .. Len(s) : n # Len(s) => t[n] = s[n]
  BY <1>2, <1>3
<1>5. t \in Seq(Point) /\ Len(t) = Len(s)
  <2>0. \A n \in 1 .. Len(s) : s[n] \in Point
    BY <1>1
  <2>1. \A n \in 1 .. Len(s) : t[n] \in Point
    <3> TAKE n \in 1 .. Len(s)
    <3>1. CASE n = Len(s)
      BY <1>4, <3>1
    <3>2. CASE n # Len(s)
      BY <1>4, <2>0, <3>2
    <3>3. QED
      BY <3>1, <3>2
  <2>2. t = [n \in 1 .. Len(s) |-> t[n]]
    BY <1>2, <1>3, <1>4
  <2>3. QED
    BY <1>2, <2>1, <2>2
<1>6. \A n \in DOMAIN t :
        /\ t[n].k \in DOMAIN Code[t[n].at]
        /\ n < Len(t) => Code[t[n].at][t[n].k].do = "call"
  <2> TAKE n \in DOMAIN t
  <2>1. n \in DOMAIN s
    BY <1>2, <1>4
  <2>2. CASE n = Len(s)
    <3>0. Len(s) \in Nat /\ Len(t) = Len(s)
      BY <1>2, <1>5
    <3>a. ~ (n < Len(t))
      BY <2>2, <3>0
    <3>b. t[Len(s)] = e
      BY <1>4
    <3>1. t[n] = e /\ ~ (n < Len(t))
      BY <2>2, <3>a, <3>b
    <3>2. e.k \in DOMAIN Code[e.at]
      OBVIOUS
    <3>3. t[n].k \in DOMAIN Code[t[n].at]
      BY <3>1, <3>2, Zenon
    <3>4. QED
      BY <3>1, <3>3
  <2>3. CASE n # Len(s)
    <3>1. t[n] = s[n]
      BY <1>2, <1>4, <2>1, <2>3
    <3>2. QED
      BY <1>5, <2>1, <3>1 DEF IsStack
  <2>4. QED
    BY <2>2, <2>3
<1>7. t # <<>>
  BY <1>2, <1>5
<1>8. QED
  BY <1>3, <1>5, <1>6, <1>7 DEF IsStack

LEMMA StackGoesOn ==
  ASSUME NEW s, IsStack(s), s # <<>>, LastStep(s).do \notin Leaves
  PROVE  IsStack(After(s)) /\ After(s) # <<>>
<1>1. /\ s[Len(s)] \in Point /\ s[Len(s)].at \in Labels /\ s[Len(s)].k \in Nat
      /\ s[Len(s)].k + 1 \in DOMAIN Code[s[Len(s)].at]
      /\ Len(s) \in DOMAIN s
  BY LastOfStack
<1>2. PICK e : e = [at |-> s[Len(s)].at, k |-> s[Len(s)].k + 1]
  OBVIOUS
<1>3. e \in Point /\ e.k \in DOMAIN Code[e.at]
  BY <1>1, <1>2 DEF Point
<1>4. After(s) = [s EXCEPT ![Len(s)] = e]
  <2>1. [s[Len(s)] EXCEPT !.k = @ + 1] = e
    BY <1>1, <1>2 DEF Point
  <2>2. After(s) = [s EXCEPT ![Len(s)] = [s[Len(s)] EXCEPT !.k = @ + 1]]
    BY <1>1 DEF After
  <2>3. QED
    BY <2>1, <2>2
<1>5. QED
  BY <1>3, <1>4, LastReplaced

LEMMA StackTurns ==
  ASSUME NEW s, IsStack(s), s # <<>>, NEW l \in Labels
  PROVE  IsStack(Turned(s, l)) /\ Turned(s, l) # <<>>
<1>1. Frame(l) \in Point /\ Frame(l).k \in DOMAIN Code[Frame(l).at]
  BY Steps DEF Frame, Point
<1>2. QED
  BY <1>1, LastReplaced DEF Turned

LEMMA StackOfOne ==
  ASSUME NEW l \in Labels
  PROVE  IsStack(<<Frame(l)>>) /\ <<Frame(l)>> # <<>>
<1>1. Frame(l) \in Point /\ Frame(l).k \in DOMAIN Code[Frame(l).at]
  BY Steps DEF Frame, Point
<1>2. PICK e \in Point : e = Frame(l)
  BY <1>1
<1>3. <<e>> \in Seq(Point) /\ Len(<<e>>) = 1 /\ DOMAIN <<e>> = {1} /\ <<e>>[1] = e
  OBVIOUS
<1>4. IsStack(<<e>>) /\ <<e>> # <<>>
  BY <1>1, <1>2, <1>3 DEF IsStack
<1>5. QED
  BY <1>2, <1>4

LEMMA StackIsEntered ==
  ASSUME NEW s, IsStack(s), s # <<>>, LastStep(s).do = "call", NEW l \in Labels
  PROVE  IsStack(Append(s, Frame(l))) /\ Append(s, Frame(l)) # <<>>
<1>1. Frame(l) \in Point /\ Frame(l).k \in DOMAIN Code[Frame(l).at]
  BY Steps DEF Frame, Point
<1>2. PICK e \in Point : e = Frame(l)
  BY <1>1
<1>3. s \in Seq(Point)
  BY DEF IsStack
<1>4. DOMAIN s = 1 .. Len(s) /\ Len(s) \in Nat \ {0}
  BY LastOfStack
<1>5. PICK t \in Seq(Point) : t = Append(s, e)
  BY <1>3, AppendProperties
<1>6. /\ Len(t) = Len(s) + 1 /\ DOMAIN t = 1 .. Len(s) + 1 /\ t[Len(s) + 1] = e
      /\ \A n \in 1 .. Len(s) : t[n] = s[n]
  BY <1>3, <1>5, AppendProperties, LenProperties
<1>7. ASSUME NEW n \in DOMAIN t
      PROVE  /\ t[n].k \in DOMAIN Code[t[n].at]
             /\ n < Len(t) => Code[t[n].at][t[n].k].do = "call"
  <2>1. CASE n = Len(s) + 1
    BY <1>1, <1>2, <1>6, <2>1
  <2>2. CASE n # Len(s) + 1
    <3>1. n \in DOMAIN s /\ t[n] = s[n]
      BY <1>4, <1>6, <2>2
    <3>2. n = Len(s) \/ n < Len(s)
      BY <1>4, <3>1
    <3>3. Code[s[n].at][s[n].k].do = "call"
      BY <3>1, <3>2 DEF IsStack, LastStep
    <3>4. QED
      BY <3>1, <3>3 DEF IsStack
  <2>3. QED
    BY <2>1, <2>2
<1>8. IsStack(t) /\ t # <<>>
  BY <1>4, <1>6, <1>7 DEF IsStack
<1>9. QED
  BY <1>2, <1>5, <1>8

LEMMA StackIsLeft ==
  ASSUME NEW s, IsStack(s), s # <<>>, NEW t, t = SubSeq(s, 1, Len(s) - 1), t # <<>>
  PROVE  IsStack(t) /\ LastStep(t).do = "call"
<1>1. s \in Seq(Point) /\ DOMAIN s = 1 .. Len(s) /\ Len(s) \in Nat \ {0}
  BY LastOfStack DEF IsStack
<1>2. /\ t \in Seq(Point) /\ Len(t) = Len(s) - 1
      /\ \A n \in 1 .. Len(s) - 1 : t[n] = s[n]
  <2>1. /\ Len(s) - 1 \in Nat /\ 1 \in Nat /\ Len(s) - 1 - 1 + 1 = Len(s) - 1
        /\ \A n \in 1 .. Len(s) - 1 : s[n] \in Point
    BY <1>1
  <2>2. QED
    BY <1>1, <2>1, SubSeqProperties
<1>3. DOMAIN t = 1 .. Len(t) /\ Len(t) \in Nat \ {0}
  BY <1>2, LenProperties, EmptySeq
<1>4. \A n \in DOMAIN t :
        /\ t[n].k \in DOMAIN Code[t[n].at]
        /\ Code[t[n].at][t[n].k].do = "call"
  <2> TAKE n \in DOMAIN t
  <2>1. n \in DOMAIN s /\ n < Len(s) /\ t[n] = s[n]
    BY <1>1, <1>2, <1>3
  <2>2. QED
    BY <2>1 DEF IsStack
<1>5. QED
  BY <1>2, <1>3, <1>4 DEF IsStack, LastStep
-----------------------------------------------------------------------------
(* One step inside of SDL_image *)

ControlOK ==
  /\ result \in {"idle", "running", "picture", "null", "fault"}
  /\ (result = "running") <=> (pc # <<>>)
  /\ IsStack(pc)

SourceOK ==
  at \in {"start", "moved"} /\ ended \in BOOLEAN /\ missed \in BOOLEAN

HeapOK == refused \in BOOLEAN /\ live \cap freed = {}

UnsaidOK == unsaid = None \/ unsaid \in Labels

LoadingInv == ControlOK /\ SourceOK /\ HeapOK /\ UnsaidOK

LEMMA LoadingInvIsTyped == LoadingInv => LoadingTypeOK
<1> SUFFICES ASSUME LoadingInv PROVE LoadingTypeOK
  OBVIOUS
<1>1. \A n \in DOMAIN pc :
        /\ pc[n].at \in Labels /\ pc[n].k \in DOMAIN Code[pc[n].at]
        /\ n < Len(pc) => Code[pc[n].at][pc[n].k].do = "call"
  <2> TAKE n \in DOMAIN pc
  <2>1. pc[n] \in Point
    BY LenProperties DEF LoadingInv, ControlOK, IsStack
  <2>2. QED
    BY <2>1 DEF LoadingInv, ControlOK, IsStack, Point
<1>2. {ended, missed, refused} \subseteq BOOLEAN
  BY Zenon DEF LoadingInv, SourceOK, HeapOK
<1>3. QED
  BY <1>1, <1>2 DEF LoadingInv, ControlOK, SourceOK, HeapOK, UnsaidOK, LoadingTypeOK

\* Where control is.
LEMMA Running ==
  ASSUME ControlOK, result = "running"
  PROVE  /\ IsStack(pc) /\ pc # <<>> /\ Here = LastStep(pc) /\ Here \in CodeStep
         /\ Top.at \in Labels /\ Here.to \subseteq Labels
         /\ Here.do = "call" => Here.what \in Labels
<1>1. IsStack(pc) /\ pc # <<>>
  BY DEF ControlOK
<1>2. Here = LastStep(pc) /\ Top = pc[Len(pc)]
  BY DEF Here, Top, LastStep
<1>3. QED
  BY <1>1, <1>2, LastOfStack

LEMMA ControlGoesOn ==
  ASSUME ControlOK, result = "running", result' = result,
         (Onward /\ Here.do \notin Leaves) \/ Jump
  PROVE  ControlOK'
<1>1. CASE Onward /\ Here.do \notin Leaves
  <2>1. IsStack(After(pc)) /\ After(pc) # <<>>
    BY <1>1, Running, StackGoesOn
  <2>2. pc' = After(pc)
    BY <1>1 DEF Onward
  <2>3. QED
    BY <2>1, <2>2 DEF ControlOK, IsStack
<1>2. CASE Jump
  <2>1. PICK l \in Here.to : pc' = Turned(pc, l)
    BY <1>2 DEF Jump
  <2>2. l \in Labels
    BY <2>1, Running
  <2>3. IsStack(Turned(pc, l)) /\ Turned(pc, l) # <<>>
    BY <2>2, Running, StackTurns
  <2>4. QED
    BY <2>1, <2>3 DEF ControlOK, IsStack
<1>3. QED
  BY <1>1, <1>2

LEMMA SourceStep ==
  ASSUME LoadingInv, ReadWhole \/ ReadShort \/ TakeShort \/ Reposition
  PROVE  LoadingInv' /\ result = "running" /\ result' = result
<1>1. /\ result = "running" /\ result' = result
      /\ (Onward /\ Here.do \notin Leaves) \/ Jump
  BY DEF ReadWhole, ReadShort, TakeShort, Reposition, Doing, Miss, Leaves
<1>2. ControlOK'
  BY <1>1, ControlGoesOn DEF LoadingInv
<1>3. HeapOK'
  BY DEF ReadWhole, ReadShort, TakeShort, Reposition, heapVars, HeapOK, LoadingInv
<1>4. unsaid' \in {unsaid, None, Top.at}
  BY DEF ReadWhole, ReadShort, TakeShort, Reposition, Miss
<1>5. UnsaidOK'
  BY <1>1, <1>4, Running DEF UnsaidOK, LoadingInv
<1>6. SourceOK'
  <2>1. at' \in {"start", "moved"}
    BY DEF ReadWhole, ReadShort, TakeShort, Reposition
  <2>2. ended \in BOOLEAN /\ missed \in BOOLEAN
    BY DEF LoadingInv, SourceOK
  <2>3. missed' = missed \/ missed' = TRUE \/ missed' = (missed \/ Here.do = "read")
    BY Zenon DEF ReadWhole, ReadShort, TakeShort, Reposition
  <2>4. ended' = ended \/ ended' = TRUE \/ ended' = (Here.do = "skip" /\ ended)
    BY Zenon DEF ReadWhole, ReadShort, TakeShort, Reposition
  <2>5. ended' \in BOOLEAN /\ missed' \in BOOLEAN
    BY <2>2, <2>3, <2>4, Zenon
  <2>6. QED
    BY <2>1, <2>5 DEF SourceOK
<1>7. QED
  BY <1>1, <1>2, <1>3, <1>5, <1>6 DEF LoadingInv

LEMMA WayStep ==
  ASSUME LoadingInv, Met \/ NotMet \/ Choose \/ Settle \/ Recall \/ Begin
  PROVE  LoadingInv' /\ result = "running" /\ result' = result
<1>1. /\ result = "running" /\ result' = result
      /\ (Onward /\ Here.do \notin Leaves) \/ Jump
  BY DEF Met, NotMet, Choose, Settle, Recall, Begin, Doing, Miss, Leaves
<1>2. ControlOK'
  BY <1>1, ControlGoesOn DEF LoadingInv
<1>3. HeapOK'
  BY DEF Met, NotMet, Choose, Settle, Recall, Begin, heapVars, HeapOK, LoadingInv
<1>4. unsaid' \in {unsaid, None, Top.at}
  BY DEF Met, NotMet, Choose, Settle, Recall, Begin, Miss
<1>5. UnsaidOK'
  BY <1>1, <1>4, Running DEF UnsaidOK, LoadingInv
<1>6. SourceOK'
  <2>1. at' = at /\ ended' = ended /\ (missed' = missed \/ missed' = FALSE)
    BY Zenon DEF Met, NotMet, Choose, Settle, Recall, Begin, sourceVars
  <2>2. at \in {"start", "moved"} /\ ended \in BOOLEAN /\ missed \in BOOLEAN
    BY DEF LoadingInv, SourceOK
  <2>3. ended' \in BOOLEAN /\ missed' \in BOOLEAN
    BY <2>1, <2>2, Zenon
  <2>4. QED
    BY <2>1, <2>2, <2>3 DEF SourceOK
<1>7. QED
  BY <1>1, <1>2, <1>3, <1>5, <1>6 DEF LoadingInv

LEMMA RoomStep ==
  ASSUME LoadingInv, Granted \/ Refused \/ Grown \/ NotGrown \/ NotResized
  PROVE  LoadingInv' /\ result = "running" /\ result' = result
<1>1. /\ result = "running" /\ result' = result
      /\ (Onward /\ Here.do \notin Leaves) \/ Jump
  BY DEF Granted, Refused, Grown, NotGrown, NotResized, Doing, Miss, Leaves
<1>2. ControlOK'
  BY <1>1, ControlGoesOn DEF LoadingInv
<1>3. HeapOK'
  <2>1. live \cap freed = {} /\ refused \in BOOLEAN
    BY DEF LoadingInv, HeapOK
  <2>2. \/ live' = live /\ freed' = freed
        \/ live' = live \cup {Here.what} /\ freed' = freed \ {Here.what}
        \/ live' = live \ {Here.what} /\ freed' = freed \ {Here.what}
    BY DEF Granted, Refused, Grown, NotGrown, NotResized
  <2>3. live' \cap freed' = {}
    BY <2>1, <2>2
  <2>4. refused' = refused \/ refused' = TRUE
    BY Zenon DEF Granted, Refused, Grown, NotGrown, NotResized
  <2>5. refused' \in BOOLEAN
    BY <2>1, <2>4, Zenon
  <2>6. QED
    BY <2>3, <2>5 DEF HeapOK
<1>4. unsaid' \in {unsaid, None, Top.at}
  BY DEF Granted, Refused, Grown, NotGrown, NotResized, Miss
<1>5. UnsaidOK'
  BY <1>1, <1>4, Running DEF UnsaidOK, LoadingInv
<1>6. SourceOK'
  BY DEF Granted, Refused, Grown, NotGrown, NotResized, sourceVars, SourceOK, LoadingInv
<1>7. QED
  BY <1>1, <1>2, <1>3, <1>5, <1>6 DEF LoadingInv

LEMMA UseStep ==
  ASSUME LoadingInv, Freed \/ Fault \/ Owned \/ Null
  PROVE  LoadingInv' /\ result = "running" /\ result' \in {result, "fault"}
<1>1. /\ result = "running" /\ result' \in {result, "fault"}
      /\ \/ result' = result /\ ((Onward /\ Here.do \notin Leaves) \/ Jump)
         \/ result' = "fault" /\ pc' = <<>>
  BY DEF Freed, Fault, Owned, Null, Doing, Leaves
<1>2. ControlOK'
  <2>1. CASE result' = result /\ ((Onward /\ Here.do \notin Leaves) \/ Jump)
    BY <1>1, <2>1, ControlGoesOn DEF LoadingInv
  <2>2. CASE result' = "fault" /\ pc' = <<>>
    BY <2>2 DEF ControlOK, IsStack
  <2>3. QED
    BY <1>1, <2>1, <2>2
<1>3. HeapOK'
  <2>1. live \cap freed = {} /\ refused \in BOOLEAN
    BY DEF LoadingInv, HeapOK
  <2>2. \/ live' = live /\ freed' = freed
        \/ /\ live' = live \ {Here.what}
           /\ freed' = freed \/ freed' = freed \cup ({Here.what} \cap live)
    BY DEF Freed, Fault, Owned, Null, heapVars
  <2>3. live' \cap freed' = {}
    BY <2>1, <2>2
  <2>4. \/ refused' = refused
        \/ refused' = (refused \/ Here.do \in {"trust", "stretch"})
    BY Zenon DEF Freed, Fault, Owned, Null, heapVars
  <2>5. refused' \in BOOLEAN
    BY <2>1, <2>4, Zenon
  <2>6. QED
    BY <2>3, <2>5 DEF HeapOK
<1>4. unsaid' \in {unsaid, None, Top.at}
  BY DEF Freed, Fault, Owned, Null
<1>5. UnsaidOK'
  BY <1>1, <1>4, Running DEF UnsaidOK, LoadingInv
<1>6. SourceOK'
  BY DEF Freed, Fault, Owned, Null, sourceVars, SourceOK, LoadingInv
<1>7. QED
  BY <1>1, <1>2, <1>3, <1>5, <1>6 DEF LoadingInv

\* What is moved, given away or forgotten, and what is said.
LEMMA RestStep ==
  ASSUME LoadingInv, Moved \/ Given \/ Forgotten \/ Explain
  PROVE  LoadingInv' /\ result = "running" /\ result' = result
<1>1. /\ result = "running" /\ result' = result
      /\ Onward /\ Here.do \notin Leaves
  BY DEF Moved, Given, Forgotten, Explain, Doing, Leaves
<1>2. ControlOK'
  BY <1>1, ControlGoesOn DEF LoadingInv
<1>3. HeapOK'
  <2>1. live \cap freed = {} /\ refused \in BOOLEAN
    BY DEF LoadingInv, HeapOK
  <2>2. refused' = refused
    BY DEF Moved, Given, Forgotten, Explain, heapVars
  <2>3. CASE Moved
    <3>1. /\ live' \subseteq live \cup {Here.into}
          /\ freed' = freed \ {Here.what, Here.into}
      BY <2>3 DEF Moved
    <3>2. live' \cap freed' = {}
      BY <2>1, <3>1
    <3>3. QED
      BY <2>1, <2>2, <3>2 DEF HeapOK
  <2>4. CASE Given \/ Forgotten \/ Explain
    <3>1. live' \subseteq live /\ freed' \subseteq freed
      BY <2>4 DEF Given, Forgotten, Explain, heapVars
    <3>2. live' \cap freed' = {}
      BY <2>1, <3>1
    <3>3. QED
      BY <2>1, <2>2, <3>2 DEF HeapOK
  <2>5. QED
    BY <2>3, <2>4
<1>4. unsaid' \in {unsaid, None}
  BY DEF Moved, Given, Forgotten, Explain
<1>5. UnsaidOK'
  BY <1>4 DEF UnsaidOK, LoadingInv
<1>6. SourceOK'
  BY DEF Moved, Given, Forgotten, Explain, sourceVars, SourceOK, LoadingInv
<1>7. QED
  BY <1>1, <1>2, <1>3, <1>5, <1>6 DEF LoadingInv

\* Calls and returns.
LEMMA CallStep ==
  ASSUME LoadingInv, Enter \/ Succeed \/ GiveUp \/ Finish
  PROVE  /\ LoadingInv' /\ result = "running"
         /\ result' \in {result, "picture", "null"}
<1>1. /\ result = "running" /\ result' \in {result, "picture", "null"}
      /\ UNCHANGED <<sourceVars, heapVars>> /\ unsaid' \in {unsaid, None}
  BY DEF Enter, Succeed, GiveUp, Finish, Doing
<1>2. IsStack(pc) /\ pc # <<>> /\ Here = LastStep(pc)
  BY <1>1, Running DEF LoadingInv
<1>3. ControlOK'
  <2>1. CASE Enter
    <3>1. /\ Here.do = "call" /\ pc' = Append(pc, Frame(Here.what))
          /\ result' = "running"
      BY <2>1 DEF Enter, Doing
    <3>2. Here.what \in Labels
      BY <1>1, <3>1, Running DEF LoadingInv
    <3>3. IsStack(Append(pc, Frame(Here.what))) /\ Append(pc, Frame(Here.what)) # <<>>
      BY <1>2, <3>1, <3>2, StackIsEntered
    <3>4. QED
      BY <3>1, <3>3 DEF ControlOK, IsStack
  <2>2. CASE Finish
    BY <2>2 DEF Finish, ControlOK, IsStack
  <2>3. CASE Succeed \/ GiveUp
    <3>1. Callers # <<>> /\ result' = "running"
      BY <1>1, <2>3 DEF Succeed, GiveUp
    <3>2. PICK t : t = Callers
      OBVIOUS
    <3>3. IsStack(t) /\ LastStep(t).do = "call" /\ t # <<>>
      BY <1>2, <3>1, <3>2, StackIsLeft DEF Callers
    <3>4. Caller = LastStep(t)
      BY <3>2 DEF Caller, LastStep
    <3>5. IsStack(After(t)) /\ After(t) # <<>>
      BY <3>3, StackGoesOn DEF Leaves
    <3>6. \A l \in Caller.to : IsStack(Turned(t, l)) /\ Turned(t, l) # <<>>
      <4>1. Caller.to \subseteq Labels
        BY <3>3, <3>4, LastOfStack
      <4>2. QED
        BY <3>3, <4>1, StackTurns
    <3>7. pc' = After(t) \/ \E l \in Caller.to : pc' = Turned(t, l)
      BY <2>3, <3>2 DEF Succeed, GiveUp
    <3>8. IsStack(pc') /\ pc' # <<>>
      BY <3>5, <3>6, <3>7
    <3>9. QED
      BY <3>1, <3>8 DEF ControlOK, IsStack
  <2>4. QED
    BY <2>1, <2>2, <2>3
<1>4. SourceOK' /\ HeapOK' /\ UnsaidOK'
  BY <1>1 DEF sourceVars, heapVars, SourceOK, HeapOK, UnsaidOK, LoadingInv
<1>5. QED
  BY <1>1, <1>3, <1>4 DEF LoadingInv

LEMMA LoadingStep ==
  ASSUME LoadingInv, LoadingNext
  PROVE  LoadingInv' /\ result # "idle" /\ result' # "idle"
<1>1. \/ ReadWhole \/ ReadShort \/ TakeShort \/ Reposition
      \/ Met \/ NotMet \/ Choose \/ Settle \/ Recall \/ Begin
      \/ Granted \/ Refused \/ Grown \/ NotGrown \/ NotResized
      \/ Freed \/ Fault \/ Owned \/ Null
      \/ Moved \/ Given \/ Forgotten \/ Explain
      \/ Enter \/ Succeed \/ GiveUp \/ Finish
  BY DEF LoadingNext
<1>2. /\ LoadingInv' /\ result = "running"
      /\ result' \in {result, "fault", "picture", "null"}
  BY <1>1, SourceStep, WayStep, RoomStep, UseStep, RestStep, CallStep
<1>3. QED
  BY <1>2
-----------------------------------------------------------------------------
(* A frame *)

\* SDL_image is done with the frame when its icons are there.
DrawingInv ==
  /\ LoadingInv
  /\ called \in Roots /\ loaded \in 0 .. Icons
  /\ (result = "idle") <=> (loaded = Icons)
  /\ loaded < Icons => vertices = <<>>

LEMMA AfreshIsTyped ==
  ASSUME Afresh
  PROVE  (SourceOK /\ HeapOK /\ UnsaidOK)'
BY DEF Afresh, SourceOK, HeapOK, UnsaidOK

LEMMA FreshIsTyped ==
  ASSUME Fresh
  PROVE  SourceOK /\ HeapOK /\ UnsaidOK
BY DEF Fresh, SourceOK, HeapOK, UnsaidOK

LEMMA DrawingInvInit == DrawingInit => DrawingInv
<1> SUFFICES ASSUME DrawingInit PROVE DrawingInv
  OBVIOUS
<1>1. Icons \in Nat \ {0} /\ "IMG_Load" \in Roots /\ Roots \subseteq Labels
  BY DrawingAssumption, CodeAssumption DEF DrawingAssumption, CodeAssumption
<1>2. vertices = <<>>
  BY DEF DrawingInit, LayoutInit
<1>3. CASE FirstFrame
  <2>1. /\ Fresh /\ result = "running" /\ loaded = 0 /\ called = Top.at
        /\ \E r \in Roots : pc = <<Frame(r)>>
    BY <1>3 DEF FirstFrame, LoadingInit
  <2>2. PICK r \in Roots : pc = <<Frame(r)>>
    BY <2>1
  <2>3. IsStack(pc) /\ pc # <<>>
    BY <1>1, <2>2, StackOfOne
  <2>4. called = r
    BY <2>1, <2>2 DEF Top, Frame
  <2>5. LoadingInv
    BY <2>1, <2>3, FreshIsTyped DEF LoadingInv, ControlOK
  <2>6. QED
    BY <1>1, <1>2, <2>1, <2>4, <2>5 DEF DrawingInv
<1>4. CASE LaterFrame
  <2>1. /\ Fresh /\ result = "idle" /\ loaded = Icons /\ called = "IMG_Load"
        /\ pc = <<>>
    BY <1>4 DEF LaterFrame, NotLoading
  <2>2. LoadingInv
    BY <2>1, FreshIsTyped DEF LoadingInv, ControlOK, IsStack
  <2>3. QED
    BY <1>1, <2>1, <2>2 DEF DrawingInv
<1>5. QED
  BY <1>3, <1>4 DEF DrawingInit

LEMMA DrawingInvCacheIcon ==
  ASSUME DrawingInv, CacheIcon
  PROVE  DrawingInv'
<1>1. Icons \in Nat \ {0} /\ "IMG_Load" \in Labels
  BY DrawingAssumption, CodeAssumption DEF DrawingAssumption, CodeAssumption
<1>2. /\ called' = called /\ vertices' = vertices /\ result # "idle"
      /\ loaded' = loaded + 1
      /\ IF loaded' < Icons THEN NextCall("IMG_Load") ELSE NoCall
  BY DEF CacheIcon, layoutVars
<1>3. loaded \in 0 .. Icons /\ loaded # Icons /\ vertices = <<>>
  BY <1>1, <1>2 DEF DrawingInv
<1>4. loaded' \in 0 .. Icons
  BY <1>1, <1>2, <1>3
<1>5. CASE loaded' < Icons
  <2>1. Afresh /\ pc' = <<Frame("IMG_Load")>> /\ result' = "running"
    BY <1>2, <1>5 DEF NextCall
  <2>2. IsStack(<<Frame("IMG_Load")>>) /\ <<Frame("IMG_Load")>> # <<>>
    BY <1>1, StackOfOne
  <2>3. ControlOK'
    BY <2>1, <2>2 DEF ControlOK, IsStack
  <2>4. LoadingInv'
    BY <2>1, <2>3, AfreshIsTyped DEF LoadingInv
  <2>5. QED
    BY <1>1, <1>2, <1>3, <1>4, <1>5, <2>1, <2>4 DEF DrawingInv
<1>6. CASE ~ (loaded' < Icons)
  <2>1. Afresh /\ pc' = <<>> /\ result' = "idle" /\ loaded' = Icons
    BY <1>1, <1>2, <1>4, <1>6 DEF NoCall
  <2>2. ControlOK'
    BY <2>1 DEF ControlOK, IsStack
  <2>3. LoadingInv'
    BY <2>1, <2>2, AfreshIsTyped DEF LoadingInv
  <2>4. QED
    BY <1>2, <1>3, <1>4, <2>1, <2>3 DEF DrawingInv
<1>7. QED
  BY <1>5, <1>6

LEMMA LoadingInvKept ==
  ASSUME LoadingInv, UNCHANGED loadingVars
  PROVE  LoadingInv' /\ result' = result
BY DEF LoadingInv, loadingVars, wayVars, sourceVars, heapVars, ControlOK, SourceOK,
       HeapOK, UnsaidOK, IsStack

LEMMA DrawingInvNext == DrawingInv /\ [DrawingNext]_drawingVars => DrawingInv'
<1> SUFFICES ASSUME DrawingInv, [DrawingNext]_drawingVars PROVE DrawingInv'
  OBVIOUS
<1>1. CASE Decode
  <2>1. LoadingInv' /\ result # "idle" /\ result' # "idle"
    BY <1>1, LoadingStep DEF Decode, DrawingInv
  <2>2. UNCHANGED <<vertices, called, loaded>>
    BY <1>1 DEF Decode, layoutVars
  <2>3. QED
    BY <2>1, <2>2 DEF DrawingInv
<1>2. CASE CacheIcon
  BY <1>2, DrawingInvCacheIcon
<1>3. CASE Place
  <2>1. LoadingInv' /\ result' = result
    BY <1>3, LoadingInvKept DEF Place, DrawingInv
  <2>2. loaded = Icons /\ loaded' = loaded /\ called' = called
    BY <1>3 DEF Place
  <2>3. ~ (loaded' < Icons)
    BY <2>2, DrawingAssumption DEF DrawingAssumption
  <2>4. QED
    BY <2>1, <2>2, <2>3 DEF DrawingInv
<1>4. CASE UNCHANGED drawingVars
  <2>1. UNCHANGED <<loadingVars, vertices, called, loaded>>
    BY <1>4 DEF drawingVars, layoutVars
  <2>2. LoadingInv' /\ result' = result
    BY <2>1, LoadingInvKept DEF DrawingInv
  <2>3. QED
    BY <2>1, <2>2 DEF DrawingInv
<1>5. QED
  BY <1>1, <1>2, <1>3, <1>4 DEF DrawingNext

LEMMA DrawingInvariant == DrawingSpec => []DrawingInv
BY DrawingInvInit, DrawingInvNext, PTL DEF DrawingSpec
-----------------------------------------------------------------------------
\* Whatever loads the icons, and however often, the loops over the tiles see
\* nothing of it.
THEOREM FramesAreLaidOut == DrawingSpec => LayoutSpec
<1>1. DrawingInit => LayoutInit
  BY DEF DrawingInit
<1>2. [DrawingNext]_drawingVars => [LayoutNext]_layoutVars
  BY DEF DrawingNext, Decode, CacheIcon, Place, drawingVars
<1>3. QED
  BY <1>1, <1>2, PTL DEF DrawingSpec, LayoutSpec

\* Whatever a library's code is made of, as long as no block of it runs off its
\* end and no jump leads nowhere: every call's stack is one the code can make,
\* nothing is both owned and freed, and no tile is placed before the frame has
\* its icons.
THEOREM DrawingTypes == DrawingSpec => []DrawingTypeOK
<1>1. DrawingInv /\ LayoutInv => DrawingTypeOK
  BY LoadingInvIsTyped DEF DrawingInv, LayoutInv, DrawingTypeOK
<1>2. QED
  BY <1>1, DrawingInvariant, FramesAreLaidOut, LayoutInvariant, PTL

\* So in every frame that is drawn, however its icons were loaded, each tile of
\* the field has its vertex once and in its place.
THEOREM FramesHaveEveryTile == DrawingSpec => []EveryTileIsPlacedOnce
BY FramesAreLaidOut, TilesArePlaced, PTL

\* In every frame that is drawn no tile sticks out of the client's window.
THEOREM FramesStayInside == DrawingSpec => []TilesInsideWindow
BY FramesAreLaidOut, TilesStayInside, PTL

\* In every frame that is drawn no tile covers another.
THEOREM FramesDoNotOverlap == DrawingSpec => []TilesDoNotOverlap
BY FramesAreLaidOut, TilesStayApart, PTL

\* What is not a step of SDL_image begins a call as the first one began, or leaves
\* nothing of it behind: so what holds in every call of one icon's frame holds in
\* those of a frame with any number of icons.
THEOREM EveryCallBeginsAfresh ==
  DrawingSpec => [][LoadingNext \/ LoadingInit' \/ NotLoading']_loadingVars
<1>1. ASSUME CacheIcon PROVE LoadingInit' \/ NotLoading'
  <2>1. NextCall("IMG_Load") \/ NoCall
    BY <1>1 DEF CacheIcon
  <2>2. CASE NextCall("IMG_Load")
    BY <2>2, DrawingAssumption
       DEF DrawingAssumption, NextCall, Afresh, LoadingInit, Fresh
  <2>3. CASE NoCall
    BY <2>3 DEF NoCall, Afresh, NotLoading, Fresh
  <2>4. QED
    BY <2>1, <2>2, <2>3
<1>2. [DrawingNext]_drawingVars
        => [LoadingNext \/ LoadingInit' \/ NotLoading']_loadingVars
  BY <1>1 DEF DrawingNext, Decode, Place, drawingVars
<1>3. QED
  BY <1>2, PTL DEF DrawingSpec
=============================================================================
