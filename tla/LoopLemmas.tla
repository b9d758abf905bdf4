----------------------------- MODULE LoopLemmas -----------------------------
(***************************************************************************)
(* What a loop computes, for every number of passes: induction over the    *)
(* passes, the existence of what a recursive function over them defines,   *)
(* and the loop of module Sieve.                                           *)
(*                                                                         *)
(* Induction is stated for sets of numbers instead of predicates: a set    *)
(* with no least element is empty, because the natural numbers are         *)
(* well-founded.                                                           *)
(***************************************************************************)
EXTENDS Sieve, SequenceTheorems, WellFoundedInduction, TLAPS

\* Every set of numbers that is not empty has a least one.
LEMMA LeastNumber ==
  ASSUME NEW T \in SUBSET Nat, T # {}
  PROVE  \E x \in T : \A y \in T : x <= y
<1> DEFINE R == OpToRel(<, Nat)
<1>1. IsWellFoundedOn(R, Nat)
  BY NatLessThanWellFounded, Zenon
<1>2. \A a, b \in Nat : a < b => <<a, b>> \in R
  BY DEF OpToRel
<1> HIDE DEF R
<1>3. PICK x \in T : \A y \in T : ~ (<<y, x>> \in R)
  BY <1>1, WFMin, Zenon
<1>4. \A y \in T : ~ (y < x)
  BY <1>2, <1>3
<1>5. \A y \in T : x <= y
  BY <1>4
<1>6. QED
  BY <1>5

\* What holds before the first pass and is kept by every pass holds after each.
LEMMA EveryPass ==
  ASSUME NEW N \in Nat, NEW T, 0 \in T,
         \A n \in 1 .. N : n - 1 \in T => n \in T
  PROVE  \A n \in 0 .. N : n \in T
<1> DEFINE U == (0 .. N) \ T
<1> SUFFICES ASSUME U # {} PROVE FALSE
  OBVIOUS
<1>1. U \in SUBSET Nat
  OBVIOUS
<1> HIDE DEF U
<1>2. PICK x \in U : \A y \in U : x <= y
  BY <1>1, LeastNumber
<1>3. x \in 1 .. N /\ x - 1 \in 0 .. N /\ x \notin T
  BY <1>2 DEF U
<1>4. x - 1 \in T
  BY <1>2, <1>3 DEF U
<1>5. QED
  BY <1>3, <1>4
-----------------------------------------------------------------------------
\* The bodies of a loop that passes N times over a value in X, and the values
\* such a loop has before its first and after every pass.
LoopBodies(N, X) == [1 .. N -> [X -> X]]

Computes(f, N, X, first, body) ==
  /\ f \in [0 .. N -> X] /\ f[0] = first
  /\ \A n \in 1 .. N : f[n] = body[n][f[n - 1]]

\* A loop has such values.
LEMMA LoopComputes ==
  ASSUME NEW N \in Nat, NEW X, NEW first \in X, NEW body \in LoopBodies(N, X)
  PROVE  \E f : Computes(f, N, X, first, body)
<1> DEFINE Is(f, k) == /\ f \in [0 .. k -> X] /\ f[0] = first
                       /\ \A n \in 1 .. k : f[n] = body[n][f[n - 1]]
<1> DEFINE T == {k \in 0 .. N : \E f \in [0 .. k -> X] : Is(f, k)}
<1>1. body \in [1 .. N -> [X -> X]]
  BY DEF LoopBodies
<1>2. 0 \in T
  <2>1. Is([n \in 0 .. 0 |-> first], 0)
    OBVIOUS
  <2>2. [n \in 0 .. 0 |-> first] \in [0 .. 0 -> X] /\ 0 \in 0 .. N
    OBVIOUS
  <2> HIDE DEF Is
  <2>3. QED
    BY <2>1, <2>2
<1>3. ASSUME NEW n \in 1 .. N, n - 1 \in T
      PROVE  n \in T
  <2>1. PICK g \in [0 .. n - 1 -> X] : Is(g, n - 1)
    BY <1>3
  <2> DEFINE last == body[n][g[n - 1]]
  <2> DEFINE h == [i \in 0 .. n |-> IF i < n THEN g[i] ELSE last]
  <2>2. last \in X
    <3>1. g[n - 1] \in X
      BY <2>1
    <3>2. body[n] \in [X -> X]
      BY <1>1
    <3>3. QED
      BY <3>1, <3>2
  <2>3. h \in [0 .. n -> X]
    <3> HIDE DEF last
    <3>1. QED
      BY <2>1, <2>2
  <2>4. h[0] = first
    BY <2>1
  <2>5. \A i \in 1 .. n : h[i] = body[i][h[i - 1]]
    BY <2>1
  <2>6. Is(h, n) /\ n \in 0 .. N
    <3> HIDE DEF h
    <3>1. QED
      BY <2>3, <2>4, <2>5
  <2> HIDE DEF h, Is
  <2>7. QED
    BY <2>3, <2>6
<1> HIDE DEF T
<1>4. \A n \in 0 .. N : n \in T
  BY <1>2, <1>3, EveryPass
<1>5. N \in T
  BY <1>4
<1>6. QED
  BY <1>5 DEF T, Computes
-----------------------------------------------------------------------------
(* Kept *)

\* kept has the list of the loop after each pass.
Keeps(kept, s, X, S) ==
  /\ kept \in [0 .. Len(s) -> Seq(X)]
  /\ kept[0] = <<>>
  /\ \A n \in 1 .. Len(s) :
       kept[n] = IF s[n] \in S THEN Append(kept[n - 1], s[n]) ELSE kept[n - 1]
  /\ Kept(s, S) = kept[Len(s)]

LEMMA KeptLoop ==
  ASSUME NEW X, NEW s \in Seq(X), NEW S
  PROVE  \E kept : Keeps(kept, s, X, S)
<1> DEFINE N == Len(s)
<1> DEFINE After(f, n) ==
      IF n = 0 THEN <<>>
      ELSE IF s[n] \in S THEN Append(f[n - 1], s[n]) ELSE f[n - 1]
<1> DEFINE Solves(f) == f = [n \in 0 .. N |-> After(f, n)]
<1> DEFINE body ==
      [n \in 1 .. N |->
         [t \in Seq(X) |-> IF s[n] \in S THEN Append(t, s[n]) ELSE t]]
<1>1. N \in Nat /\ <<>> \in Seq(X) /\ \A n \in 1 .. N : s[n] \in X
  OBVIOUS
<1>2. body \in LoopBodies(N, Seq(X))
  BY <1>1, AppendProperties DEF LoopBodies
<1>3. PICK f : Computes(f, N, Seq(X), <<>>, body)
  <2> HIDE DEF body, N
  <2>1. QED
    BY <1>1, <1>2, LoopComputes
<1>4. /\ f \in [0 .. N -> Seq(X)] /\ f[0] = <<>>
      /\ \A n \in 1 .. N : f[n] = body[n][f[n - 1]]
  BY <1>3 DEF Computes
<1>5. \A n \in 1 .. N :
        f[n] = IF s[n] \in S THEN Append(f[n - 1], s[n]) ELSE f[n - 1]
  <2> TAKE n \in 1 .. N
  <2>1. n - 1 \in 0 .. N
    BY <1>1
  <2>2. f[n - 1] \in Seq(X)
    BY <1>4, <2>1
  <2>3. body[n][f[n - 1]] = IF s[n] \in S THEN Append(f[n - 1], s[n]) ELSE f[n - 1]
    BY <2>2
  <2>4. QED
    BY <1>4, <2>3
<1>6. Solves(f)
  <2>1. \A n \in 0 .. N : f[n] = After(f, n)
    <3> TAKE n \in 0 .. N
    <3>1. CASE n = 0
      BY <1>4, <3>1
    <3>2. CASE n # 0
      <4>1. n \in 1 .. N
        BY <1>1, <3>2
      <4>2. QED
        BY <1>5, <3>2, <4>1
    <3>3. QED
      BY <3>1, <3>2
  <2> HIDE DEF After
  <2>2. QED
    BY <1>4, <2>1
<1>7. ASSUME NEW g, Solves(g)
      PROVE  g = f
  <2> DEFINE T == {n \in 0 .. N : g[n] = f[n]}
  <2>1. 0 \in T
    BY <1>1, <1>4, <1>7
  <2>2. ASSUME NEW n \in 1 .. N, n - 1 \in T
        PROVE  n \in T
    <3>1. n \in 0 .. N /\ n # 0 /\ g[n - 1] = f[n - 1]
      BY <1>1, <2>2
    <3>2. g[n] = IF s[n] \in S THEN Append(g[n - 1], s[n]) ELSE g[n - 1]
      BY <1>7, <3>1
    <3>3. QED
      BY <1>5, <3>1, <3>2
  <2>3. \A n \in 0 .. N : n \in T
    <3> HIDE DEF T, Solves
    <3>1. QED
      BY <1>1, <2>1, <2>2, EveryPass
  <2>4. \A n \in 0 .. N : g[n] = f[n]
    BY <2>3
  <2>5. g = [n \in 0 .. N |-> g[n]] /\ f = [n \in 0 .. N |-> f[n]]
    BY <1>4, <1>7
  <2>6. QED
    BY <2>4, <2>5
<1>8. Solves(CHOOSE g : Solves(g))
  <2> HIDE DEF Solves
  <2>1. QED
    BY <1>6
<1>9. Kept(s, S) = (CHOOSE g : Solves(g))[N]
  BY DEF Kept
<1> HIDE DEF Solves, body
<1>10. Keeps(f, s, X, S)
  BY <1>4, <1>5, <1>7, <1>8, <1>9 DEF Keeps
<1>11. QED
  BY <1>10

LEMMA KeptOfNothing ==
  ASSUME NEW S
  PROVE  Kept(<<>>, S) = <<>>
<1>1. <<>> \in Seq({}) /\ Len(<<>>) = 0
  OBVIOUS
<1>2. PICK f : Keeps(f, <<>>, {}, S)
  BY <1>1, KeptLoop
<1>3. QED
  BY <1>1, <1>2 DEF Keeps

\* t has the elements of s that are in S.
Includes(t, s, S) ==
  \A p \in 1 .. Len(s) : s[p] \in S => \E q \in 1 .. Len(t) : t[q] = s[p]

\* The elements of s that are in S are kept, and nothing else.
LEMMA KeptProperties ==
  ASSUME NEW X, NEW s \in Seq(X), NEW S
  PROVE  /\ Kept(s, S) \in Seq(X \cap S)
         /\ Len(Kept(s, S)) <= Len(s)
         /\ Includes(Kept(s, S), s, S)
<1> DEFINE Y == X \cap S
<1> DEFINE Has(t, n) ==
      \A p \in 1 .. n : s[p] \in S => \E q \in DOMAIN t : t[q] = s[p]
<1>1. PICK f : Keeps(f, s, X, S)
  BY KeptLoop
<1> DEFINE T == {n \in 0 .. Len(s) :
                   f[n] \in Seq(Y) /\ Len(f[n]) <= n /\ Has(f[n], n)}
<1>2. Len(s) \in Nat /\ DOMAIN s = 1 .. Len(s) /\ \A n \in 1 .. Len(s) : s[n] \in X
  BY LenProperties
<1>3. 0 \in T
  <2>1. f[0] \in Seq(Y) /\ Len(f[0]) <= 0
    BY <1>1 DEF Keeps
  <2>2. Has(f[0], 0)
    OBVIOUS
  <2>3. QED
    BY <1>2, <2>1, <2>2
<1>4. ASSUME NEW n \in 1 .. Len(s), n - 1 \in T
      PROVE  n \in T
  <2>1. f[n - 1] \in Seq(Y) /\ Len(f[n - 1]) <= n - 1 /\ Has(f[n - 1], n - 1)
    BY <1>4
  <2>2. CASE s[n] \in S
    <3>1. s[n] \in Y /\ f[n] = Append(f[n - 1], s[n])
      BY <1>1, <1>2, <2>2 DEF Keeps
    <3>2. /\ f[n] \in Seq(Y) /\ Len(f[n]) = Len(f[n - 1]) + 1
          /\ DOMAIN f[n] = 1 .. Len(f[n - 1]) + 1
          /\ DOMAIN f[n - 1] = 1 .. Len(f[n - 1]) /\ Len(f[n - 1]) \in Nat
          /\ f[n][Len(f[n - 1]) + 1] = s[n]
          /\ \A q \in 1 .. Len(f[n - 1]) : f[n][q] = f[n - 1][q]
      BY <2>1, <3>1, AppendProperties, LenProperties
    <3>3. Has(f[n], n)
      <4> SUFFICES ASSUME NEW p \in 1 .. n, s[p] \in S
                   PROVE  \E q \in DOMAIN f[n] : f[n][q] = s[p]
        OBVIOUS
      <4>1. CASE p = n
        <5>1. Len(f[n - 1]) + 1 \in DOMAIN f[n]
          BY <3>2
        <5>2. f[n][Len(f[n - 1]) + 1] = s[p]
          BY <3>2, <4>1
        <5>3. QED
          BY <5>1, <5>2
      <4>2. CASE p # n
        <5>1. p \in 1 .. n - 1
          BY <4>2
        <5>2. PICK q \in DOMAIN f[n - 1] : f[n - 1][q] = s[p]
          BY <2>1, <5>1
        <5>3. QED
          BY <3>2, <5>2
      <4>3. QED
        BY <4>1, <4>2
    <3>4. QED
      BY <1>2, <2>1, <3>2, <3>3
  <2>3. CASE s[n] \notin S
    <3>1. f[n] = f[n - 1]
      BY <1>1, <2>3 DEF Keeps
    <3>2. Has(f[n], n)
      BY <2>1, <2>3, <3>1
    <3>3. QED
      BY <1>2, <2>1, <3>1, <3>2
  <2>4. QED
    BY <2>2, <2>3
<1>5. \A n \in 0 .. Len(s) : n \in T
  <2> HIDE DEF T
  <2>1. QED
    BY <1>2, <1>3, <1>4, EveryPass
<1>6. Len(s) \in T
  BY <1>2, <1>5
<1>7. /\ f[Len(s)] \in Seq(Y) /\ Len(f[Len(s)]) <= Len(s)
      /\ Has(f[Len(s)], Len(s))
  BY <1>6
<1>8. Includes(f[Len(s)], s, S)
  <2>1. PICK t \in Seq(Y) : t = f[Len(s)]
    BY <1>7
  <2>2. DOMAIN t = 1 .. Len(t)
    BY LenProperties
  <2>3. QED
    BY <1>7, <2>1, <2>2 DEF Includes
<1>9. Kept(s, S) = f[Len(s)]
  BY <1>1 DEF Keeps
<1>10. QED
  BY <1>7, <1>8, <1>9

LEMMA KeptElement ==
  ASSUME NEW X, NEW s \in Seq(X), NEW S, NEW p \in 1 .. Len(s), s[p] \in S
  PROVE  \E q \in 1 .. Len(Kept(s, S)) : Kept(s, S)[q] = s[p]
<1>1. Includes(Kept(s, S), s, S)
  BY KeptProperties
<1>2. QED
  BY <1>1 DEF Includes

\* A list that is longer by one element.
LEMMA KeptOfAppend ==
  ASSUME NEW X, NEW s \in Seq(X), NEW e \in X, NEW S
  PROVE  Kept(Append(s, e), S) =
           IF e \in S THEN Append(Kept(s, S), e) ELSE Kept(s, S)
<1>1. PICK f : Keeps(f, s, X, S)
  BY KeptLoop
<1> DEFINE t == Append(s, e)
<1>2. /\ t \in Seq(X) /\ Len(t) = Len(s) + 1 /\ Len(s) \in Nat /\ t[Len(t)] = e
      /\ \A n \in 1 .. Len(s) : t[n] = s[n]
  BY AppendProperties, LenProperties
<1> HIDE DEF t
<1>3. PICK g : Keeps(g, t, X, S)
  BY <1>2, KeptLoop
<1> DEFINE T == {n \in 0 .. Len(s) : g[n] = f[n]}
<1>4. 0 \in T
  BY <1>1, <1>2, <1>3 DEF Keeps
<1>5. ASSUME NEW n \in 1 .. Len(s), n - 1 \in T
      PROVE  n \in T
  <2>1. g[n - 1] = f[n - 1] /\ t[n] = s[n] /\ n \in 1 .. Len(t)
    BY <1>2, <1>5
  <2>2. g[n] = IF s[n] \in S THEN Append(f[n - 1], s[n]) ELSE f[n - 1]
    BY <1>3, <2>1 DEF Keeps
  <2>3. QED
    BY <1>1, <2>2 DEF Keeps
<1>6. \A n \in 0 .. Len(s) : n \in T
  <2> HIDE DEF T
  <2>1. QED
    BY <1>2, <1>4, <1>5, EveryPass
<1>7. g[Len(s)] = f[Len(s)]
  BY <1>2, <1>6
<1>8. g[Len(t)] = IF e \in S THEN Append(g[Len(s)], e) ELSE g[Len(s)]
  BY <1>2, <1>3 DEF Keeps
<1>9. QED
  BY <1>1, <1>3, <1>7, <1>8 DEF t, Keeps

\* Concatenation is associative; said with names of its own.
LEMMA Regroup ==
  ASSUME NEW X, NEW a \in Seq(X), NEW b \in Seq(X), NEW c \in Seq(X)
  PROVE  (a \o b) \o c = a \o (b \o c)
BY ConcatAssociative

\* A list without its first element.
LEMMA KeptOfTail ==
  ASSUME NEW X, NEW s \in Seq(X), s # <<>>, NEW S
  PROVE  Kept(s, S) = IF s[1] \in S THEN <<s[1]>> \o Kept(Tail(s), S)
                      ELSE Kept(Tail(s), S)
<1> DEFINE t == Tail(s)
<1> DEFINE first == IF s[1] \in S THEN <<s[1]>> ELSE <<>>
<1>1. /\ t \in Seq(X) /\ Len(s) = Len(t) + 1 /\ Len(t) \in Nat /\ s[1] \in X
      /\ \A n \in 1 .. Len(t) : s[n + 1] = t[n] /\ t[n] \in X
  BY HeadTailProperties, LenProperties, EmptySeq
<1> HIDE DEF t
<1>2. PICK f : Keeps(f, s, X, S)
  BY KeptLoop
<1>3. PICK g : Keeps(g, t, X, S)
  BY <1>1, KeptLoop
<1> DEFINE T == {n \in 0 .. Len(t) : f[n + 1] = first \o g[n]}
<1>4. first \in Seq(X)
  BY <1>1
<1> HIDE DEF first
<1>5. 0 \in T
  <2>1. f[1] = first
    <3>1. 1 \in 1 .. Len(s) /\ f[1 - 1] = <<>>
      BY <1>1, <1>2 DEF Keeps
    <3>2. Append(<<>>, s[1]) = <<s[1]>>
      BY <1>1
    <3>3. QED
      BY <1>2, <3>1, <3>2 DEF Keeps, first
  <2>2. first \o g[0] = first
    BY <1>3, <1>4, ConcatEmptySeq DEF Keeps
  <2>3. 0 \in 0 .. Len(t) /\ f[0 + 1] = first \o g[0]
    BY <1>1, <2>1, <2>2
  <2>4. QED
    BY <2>3
<1>6. ASSUME NEW n \in 1 .. Len(t), n - 1 \in T
      PROVE  n \in T
  <2>1. f[n] = first \o g[n - 1] /\ g[n - 1] \in Seq(X)
    <3>1. (n - 1) + 1 = n /\ n - 1 \in 0 .. Len(t)
      BY <1>1
    <3>2. QED
      BY <1>3, <1>6, <3>1 DEF Keeps
  <2>2. f[n + 1] = IF t[n] \in S THEN Append(f[n], t[n]) ELSE f[n]
    <3>1. n + 1 \in 1 .. Len(s) /\ (n + 1) - 1 = n /\ s[n + 1] = t[n]
      BY <1>1
    <3>2. QED
      BY <1>2, <3>1 DEF Keeps
  <2>3. t[n] \in X
    BY <1>1
  <2>4. Append(first \o g[n - 1], t[n]) = first \o Append(g[n - 1], t[n])
    <3>1. PICK u \in Seq(X) : u = g[n - 1]
      BY <2>1
    <3> DEFINE e == <<t[n]>>
    <3>2. e \in Seq(X)
      BY <2>3
    <3>3. first \o u \in Seq(X)
      BY <1>4, <3>1, ConcatProperties
    <3>4. Append(u, t[n]) = u \o e /\ Append(first \o u, t[n]) = (first \o u) \o e
      BY <2>3, <3>1, <3>3, AppendIsConcat
    <3> HIDE DEF e
    <3>5. (first \o u) \o e = first \o (u \o e)
      <4>1. u \in Seq(X)
        OBVIOUS
      <4>2. first \in Seq(X)
        BY <1>4
      <4>3. e \in Seq(X)
        BY <3>2
      <4>4. QED
        BY <4>1, <4>2, <4>3, Regroup
    <3>6. QED
      BY <3>1, <3>4, <3>5
  <2>5. f[n + 1] = first \o g[n]
    BY <1>3, <2>1, <2>2, <2>4 DEF Keeps
  <2>6. QED
    BY <1>1, <2>5
<1>7. \A n \in 0 .. Len(t) : n \in T
  <2> HIDE DEF T
  <2>1. QED
    BY <1>1, <1>5, <1>6, EveryPass
<1>8. f[Len(s)] = first \o g[Len(t)]
  BY <1>1, <1>7
<1>9. Kept(t, S) \in Seq(X)
  BY <1>1, <1>3 DEF Keeps
<1>10. <<>> \o Kept(t, S) = Kept(t, S)
  BY <1>9, ConcatEmptySeq
<1>11. QED
  BY <1>2, <1>3, <1>8, <1>10 DEF t, Keeps, first
=============================================================================
