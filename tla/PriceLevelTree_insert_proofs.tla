--------------------- MODULE PriceLevelTree_insert_proofs ---------------------
(***************************************************************************)
(* Proofs about the trees of price levels: rotations, heights, and what    *)
(* addLimit does.                                                          *)
(*                                                                         *)
(* The pointers are described by the span of each level, the interval of   *)
(* prices that a search brings to it (Tree).  Spans turn what a rotation,  *)
(* a splice or a successor does to a few levels into a statement about the *)
(* whole tree, and their width bounds every recursion.                     *)
(***************************************************************************)
EXTENDS PriceLevelTree, SumsAndSequences

-----------------------------------------------------------------------------
(* The fields of the heap.                                                 *)

\* What the proofs speak of: the two sides of a level, and a heap of the levels L.
Sides == {"left", "right"}
Heap(L) == [level : [L -> Node], root : Pointer, edge : Pointer]
\* Max of two numbers, without a set.
Max2(a, b) == IF a >= b THEN a ELSE b

\* updateLimitHeight takes the greater of two heights.
LEMMA MaxOfTwo ==
    ASSUME NEW a \in Int, NEW b \in Int
    PROVE  Max({a, b}) = Max2(a, b)
  BY DEF Max, Max2

\* What an assignment to one field of one level does to the heap: nothing else
\* changes.  Lemmas about a sequence of assignments compose these three.
SetsChild(h, k, L, p, s, v) ==
    /\ k \in Heap(L)
    /\ k.root = h.root /\ k.edge = h.edge
    /\ \A q \in L :
          /\ \A t \in Sides : k.level[q][t] = IF q = p /\ t = s THEN v ELSE h.level[q][t]
          /\ k.level[q].parent = h.level[q].parent
          /\ k.level[q].height = h.level[q].height

SetsParent(h, k, L, p, v) ==
    /\ k \in Heap(L)
    /\ k.root = h.root /\ k.edge = h.edge
    /\ \A q \in L :
          /\ \A t \in Sides : k.level[q][t] = h.level[q][t]
          /\ k.level[q].parent = IF q = p THEN v ELSE h.level[q].parent
          /\ k.level[q].height = h.level[q].height

SetsHeight(h, k, L, p, v) ==
    /\ k \in Heap(L)
    /\ k.root = h.root /\ k.edge = h.edge
    /\ \A q \in L :
          /\ \A t \in Sides : k.level[q][t] = h.level[q][t]
          /\ k.level[q].parent = h.level[q].parent
          /\ k.level[q].height = IF q = p THEN v ELSE h.level[q].height

\* An assignment to left or right.
LEMMA SetChild ==
    ASSUME NEW L \in SUBSET Prices, NEW h \in Heap(L), NEW p \in L, NEW s \in Sides, NEW v \in Pointer
    PROVE  SetsChild(h, [h EXCEPT !.level[p][s] = v], L, p, s, v)
  BY DEF Heap, Node, SetsChild, Sides

\* An assignment to parent.
LEMMA SetParent ==
    ASSUME NEW L \in SUBSET Prices, NEW h \in Heap(L), NEW p \in L, NEW v \in Pointer
    PROVE  SetsParent(h, [h EXCEPT !.level[p].parent = v], L, p, v)
  BY DEF Heap, Node, SetsParent, Sides

\* An assignment to height.
LEMMA SetHeight ==
    ASSUME NEW L \in SUBSET Prices, NEW h \in Heap(L), NEW p \in L, NEW v \in Nat \ {0}
    PROVE  SetsHeight(h, [h EXCEPT !.level[p].height = v], L, p, v)
  BY DEF Heap, Node, SetsHeight, Sides

\* The fields of a heap are of their types, and Null names no level.
LEMMA Pointers ==
    ASSUME NEW L \in SUBSET Prices, NEW h \in Heap(L)
    PROVE  /\ L \subseteq Pointer /\ Null \in Pointer /\ Null \notin L
           /\ L \subseteq Nat /\ Null = 0
           /\ h.root \in Pointer /\ h.edge \in Pointer
           /\ \A q \in L : /\ \A s \in Sides : h.level[q][s] \in Pointer
                           /\ h.level[q].left \in Pointer /\ h.level[q].right \in Pointer
                           /\ h.level[q].parent \in Pointer
                           /\ h.level[q].height \in Nat \ {0}
  BY MaxPriceIsNatural DEF Pointer, Sides, Heap, Node, Null, Prices

\* updateLimitHeight sets the height of one level, one above the higher child,
\* whichever child is named first.
LEMMA UpdateHeight ==
    ASSUME NEW L \in SUBSET Prices, NEW h \in Heap(L), NEW p \in L,
           h.level[p].left \in L \cup {Null}, h.level[p].right \in L \cup {Null}
    PROVE  /\ SetsHeight(h, updateLimitHeight(h, p), L, p,
                  1 + Max2(Height(h, h.level[p].left), Height(h, h.level[p].right)))
           /\ SetsHeight(h, updateLimitHeight(h, p), L, p,
                  1 + Max2(Height(h, h.level[p].right), Height(h, h.level[p].left)))
<1> DEFINE a == Height(h, h.level[p].left)
           b == Height(h, h.level[p].right)
<1>1. a \in Nat /\ b \in Nat
  BY Pointers DEF Height
<1>2. Max({a, b}) = Max2(a, b)
  BY <1>1, MaxOfTwo
<1>3. Max2(a, b) = Max2(b, a) /\ 1 + Max2(a, b) \in Nat \ {0}
  BY <1>1 DEF Max2
<1>4. updateLimitHeight(h, p) = [h EXCEPT !.level[p].height = 1 + Max2(a, b)]
  BY <1>2 DEF updateLimitHeight
<1> QED
  BY <1>3, <1>4, SetHeight

\* The links of a rotation, before the heights.
Turned(h, p, s, o, up, ac) ==
    [h EXCEPT !.level[p][s] = ac,
              !.level[p].parent = up,
              !.level[up][o] = p,
              !.level[up].parent = h.level[p].parent,
              !.root = IF h.level[p].parent = Null THEN up ELSE @]

\* What the links of a rotation come to, field by field.
TurnsTo(h, k, L, p, s, o, up, ac) ==
    /\ k \in Heap(L)
    /\ k.edge = h.edge
    /\ k.root = IF h.level[p].parent = Null THEN up ELSE h.root
    /\ \A q \in L :
        /\ k.level[q].parent = IF q = p THEN up
                               ELSE IF q = up THEN h.level[p].parent
                               ELSE h.level[q].parent
        /\ k.level[q][s] = IF q = p THEN ac ELSE h.level[q][s]
        /\ k.level[q][o] = IF q = up THEN p ELSE h.level[q][o]
        /\ k.level[q].height = h.level[q].height

\* The five assignments of rr_rotate and ll_rotate have that effect.
LEMMA TurnedFields ==
    ASSUME NEW L \in SUBSET Prices, NEW h \in Heap(L), NEW p \in L, NEW s \in Sides,
           NEW up \in L, up # p, NEW ac \in L \cup {Null},
           NEW o, o = Opposite(s)
    PROVE  TurnsTo(h, Turned(h, p, s, o, up, ac), L, p, s, o, up, ac)
<1> DEFINE above == h.level[p].parent
           h1 == [h EXCEPT !.level[p][s] = ac]
           h2 == [h1 EXCEPT !.level[p].parent = up]
           h3 == [h2 EXCEPT !.level[up][o] = p]
           h4 == [h3 EXCEPT !.level[up].parent = above]
           h5 == [h4 EXCEPT !.root = IF above = Null THEN up ELSE @]
<1>1. Turned(h, p, s, o, up, ac) = h5
  BY SMT DEF Turned
<1>2. L \subseteq Pointer /\ ac \in Pointer /\ o \in Sides /\ o # s /\ above \in Pointer
  BY Pointers DEF Sides, Opposite
<1> HIDE DEF above
<1>3. SetsChild(h, h1, L, p, s, ac)
  BY <1>2, SetChild
<1> HIDE DEF h1
<1>4. SetsParent(h1, h2, L, p, up)
  BY <1>2, <1>3, SetParent DEF SetsChild
<1> HIDE DEF h2
<1>5. SetsChild(h2, h3, L, up, o, p)
  BY <1>2, <1>4, SetChild DEF SetsParent
<1> HIDE DEF h3
<1>6. SetsParent(h3, h4, L, up, above)
  BY <1>2, <1>5, SetParent DEF SetsChild
<1> HIDE DEF h4
<1>7. /\ h5 \in Heap(L) /\ h5.edge = h4.edge /\ h5.level = h4.level
      /\ h5.root = IF above = Null THEN up ELSE h4.root
  BY <1>2, <1>6 DEF Heap, SetsParent
<1> HIDE DEF h5
<1>8. \A q \in L :
                   /\ h5.level[q].parent = IF q = p THEN up
                                               ELSE IF q = up THEN above
                                               ELSE h.level[q].parent
                   /\ h5.level[q][s] = IF q = p THEN ac ELSE h.level[q][s]
                   /\ h5.level[q][o] = IF q = up THEN p ELSE h.level[q][o]
                   /\ h5.level[q].height = h.level[q].height
  BY <1>2, <1>3, <1>4, <1>5, <1>6, <1>7 DEF SetsChild, SetsParent
<1> USE DEF above
<1> QED
  BY <1>1, <1>3, <1>4, <1>5, <1>6, <1>7, <1>8 DEF SetsChild, SetsParent, TurnsTo

\* The same of updateLimitHeight, with the children named by a side.
LEMMA UpdateHeightOfSides ==
    ASSUME NEW L \in SUBSET Prices, NEW h \in Heap(L), NEW p \in L, NEW s \in Sides,
           h.level[p][s] \in L \cup {Null}, h.level[p][Opposite(s)] \in L \cup {Null}
    PROVE  SetsHeight(h, updateLimitHeight(h, p), L, p,
                  1 + Max2(Height(h, h.level[p][s]), Height(h, h.level[p][Opposite(s)])))
<1>1. CASE s = "left"
  BY <1>1, UpdateHeight DEF Opposite
<1>2. CASE s = "right"
  BY <1>2, UpdateHeight DEF Opposite
<1> QED
  BY <1>1, <1>2 DEF Sides

\* A whole rotation, field by field: the links, the adopted child, two heights.
Rotated(h, k, L, p, s, up, ac) ==
    LET o == Opposite(s)
        above == h.level[p].parent
    IN  /\ k \in Heap(L)
        /\ k.edge = h.edge
        /\ k.root = IF above = Null THEN up ELSE h.root
        /\ \A q \in L :
              /\ k.level[q].parent = IF q = p THEN up
                                     ELSE IF q = up THEN above
                                     ELSE IF q = ac THEN p
                                     ELSE h.level[q].parent
              /\ k.level[q][s] = IF q = p THEN ac ELSE h.level[q][s]
              /\ k.level[q][o] = IF q = up THEN p ELSE h.level[q][o]
              /\ q \notin {p, up} => k.level[q].height = h.level[q].height
        /\ k.level[p].height = 1 + Max2(Height(h, ac), Height(h, h.level[p][o]))
        /\ k.level[up].height = 1 + Max2(Height(h, h.level[up][s]), k.level[p].height)

\* Rotate has that effect wherever the four levels involved are distinct.
LEMMA RotateFields ==
    ASSUME NEW L \in SUBSET Prices, NEW h \in Heap(L), NEW p \in L, NEW s \in Sides,
           NEW o, o = Opposite(s),
           NEW up \in L, up = h.level[p][s], up # p,
           NEW ac \in L \cup {Null}, ac = h.level[up][o], ac \notin {p, up},
           h.level[p][o] \in (L \cup {Null}) \ {p, up},
           h.level[up][s] \in (L \cup {Null}) \ {p, up}
    PROVE  Rotated(h, Rotate(h, p, s), L, p, s, up, ac)
<1> DEFINE above == h.level[p].parent
           turned == Turned(h, p, s, o, up, ac)
           k1 == Adopt(turned, ac, p)
           k2 == updateLimitHeight(k1, p)
           k3 == updateLimitHeight(k2, up)
<1>1. Rotate(h, p, s) = k3
  BY DEF Rotate, Turned
<1>2. o \in Sides /\ o # s /\ p \in Pointer /\ Null \notin L /\ s \in Sides /\ Opposite(o) = s
      /\ Sides = {s, o}
  BY Pointers DEF Sides, Opposite
<1>3. TurnsTo(h, turned, L, p, s, o, up, ac)
  BY TurnedFields
<1> HIDE DEF turned
<1>4. /\ k1 \in Heap(L)
      /\ k1.edge = h.edge
      /\ k1.root = IF above = Null THEN up ELSE h.root
      /\ \A q \in L :
          /\ k1.level[q].parent = IF q = p THEN up
                                      ELSE IF q = up THEN above
                                      ELSE IF q = ac THEN p
                                      ELSE h.level[q].parent
          /\ k1.level[q][s] = IF q = p THEN ac ELSE h.level[q][s]
          /\ k1.level[q][o] = IF q = up THEN p ELSE h.level[q][o]
          /\ k1.level[q].height = h.level[q].height
  <2>1. CASE ac = Null
    BY <1>2, <1>3, <2>1 DEF Adopt, TurnsTo
  <2>2. CASE ac \in L
    <3>1. turned \in Heap(L)
      BY <1>3 DEF TurnsTo
    <3>2. k1 = [turned EXCEPT !.level[ac].parent = p]
      BY <1>2, <2>2 DEF Adopt
    <3>3. SetsParent(turned, [turned EXCEPT !.level[ac].parent = p], L, ac, p)
      BY <1>2, <2>2, <3>1, SetParent
    <3> HIDE DEF k1
    <3>4. SetsParent(turned, k1, L, ac, p)
      BY <3>2, <3>3, Zenon
    <3> QED
      BY <1>2, <1>3, <2>2, <3>4 DEF SetsParent, TurnsTo
  <2> QED
    BY <2>1, <2>2
<1> HIDE DEF k1
<1>5. SetsHeight(k1, k2, L, p, 1 + Max2(Height(h, ac), Height(h, h.level[p][o])))
  <2>1. k1.level[p][s] = ac /\ k1.level[p][o] = h.level[p][o]
    BY <1>4
  <2>2. SetsHeight(k1, k2, L, p, 1 + Max2(Height(k1, k1.level[p][s]), Height(k1, k1.level[p][o])))
    BY <1>2, <1>4, <2>1, UpdateHeightOfSides
  <2>3. Height(k1, ac) = Height(h, ac) /\ Height(k1, h.level[p][o]) = Height(h, h.level[p][o])
    BY <1>4 DEF Height
  <2> QED
    BY <2>1, <2>2, <2>3
<1> HIDE DEF k2
<1>6. SetsHeight(k2, k3, L, up, 1 + Max2(Height(h, h.level[up][s]), k2.level[p].height))
  <2>1. k2.level[up][s] = h.level[up][s] /\ k2.level[up][o] = p
    BY <1>2, <1>4, <1>5 DEF SetsHeight
  <2>2. SetsHeight(k2, k3, L, up, 1 + Max2(Height(k2, k2.level[up][s]), Height(k2, k2.level[up][o])))
    <3>1. k2 \in Heap(L) /\ k2.level[up][s] \in L \cup {Null} /\ k2.level[up][o] \in L \cup {Null}
      BY <1>5, <2>1 DEF SetsHeight
    <3> QED
      BY <3>1, UpdateHeightOfSides
  <2>3. Height(k2, h.level[up][s]) = Height(h, h.level[up][s]) /\ Height(k2, p) = k2.level[p].height
    BY <1>2, <1>4, <1>5 DEF Height, SetsHeight
  <2> QED
    BY <2>1, <2>2, <2>3
<1> HIDE DEF k3
<1>7. Rotated(h, k3, L, p, s, up, ac)
  BY <1>2, <1>4, <1>5, <1>6 DEF Rotated, SetsHeight
<1> QED
  BY <1>1, <1>7

-----------------------------------------------------------------------------
(* Search trees.                                                           *)

\* A tree is described by the span of each level: the open interval of the prices
\* that a search from the root brings to it.  An order tree is one whose spans fit:
\* a child has the part of its parent's span on its side, an empty side has no
\* level in its part, and the root has everything.
Bound == 0..(MaxPrice + 1)
Spans(L) == [L -> [left : Bound, right : Bound]]
\* x is strictly between a and b, whichever is the smaller.
Between(x, a, b) == (a < x /\ x < b) \/ (b < x /\ x < a)
\* x is strictly inside a span.
Within(x, span) == span.left < x /\ x < span.right

\* A side of a level is empty, and no level belongs there, or leads to a level that
\* knows its parent and has its part of the span.
ChildLink(h, L, sp, q, s) ==
    LET c == h.level[q][s]
    IN  IF c = Null
        THEN \A x \in L : ~Between(x, q, sp[q][s])
        ELSE /\ c \in L
             /\ h.level[c].parent = q
             /\ sp[c][s] = sp[q][s]
             /\ sp[c][Opposite(s)] = q

\* A level without a parent is the root, and a parent knows its child.
ParentLink(h, L, q) ==
    LET a == h.level[q].parent
    IN  /\ a = Null <=> q = h.root
        /\ a # Null => a \in L /\ \E s \in Sides : h.level[a][s] = q

\* The root has the span of all prices, and is missing in an empty tree only.
RootLink(h, L, sp) ==
    IF h.root = Null
    THEN L = {}
    ELSE h.root \in L /\ sp[h.root].left = 0 /\ sp[h.root].right = MaxPrice + 1

\* The heap h is a search tree of the levels L, with the spans sp.
Tree(h, L, sp) ==
    /\ L \in SUBSET Prices
    /\ h \in Heap(L)
    /\ sp \in Spans(L)
    /\ \A q \in L : Within(q, sp[q])
    /\ \A q \in L, s \in Sides : ChildLink(h, L, sp, q, s)
    /\ \A q \in L : ParentLink(h, L, q)
    /\ RootLink(h, L, sp)

\* There are two sides, each the opposite of the other.
LEMMA SidesAreTwo ==
    /\ \A s \in Sides : Opposite(s) \in Sides /\ Opposite(s) # s /\ Opposite(Opposite(s)) = s
    /\ \A s \in Sides : Sides = {s, Opposite(s)}
    /\ Opposite("left") = "right" /\ Opposite("right") = "left"
    /\ "left" \in Sides /\ "right" \in Sides
  BY DEF Sides, Opposite

\* Bounds of spans are numbers.
LEMMA SpansAreIntegers ==
    ASSUME NEW L \in SUBSET Prices, NEW sp \in Spans(L)
    PROVE  /\ \A q \in L, s \in Sides : sp[q][s] \in Bound /\ sp[q][s] \in Int
           /\ \A q \in L : sp[q].left \in Int /\ sp[q].right \in Int /\ q \in Int
  BY MaxPriceIsNatural DEF Spans, Bound, Sides, Prices

\* A child is strictly between its parent and the bound on its side.
LEMMA ChildIsBetween ==
    ASSUME NEW L, NEW h, NEW sp, Tree(h, L, sp), NEW q \in L, NEW s \in Sides,
           h.level[q][s] # Null
    PROVE  LET c == h.level[q][s]
           IN  /\ c \in L /\ h.level[c].parent = q
               /\ sp[c][s] = sp[q][s] /\ sp[c][Opposite(s)] = q
               /\ Between(c, q, sp[q][s])
               /\ c # q
               /\ s = SideOf(c, q)
<1> DEFINE c == h.level[q][s]
<1>1. /\ c \in L /\ h.level[c].parent = q
      /\ sp[c][s] = sp[q][s] /\ sp[c][Opposite(s)] = q
      /\ Within(c, sp[c])
  BY DEF Tree, ChildLink
<1>2. L \in SUBSET Prices /\ sp \in Spans(L)
  BY DEF Tree
<1>3. Between(c, q, sp[q][s]) /\ c # q /\ s = SideOf(c, q)
  <2>1. /\ c \in Int /\ q \in Int /\ sp[q][s] \in Int
        /\ sp[c].left < c /\ c < sp[c].right /\ sp[c].left \in Int /\ sp[c].right \in Int
    BY <1>1, <1>2, SpansAreIntegers DEF Within
  <2> HIDE DEF c
  <2>2. CASE s = "left"
    BY <1>1, <2>1, <2>2, SidesAreTwo DEF Between, SideOf
  <2>3. CASE s = "right"
    BY <1>1, <2>1, <2>3, SidesAreTwo DEF Between, SideOf
  <2> QED
    BY <2>2, <2>3 DEF Sides
<1> QED
  BY <1>1, <1>3

\* A level hangs from the side its span is on, and the span of its parent
\* contains its own.
LEMMA ParentSlot ==
    ASSUME NEW L, NEW h, NEW sp, Tree(h, L, sp), NEW q \in L, NEW x \in Int,
           Within(x, sp[q]), h.level[q].parent # Null
    PROVE  LET a == h.level[q].parent
           IN  /\ a \in L /\ a # q
               /\ h.level[a][SideOf(x, a)] = q
               /\ SideOf(x, a) \in Sides
               /\ Within(x, sp[a])
<1> DEFINE a == h.level[q].parent
<1>1. a \in L
  BY DEF Tree, ParentLink
<1>2. PICK s \in Sides : h.level[a][s] = q
  BY DEF Tree, ParentLink
<1>3. L \in SUBSET Prices /\ sp \in Spans(L) /\ h \in Heap(L)
  BY DEF Tree
<1>4. q # Null
  BY <1>3, Pointers
<1>5. /\ sp[q][s] = sp[a][s] /\ sp[q][Opposite(s)] = a /\ a # q
      /\ Between(q, a, sp[a][s])
  BY <1>1, <1>2, <1>4, ChildIsBetween
<1>6. /\ sp[q].left < x /\ x < sp[q].right /\ sp[q].left \in Int /\ sp[q].right \in Int
      /\ sp[a].left < a /\ a < sp[a].right /\ sp[a].left \in Int /\ sp[a].right \in Int
      /\ a \in Int
  BY <1>1, <1>3, SpansAreIntegers DEF Within, Tree
<1> HIDE DEF a
<1>7. CASE s = "left"
  BY <1>1, <1>2, <1>5, <1>6, <1>7, SidesAreTwo DEF SideOf, Within, a
<1>8. CASE s = "right"
  BY <1>1, <1>2, <1>5, <1>6, <1>8, SidesAreTwo DEF SideOf, Within, a
<1> QED
  BY <1>7, <1>8 DEF Sides

-----------------------------------------------------------------------------
(* Rotations.                                                              *)

\* The way back: done.top goes to the slot of the level above in which x belongs.
Join(h, x, above, top) ==
    IF above = Null THEN h ELSE [h EXCEPT !.level[above][SideOf(x, above)] = top]

\* Around a rotation.
Site(h, L, p, s, up) ==
    LET o == Opposite(s)
        ac == h.level[up][o]
    IN  /\ up \in L /\ up # p /\ h.level[up].parent = p
        /\ ac \in L \cup {Null} /\ ac \notin {p, up}
        /\ ac # Null => h.level[ac].parent = up
        /\ h.level[p][o] \in (L \cup {Null}) \ {p, up}
        /\ h.level[up][s] \in (L \cup {Null}) \ {p, up}
        /\ h.level[p].parent \in (L \cup {Null}) \ {p, up}

\* The levels around a rotation of a tree are distinct, as RotateFields wants them.
LEMMA RotationSite ==
    ASSUME NEW L, NEW h, NEW sp, Tree(h, L, sp), NEW p \in L, NEW s \in Sides,
           h.level[p][s] # Null
    PROVE  Site(h, L, p, s, h.level[p][s])
<1> DEFINE o == Opposite(s)
           up == h.level[p][s]
           ac == h.level[up][o]
<1>1. L \in SUBSET Prices /\ sp \in Spans(L) /\ h \in Heap(L)
  BY DEF Tree
<1>2. o \in Sides /\ o # s /\ Opposite(o) = s
  BY SidesAreTwo
<1>3. Null \notin L
  BY <1>1, Pointers
<1>4. /\ up \in L /\ up # p /\ h.level[up].parent = p
      /\ sp[up][s] = sp[p][s] /\ sp[up][o] = p
      /\ Between(up, p, sp[p][s])
  BY ChildIsBetween
<1>5. \A q \in L, t \in Sides : h.level[q][t] # Null =>
          h.level[q][t] \in L /\ h.level[h.level[q][t]].parent = q
            /\ Between(h.level[q][t], q, sp[q][t]) /\ t = SideOf(h.level[q][t], q)
  BY ChildIsBetween
<1> HIDE DEF up, o
<1>6. ac # Null => Between(ac, up, p)
  BY <1>2, <1>4, <1>5
<1>7. ac # p
  <2>1. \A y \in Int : ~Between(p, y, p)
    BY <1>1, SpansAreIntegers DEF Between
  <2> QED
    BY <1>1, <1>3, <1>4, <1>6, <2>1, SpansAreIntegers
<1>8. h.level[p].parent \in L \cup {Null} /\ h.level[p].parent # p
  <2>1. h.level[p].parent # Null => h.level[p].parent \in L
    BY DEF Tree, ParentLink
  <2>2. h.level[p].parent # p
    <3> SUFFICES ASSUME h.level[p].parent = p PROVE FALSE
      OBVIOUS
    <3>1. PICK t \in Sides : h.level[p][t] = p
      BY <1>3 DEF Tree, ParentLink
    <3> QED
      BY <1>3, <3>1, ChildIsBetween
  <2> QED
    BY <2>1, <2>2
<1>9. h.level[p].parent # up
  <2> SUFFICES ASSUME h.level[p].parent = up PROVE FALSE
    OBVIOUS
  <2>1. PICK t \in Sides : h.level[up][t] = p
    BY <1>3, <1>4 DEF Tree, ParentLink
  <2>2. t = s
    BY <1>2, <1>7, <2>1, SidesAreTwo
  <2>3. Between(p, up, sp[p][s])
    BY <1>3, <1>4, <1>5, <2>1, <2>2
  <2> QED
    BY <1>1, <1>4, <2>3, SpansAreIntegers DEF Between
<1>10. h.level[p][o] \in (L \cup {Null}) \ {p, up}
  BY <1>2, <1>3, <1>4, <1>5, <1>8 DEF up
<1>11. h.level[up][s] \in (L \cup {Null}) \ {p, up}
  BY <1>3, <1>4, <1>5, <1>9
<1>12. ac \in L \cup {Null} /\ ac # up /\ (ac # Null => h.level[ac].parent = up)
  BY <1>2, <1>3, <1>4, <1>5
<1> QED
  BY <1>4, <1>7, <1>8, <1>9, <1>10, <1>11, <1>12 DEF up, o, Site

\* The links and heights after a rotation, when the parent has its new child.
Turns(h, k, L, p, s, up, ac, t) ==
    LET o == Opposite(s)
        above == h.level[p].parent
    IN  /\ k \in Heap(L)
        /\ k.edge = h.edge
        /\ k.root = IF above = Null THEN up ELSE h.root
        /\ \A q \in L :
              /\ k.level[q].parent = IF q = p THEN up
                                     ELSE IF q = up THEN above
                                     ELSE IF q = ac THEN p
                                     ELSE h.level[q].parent
              /\ k.level[q][s] = IF q = p THEN ac
                                 ELSE IF q = above /\ s = t THEN up
                                 ELSE h.level[q][s]
              /\ k.level[q][o] = IF q = up THEN p
                                 ELSE IF q = above /\ o = t THEN up
                                 ELSE h.level[q][o]
              /\ q \notin {p, up} => k.level[q].height = h.level[q].height
        /\ k.level[p].height = 1 + Max2(Height(h, ac), Height(h, h.level[p][o]))
        /\ k.level[up].height = 1 + Max2(Height(h, h.level[up][s]), k.level[p].height)

\* A rotation, with the link from above, turns the links around it.
LEMMA RotateAndJoin ==
    ASSUME NEW L, NEW h, NEW sp, Tree(h, L, sp), NEW p \in L, NEW s \in Sides,
           h.level[p][s] # Null, NEW x \in Int, Within(x, sp[p])
    PROVE  LET up == h.level[p][s]
               above == h.level[p].parent
           IN  Turns(h, Join(Rotate(h, p, s), x, above, up), L, p, s, up,
                     h.level[up][Opposite(s)], SideOf(x, above))
<1> DEFINE up == h.level[p][s]
           above == h.level[p].parent
           ac == h.level[up][Opposite(s)]
           k0 == Rotate(h, p, s)
           t == SideOf(x, above)
           k == Join(k0, x, above, up)
<1>1. L \in SUBSET Prices /\ sp \in Spans(L) /\ h \in Heap(L)
  BY DEF Tree
<1>2. Opposite(s) \in Sides /\ Opposite(s) # s
  BY SidesAreTwo
<1>3. /\ up \in L /\ up # p /\ h.level[up].parent = p
      /\ ac \in L \cup {Null} /\ ac \notin {p, up}
      /\ h.level[p][Opposite(s)] \in (L \cup {Null}) \ {p, up}
      /\ h.level[up][s] \in (L \cup {Null}) \ {p, up}
      /\ above \in (L \cup {Null}) \ {p, up}
  <2>1. Site(h, L, p, s, up)
    BY RotationSite
  <2> QED
    BY <2>1 DEF Site
<1>4. Rotated(h, k0, L, p, s, up, ac)
  BY <1>1, <1>3, RotateFields
<1>5. CASE above = Null
  <2>1. k = k0 /\ above \notin L
    BY <1>1, <1>5, Pointers DEF Join
  <2> HIDE DEF k0, k, t, up, above, ac
  <2>2. Turns(h, k, L, p, s, up, ac, t)
    BY <1>4, <1>5, <2>1 DEF Rotated, Turns, above
  <2> QED
    BY <2>2 DEF k, t, above, up, ac, k0
<1>6. CASE above # Null
  <2>1. k = [k0 EXCEPT !.level[above][t] = up]
    BY <1>6 DEF Join
  <2>2. above \in L /\ t \in Sides /\ up \in Pointer /\ k0 \in Heap(L)
    BY <1>1, <1>3, <1>4, <1>6, Pointers DEF Rotated, SideOf, Sides
  <2> HIDE DEF k0, k, t, up, above, ac
  <2>3. SetsChild(k0, [k0 EXCEPT !.level[above][t] = up], L, above, t, up)
    BY <1>1, <2>2, SetChild
  <2>4. SetsChild(k0, k, L, above, t, up)
    BY <2>1, <2>3, Zenon
  <2>5. Turns(h, k, L, p, s, up, ac, t)
    BY <1>2, <1>3, <1>4, <1>6, <2>2, <2>4 DEF SetsChild, Rotated, Turns, above
  <2> QED
    BY <2>5 DEF k, t, above, up, ac, k0
<1> QED
  BY <1>5, <1>6

\* The spans after a rotation: up has that of p, and p has what is beyond up.
TurnedSpans(sp, p, up, s) == [sp EXCEPT ![p] = [@ EXCEPT ![s] = up], ![up] = sp[p]]

\* The same, field by field.
SpansTurn(sp, sq, L, p, up, s) ==
    /\ sq \in Spans(L)
    /\ \A q \in L \ {p, up} : sq[q] = sp[q]
    /\ sq[up] = sp[p]
    /\ sq[p][s] = up
    /\ sq[p][Opposite(s)] = sp[p][Opposite(s)]

\* TurnedSpans has these fields.
LEMMA TurnedSpansFields ==
    ASSUME NEW L \in SUBSET Prices, NEW sp \in Spans(L), NEW p \in L, NEW up \in L, p # up,
           NEW s \in Sides
    PROVE  SpansTurn(sp, TurnedSpans(sp, p, up, s), L, p, up, s)
<1>1. up \in Bound
  BY MaxPriceIsNatural DEF Prices, Bound
<1> QED
  BY <1>1 DEF TurnedSpans, SpansTurn, Spans, Sides, Opposite

\* A rotation keeps the search tree, once the parent has its new child.
LEMMA RotationKeepsTree ==
    ASSUME NEW L, NEW h, NEW sp, Tree(h, L, sp), NEW p \in L, NEW s \in Sides,
           NEW up, up = h.level[p][s], up # Null, NEW x \in Int, Within(x, sp[p]),
           NEW k, Turns(h, k, L, p, s, up, h.level[up][Opposite(s)], SideOf(x, h.level[p].parent))
    PROVE  Tree(k, L, TurnedSpans(sp, p, up, s))
<1> DEFINE o == Opposite(s)
           ac == h.level[up][o]
           above == h.level[p].parent
           t == SideOf(x, above)
           sq == TurnedSpans(sp, p, up, s)
<1>1. L \in SUBSET Prices /\ sp \in Spans(L) /\ h \in Heap(L)
  BY DEF Tree
<1>2. o \in Sides /\ o # s /\ Opposite(o) = s /\ Sides = {s, o}
  BY SidesAreTwo
<1>3. /\ up \in L /\ up # p /\ h.level[up].parent = p
      /\ ac \in L \cup {Null} /\ ac \notin {p, up}
      /\ ac # Null => h.level[ac].parent = up
      /\ h.level[p][o] \in (L \cup {Null}) \ {p, up}
      /\ h.level[up][s] \in (L \cup {Null}) \ {p, up}
      /\ above \in (L \cup {Null}) \ {p, up}
  <2>1. Site(h, L, p, s, up)
    BY RotationSite
  <2> QED
    BY <2>1 DEF Site
<1>4. above # Null => above \in L /\ h.level[above][t] = p /\ t \in Sides
  BY ParentSlot
<1>5. /\ sq \in Spans(L)
      /\ \A q \in L \ {p, up} : sq[q] = sp[q]
      /\ sq[up] = sp[p] /\ sq[p][s] = up /\ sq[p][o] = sp[p][o]
  <2>1. SpansTurn(sp, sq, L, p, up, s)
    BY <1>1, <1>3, TurnedSpansFields
  <2> QED
    BY <2>1 DEF SpansTurn
<1>6. Null \notin L
  BY <1>1, Pointers
<1>7. \A q \in L, u \in Sides : ChildLink(h, L, sp, q, u)
  BY DEF Tree
<1>8. \A q \in L : ParentLink(h, L, q)
  BY DEF Tree
<1>9. \A q \in L : Within(q, sp[q])
  BY DEF Tree
<1>10. RootLink(h, L, sp)
  BY DEF Tree
<1>11. Between(up, p, sp[p][s])
  BY ChildIsBetween
<1> HIDE DEF o, ac, above, t, sq
<1>12. Turns(h, k, L, p, s, up, ac, t)
  BY DEF o, ac, above, t
<1>20. /\ k \in Heap(L) /\ k.root = IF above = Null THEN up ELSE h.root
       /\ \A q \in L : q \notin {p, up, ac} => k.level[q].parent = h.level[q].parent
       /\ k.level[p].parent = up /\ k.level[up].parent = above
       /\ ac # Null => k.level[ac].parent = p
       /\ k.level[p][s] = ac /\ k.level[up][o] = p
       /\ above # Null => k.level[above][t] = up
  BY <1>2, <1>3, <1>4, <1>6, <1>12 DEF Turns, above, o
<1>21. \A q \in L : q # p /\ ~(q = above /\ s = t) => k.level[q][s] = h.level[q][s]
  BY <1>12 DEF Turns, above
<1>22. \A q \in L : q # up /\ ~(q = above /\ o = t) => k.level[q][o] = h.level[q][o]
  BY <1>12 DEF Turns, above, o
<1>13. \A q \in L : Within(q, sq[q])
  <2>1. \A q \in L \ {p, up} : Within(q, sq[q])
    BY <1>5, <1>9
  <2>2. Within(up, sp[p]) /\ Within(p, sq[p])
    <3>1. \A q \in L : sp[q].left < q /\ q < sp[q].right /\ sp[q].left \in Int /\ sp[q].right \in Int /\ q \in Int
      BY <1>1, <1>9, SpansAreIntegers DEF Within
    <3>2. CASE s = "left"
      BY <1>2, <1>3, <1>5, <1>11, <3>1, <3>2, SidesAreTwo DEF Between, Within, o
    <3>3. CASE s = "right"
      BY <1>2, <1>3, <1>5, <1>11, <3>1, <3>3, SidesAreTwo DEF Between, Within, o
    <3> QED
      BY <3>2, <3>3 DEF Sides
  <2> QED
    BY <1>5, <2>1, <2>2
<1>14. ASSUME NEW q \in L PROVE ChildLink(k, L, sq, q, s)
  <2>1. CASE q = p
    <3>1. ac # Null => /\ sp[ac][o] = sp[up][o] /\ sp[ac][s] = up
      BY <1>2, <1>3, <1>7 DEF ChildLink, ac
    <3>2. sp[up][o] = p /\ sp[up][s] = sp[p][s]
      BY <1>2, <1>3, <1>7, <1>6 DEF ChildLink, o
    <3>3. ac = Null => \A y \in L : ~Between(y, up, p)
      BY <1>2, <1>3, <1>7, <3>2 DEF ChildLink, ac
    <3>4. ac = Null => \A y \in L : ~Between(y, p, up)
      BY <3>3 DEF Between
    <3>5. k.level[p][s] = ac /\ (ac # Null => k.level[ac].parent = p)
      BY <1>3, <1>6, <1>12 DEF Turns
    <3> QED
      BY <1>2, <1>3, <1>5, <2>1, <3>1, <3>2, <3>4, <3>5 DEF ChildLink, o
  <2>2. CASE q = up
    <3>1. k.level[up][s] = h.level[up][s]
      BY <1>3, <1>6, <1>12 DEF Turns, above
    <3>2. sp[up][o] = p /\ sp[up][s] = sp[p][s]
      BY <1>2, <1>3, <1>7, <1>6 DEF ChildLink, o
    <3>3. ChildLink(h, L, sp, up, s)
      BY <1>3, <1>7
    <3>4. h.level[up][s] # Null => h.level[up][s] # ac
      <4>1. \A u \in Sides : h.level[up][u] # Null => u = SideOf(h.level[up][u], up)
        BY <1>3, ChildIsBetween
      <4> QED
        BY <1>2, <4>1 DEF ac
    <3>5. h.level[up][s] # Null => k.level[h.level[up][s]].parent = up
      BY <1>3, <1>20, <3>3, <3>4 DEF ChildLink
    <3>6. CASE h.level[up][s] = Null
      BY <1>5, <2>2, <3>1, <3>2, <3>3, <3>6 DEF ChildLink
    <3>7. CASE h.level[up][s] # Null
      <4> DEFINE c == h.level[up][s]
      <4>1. c \in L /\ sp[c][s] = sp[up][s] /\ sp[c][o] = up
        BY <3>3, <3>7 DEF ChildLink, o
      <4>2. sq[c] = sp[c]
        BY <1>3, <1>5, <4>1
      <4> HIDE DEF c
      <4>3. k.level[up][s] = c /\ k.level[c].parent = up
        BY <3>1, <3>5, <3>7 DEF c
      <4>4. c # Null
        BY <3>7 DEF c
      <4> QED
        BY <1>5, <2>2, <3>2, <4>1, <4>2, <4>3, <4>4 DEF ChildLink, o
    <3> QED
      BY <3>6, <3>7
  <2>3. CASE q \notin {p, up} /\ q = above /\ s = t
    <3>1. k.level[q][s] = up /\ k.level[up].parent = q
      BY <1>3, <2>3, <1>12 DEF Turns, above
    <3>2. sp[p][s] = sp[q][s] /\ sp[p][o] = q
      BY <1>4, <1>6, <1>7, <2>3 DEF ChildLink, o
    <3> QED
      BY <1>3, <1>5, <1>6, <2>3, <3>1, <3>2 DEF ChildLink, o
  <2>4. CASE q \notin {p, up} /\ ~(q = above /\ s = t)
    <3>1. k.level[q][s] = h.level[q][s]
      BY <1>12, <2>4 DEF Turns, above
    <3>2. ChildLink(h, L, sp, q, s)
      BY <1>7
    <3>3. h.level[q][s] \notin {p, up}
      <4>1. h.level[q][s] # up
        BY <1>3, <1>6, <2>4, <3>2 DEF ChildLink
      <4>2. ASSUME h.level[q][s] = p PROVE FALSE
        <5>1. q = above
          BY <1>6, <3>2, <4>2 DEF ChildLink, above
        <5>2. h.level[above][t] = p /\ t \in Sides /\ t # s
          BY <1>4, <1>6, <2>4, <5>1
        <5> QED
          BY <4>2, <5>1, <5>2, <1>6, ChildIsBetween
      <4> QED
        BY <4>1, <4>2
    <3>4. h.level[q][s] # Null => h.level[q][s] # ac
      BY <1>3, <1>6, <2>4, <3>2 DEF ChildLink
    <3> QED
      BY <1>2, <1>3, <1>5, <1>6, <1>20, <2>4, <3>1, <3>2, <3>3, <3>4 DEF ChildLink
  <2> QED
    BY <2>1, <2>2, <2>3, <2>4
<1>15. ASSUME NEW q \in L PROVE ChildLink(k, L, sq, q, o)
  <2>1. CASE q = up
    <3>1. k.level[up][o] = p /\ k.level[p].parent = up
      BY <1>2, <1>3, <1>12 DEF Turns, o
    <3> QED
      BY <1>2, <1>3, <1>5, <1>6, <2>1, <3>1 DEF ChildLink
  <2>2. CASE q # up /\ q = above /\ o = t
    <3>1. k.level[q][o] = up /\ k.level[up].parent = q
      BY <1>2, <1>3, <2>2, <1>12 DEF Turns, above, o
    <3>2. sp[p][o] = sp[q][o] /\ sp[p][s] = q
      BY <1>2, <1>4, <1>6, <1>7, <2>2 DEF ChildLink
    <3> QED
      BY <1>2, <1>3, <1>5, <1>6, <2>2, <3>1, <3>2 DEF ChildLink
  <2>3. CASE q # up /\ ~(q = above /\ o = t)
    <3>1. k.level[q][o] = h.level[q][o]
      BY <1>12, <2>3 DEF Turns, above, o
    <3>2. ChildLink(h, L, sp, q, o)
      BY <1>2, <1>7
    <3>3. h.level[q][o] \notin {p, up}
      <4>1. h.level[q][o] # up
        BY <1>3, <1>6, <2>3, <3>2 DEF ChildLink
      <4>2. ASSUME h.level[q][o] = p PROVE FALSE
        <5>1. q = above
          BY <1>6, <3>2, <4>2 DEF ChildLink, above
        <5>2. h.level[above][t] = p /\ t \in Sides /\ t # o
          BY <1>4, <1>6, <2>3, <5>1
        <5> QED
          BY <1>2, <4>2, <5>1, <5>2, <1>6, ChildIsBetween
      <4> QED
        BY <4>1, <4>2
    <3>4. h.level[q][o] # Null => h.level[q][o] # ac
      BY <1>3, <1>6, <2>3, <3>2 DEF ChildLink
    <3> QED
      BY <1>2, <1>3, <1>5, <1>6, <1>20, <2>3, <3>1, <3>2, <3>3, <3>4 DEF ChildLink
  <2> QED
    BY <2>1, <2>2, <2>3
<1>16. ASSUME NEW q \in L PROVE ParentLink(k, L, q)
  <2>1. CASE q = p
    <3>1. p # k.root
      BY <1>3, <1>8, <1>20 DEF ParentLink, above
    <3> QED
      BY <1>2, <1>3, <1>6, <1>20, <2>1, <3>1 DEF ParentLink
  <2>2. CASE q = up
    <3>1. above = Null <=> up = k.root
      BY <1>3, <1>6, <1>8, <1>20 DEF ParentLink
    <3> QED
      BY <1>4, <1>20, <2>2, <3>1 DEF ParentLink
  <2>3. CASE q = ac
    <3>1. ac # k.root
      BY <1>3, <1>6, <1>8, <1>20, <2>3 DEF ParentLink
    <3> QED
      BY <1>6, <1>20, <2>3, <3>1 DEF ParentLink
  <2>4. CASE q \notin {p, up, ac}
    <3>1. k.level[q].parent = h.level[q].parent
      BY <1>20, <2>4
    <3>2. h.level[q].parent = Null <=> q = k.root
      BY <1>8, <1>20, <2>4 DEF ParentLink, above
    <3>3. ASSUME h.level[q].parent # Null
          PROVE  h.level[q].parent \in L /\ \E u \in Sides : k.level[h.level[q].parent][u] = q
      <4>1. h.level[q].parent \in L
        BY <1>8, <3>3 DEF ParentLink
      <4>2. PICK u \in Sides : h.level[h.level[q].parent][u] = q
        BY <1>8, <3>3 DEF ParentLink
      <4>3. k.level[h.level[q].parent][u] = q
        <5>1. CASE u = s
          BY <1>4, <1>6, <1>20, <1>21, <2>4, <4>1, <4>2, <5>1
        <5>2. CASE u = o
          BY <1>4, <1>6, <1>20, <1>22, <2>4, <4>1, <4>2, <5>2 DEF ac
        <5> QED
          BY <1>2, <5>1, <5>2
      <4> QED
        BY <4>1, <4>2, <4>3
    <3> QED
      BY <3>1, <3>2, <3>3 DEF ParentLink
  <2> QED
    BY <2>1, <2>2, <2>3, <2>4
<1>17. RootLink(k, L, sq)
  <2>1. k.root = IF above = Null THEN up ELSE h.root
    BY <1>12 DEF Turns, above
  <2>2. above = Null <=> p = h.root
    BY <1>8 DEF ParentLink, above
  <2>3. h.root # up
    BY <1>3, <1>6, <1>8 DEF ParentLink
  <2> QED
    BY <1>3, <1>5, <1>6, <1>10, <2>1, <2>2, <2>3 DEF RootLink
<1>18. \A q \in L, u \in Sides : ChildLink(k, L, sq, q, u)
  BY <1>2, <1>14, <1>15
<1> QED
  BY <1>1, <1>5, <1>12, <1>13, <1>16, <1>17, <1>18 DEF Tree, Turns, sq

-----------------------------------------------------------------------------
(* Rebuilt subtrees.                                                       *)

\* A subtree is a tree again: from h to k the span of a has gone to top, and
\* nothing outside of that span has changed its span or its parent.
Rebuilt(h, k, L, sp, sq, a, top) ==
    /\ Tree(k, L, sq)
    /\ k.edge = h.edge
    /\ top \in L
    /\ sq[top] = sp[a]
    /\ k.level[top].parent = h.level[a].parent
    /\ \A q \in L : ~Within(q, sp[a]) =>
          sq[q] = sp[q] /\ k.level[q].parent = h.level[q].parent

\* The child of a level, and what hangs from it, is in the span of the level.
LEMMA ChildIsWithin ==
    ASSUME NEW L, NEW h, NEW sp, Tree(h, L, sp), NEW p \in L, NEW s \in Sides,
           h.level[p][s] # Null, NEW x \in Int, Within(x, sp[h.level[p][s]])
    PROVE  Within(x, sp[p]) /\ h.level[p][s] \in L
<1> DEFINE c == h.level[p][s]
<1>1. /\ c \in L /\ sp[c][s] = sp[p][s] /\ sp[c][Opposite(s)] = p
  BY ChildIsBetween
<1>2. L \in SUBSET Prices /\ sp \in Spans(L) /\ \A q \in L : Within(q, sp[q])
  BY DEF Tree
<1> HIDE DEF c
<1>3. /\ sp[p].left < p /\ p < sp[p].right /\ sp[p].left \in Int /\ sp[p].right \in Int /\ p \in Int
      /\ sp[c].left < x /\ x < sp[c].right /\ sp[c].left \in Int /\ sp[c].right \in Int
  BY <1>1, <1>2, SpansAreIntegers DEF Within, c
<1>4. s = "left" => Within(x, sp[p])
  BY <1>1, <1>3, SidesAreTwo DEF Within
<1>5. s = "right" => Within(x, sp[p])
  BY <1>1, <1>3, SidesAreTwo DEF Within
<1> QED
  BY <1>1, <1>4, <1>5 DEF Sides, c

\* Levels are prices, each inside its own span.
LEMMA LevelsAreIntegers ==
    ASSUME NEW L, NEW h, NEW sp, Tree(h, L, sp)
    PROVE  /\ L \subseteq Int /\ Null \notin L
           /\ \A q \in L : Within(q, sp[q])
  BY Pointers DEF Tree, Prices

\* What a rotation comes to, as a rebuilt subtree.
RotatesTo(h, k, L, sp, p, s, up, t) ==
    LET ac == h.level[up][Opposite(s)]
    IN  /\ Rotate(h, p, s) \in Heap(L)
        /\ Rebuilt(h, k, L, sp, TurnedSpans(sp, p, up, s), p, up)
        /\ Turns(h, k, L, p, s, up, ac, t)
        /\ Within(p, sp[p]) /\ Within(up, sp[p])
        /\ ac # Null => ac \in L /\ Within(ac, sp[p])

\* A rotation with its link from above rebuilds the subtree of p.
LEMMA RotationRebuilds ==
    ASSUME NEW L, NEW h, NEW sp, Tree(h, L, sp), NEW p \in L, NEW s \in Sides,
           h.level[p][s] # Null, NEW x \in Int, Within(x, sp[p])
    PROVE  RotatesTo(h, Join(Rotate(h, p, s), x, h.level[p].parent, h.level[p][s]),
                     L, sp, p, s, h.level[p][s], SideOf(x, h.level[p].parent))
<1> DEFINE up == h.level[p][s]
           above == h.level[p].parent
           k == Join(Rotate(h, p, s), x, above, up)
           ac == h.level[up][Opposite(s)]
           t == SideOf(x, above)
           sq == TurnedSpans(sp, p, up, s)
<1>1. Turns(h, k, L, p, s, up, ac, t)
  BY RotateAndJoin
<1>2. Tree(k, L, sq)
  BY <1>1, RotationKeepsTree
<1>3. Site(h, L, p, s, up)
  BY RotationSite
<1>4. SpansTurn(sp, sq, L, p, up, s)
  BY <1>3, TurnedSpansFields DEF Site, Tree
<1>11. Rotate(h, p, s) \in Heap(L)
  <2>1. Rotated(h, Rotate(h, p, s), L, p, s, up, ac)
    BY <1>3, RotateFields DEF Site, Tree
  <2> QED
    BY <2>1 DEF Rotated
<1>5. Opposite(s) \in Sides
  BY SidesAreTwo
<1>6. Within(p, sp[p]) /\ Within(up, sp[p])
  BY <1>3, LevelsAreIntegers, ChildIsWithin DEF Site
<1>7. ac # Null => ac \in L /\ Within(ac, sp[p])
  <2>1. ac # Null => ac \in L /\ Within(ac, sp[up])
    BY <1>3, <1>5, LevelsAreIntegers, ChildIsWithin DEF Site
  <2> QED
    BY <2>1, LevelsAreIntegers, ChildIsWithin
<1> HIDE DEF up, k, ac, t, sq, above
<1>8. ASSUME NEW q \in L, ~Within(q, sp[p])
      PROVE  sq[q] = sp[q] /\ k.level[q].parent = h.level[q].parent
  <2>1. q \notin {p, up, ac}
    BY <1>6, <1>7, <1>8, LevelsAreIntegers
  <2> QED
    BY <1>1, <1>4, <2>1 DEF Turns, SpansTurn
<1>9. up \in L /\ sq[up] = sp[p] /\ k.level[up].parent = above /\ k.edge = h.edge
  BY <1>1, <1>3, <1>4 DEF Turns, SpansTurn, Site, above
<1>10. Rebuilt(h, k, L, sp, sq, p, up)
  BY <1>2, <1>8, <1>9 DEF Rebuilt, above
<1> QED
  BY <1>1, <1>6, <1>7, <1>10, <1>11 DEF up, k, ac, t, sq, above, RotatesTo

\* The first rotation of two, with the child's new top below p.
FirstTurn(h, k, L, sp, sq, p, s, up) ==
    LET o == Opposite(s)
        child == h.level[p][s]
    IN  /\ Rebuilt(h, k, L, sp, sq, child, up)
        /\ Turns(h, k, L, child, o, up, h.level[up][Opposite(o)], s)
        /\ child \in L /\ child # Null /\ h.level[child].parent = p
        /\ sq[p] = sp[p] /\ k.level[p].parent = h.level[p].parent
        /\ k.level[p][s] = up
        /\ RotateTwice(h, p, s) = Rotate(k, p, s)

\* The first of the two rotations of lr_rotate and rl_rotate, with the assignment
\* to the child of p that follows it, rebuilds the subtree below p.
LEMMA FirstTurnOfTwo ==
    ASSUME NEW L, NEW h, NEW sp, Tree(h, L, sp), NEW p \in L, NEW s \in Sides,
           h.level[p][s] # Null, h.level[h.level[p][s]][Opposite(s)] # Null
    PROVE  \E k, sq : FirstTurn(h, k, L, sp, sq, p, s, h.level[h.level[p][s]][Opposite(s)])
<1> DEFINE o == Opposite(s)
           child == h.level[p][s]
           up == h.level[child][o]
           h1 == Join(Rotate(h, child, o), child, p, up)
           s1 == TurnedSpans(sp, child, up, o)
<1>1. /\ child \in L /\ h.level[child].parent = p /\ s = SideOf(child, p)
      /\ sp[child][o] = p
  BY ChildIsBetween
<1>2. o \in Sides
  BY SidesAreTwo
<1>3. Within(child, sp[child]) /\ child \in Int /\ Null \notin L
  BY <1>1, LevelsAreIntegers
<1>4. /\ Rebuilt(h, h1, L, sp, s1, child, up)
      /\ Turns(h, h1, L, child, o, up, h.level[up][Opposite(o)], s)
      /\ Within(up, sp[child]) /\ Within(child, sp[child])
  <2>1. RotatesTo(h, Join(Rotate(h, child, o), child, h.level[child].parent, up),
                  L, sp, child, o, up, SideOf(child, h.level[child].parent))
    BY <1>1, <1>2, <1>3, RotationRebuilds
  <2> QED
    BY <1>1, <2>1 DEF RotatesTo
<1>5. ~Within(p, sp[child])
  <2>1. sp[child].left = p \/ sp[child].right = p
    BY <1>1, <1>2 DEF Sides
  <2> QED
    BY <2>1, LevelsAreIntegers DEF Within
<1>6. s1[p] = sp[p] /\ h1.level[p].parent = h.level[p].parent
  BY <1>4, <1>5 DEF Rebuilt
<1>7. h1.level[p][s] = up
  <2>1. Opposite(o) = s /\ p # up
    BY <1>4, <1>5, SidesAreTwo
  <2> HIDE DEF up, h1, child, o
  <2> QED
    BY <1>1, <1>4, <2>1 DEF Turns
<1>8. RotateTwice(h, p, s) = Rotate(h1, p, s)
  BY <1>1, <1>3 DEF RotateTwice, Join
<1> HIDE DEF h1, s1, up, child, o
<1>9. FirstTurn(h, h1, L, sp, s1, p, s, up)
  BY <1>1, <1>3, <1>4, <1>6, <1>7, <1>8 DEF FirstTurn, child, o
<1> QED
  BY <1>9 DEF up, child, o

\* lr_rotate and rl_rotate rebuild the subtree of p.
LEMMA DoubleRotationRebuilds ==
    ASSUME NEW L, NEW h, NEW sp, Tree(h, L, sp), NEW p \in L, NEW s \in Sides,
           h.level[p][s] # Null, h.level[h.level[p][s]][Opposite(s)] # Null,
           NEW x \in Int, Within(x, sp[p])
    PROVE  LET up == h.level[h.level[p][s]][Opposite(s)]
               k == Join(RotateTwice(h, p, s), x, h.level[p].parent, up)
           IN  /\ RotateTwice(h, p, s) \in Heap(L)
               /\ \E sq : Rebuilt(h, k, L, sp, sq, p, up)
<1> DEFINE o == Opposite(s)
           child == h.level[p][s]
           up == h.level[child][o]
           k == Join(RotateTwice(h, p, s), x, h.level[p].parent, up)
<1>1. PICK h1, s1 : FirstTurn(h, h1, L, sp, s1, p, s, up)
  BY FirstTurnOfTwo
<1>2. /\ Rebuilt(h, h1, L, sp, s1, child, up)
      /\ s1[p] = sp[p] /\ h1.level[p].parent = h.level[p].parent
      /\ h1.level[p][s] = up
      /\ RotateTwice(h, p, s) = Rotate(h1, p, s)
      /\ Null \notin L
  BY <1>1, LevelsAreIntegers DEF FirstTurn
<1>3. Tree(h1, L, s1) /\ h1.edge = h.edge
  BY <1>2 DEF Rebuilt
<1>9. Rebuilt(h1, k, L, s1, TurnedSpans(s1, p, up, s), p, up) /\ Rotate(h1, p, s) \in Heap(L)
  <2> HIDE DEF up
  <2>1. Within(x, s1[p]) /\ h1.level[p][s] # Null
    BY <1>2 DEF up
  <2>2. RotatesTo(h1, Join(Rotate(h1, p, s), x, h1.level[p].parent, h1.level[p][s]),
                  L, s1, p, s, h1.level[p][s], SideOf(x, h1.level[p].parent))
    BY <1>3, <2>1, RotationRebuilds
  <2>3. RotatesTo(h1, k, L, s1, p, s, up, SideOf(x, h1.level[p].parent))
    BY <1>2, <2>2
  <2> QED
    BY <2>3 DEF RotatesTo
<1>10. \A q \in L : ~Within(q, sp[p]) => ~Within(q, sp[child])
  BY ChildIsWithin, LevelsAreIntegers
<1> DEFINE sq == TurnedSpans(s1, p, up, s)
<1> HIDE DEF up, k, child, sq
<1>11. Rebuilt(h, k, L, sp, sq, p, up)
  BY <1>2, <1>3, <1>9, <1>10 DEF Rebuilt, sq
<1> QED
  BY <1>2, <1>9, <1>11 DEF up, k, child, o

\* What balance does to the tree: nothing, or one or two rotations.
LEMMA BalanceRebuilds ==
    ASSUME NEW L, NEW h, NEW sp, Tree(h, L, sp), NEW a \in L, NEW x \in Int, Within(x, sp[a])
    PROVE  LET done == balance(h, a)
           IN  /\ done.heap \in Heap(L)
               /\ \E sq : Rebuilt(h, Join(done.heap, x, h.level[a].parent, done.top),
                                  L, sp, sq, a, done.top)
<1> DEFINE factor == limitHeightDifference(h, a)
           side == IF factor > 0 THEN "left" ELSE "right"
           child == h.level[a][side]
           lean == limitHeightDifference(h, child)
           above == h.level[a].parent
<1>1. L \in SUBSET Prices /\ h \in Heap(L) /\ sp \in Spans(L)
  BY DEF Tree
<1>2. \A q \in L, s \in Sides : h.level[q][s] \in L \cup {Null}
  BY DEF Tree, ChildLink
<1>3. \A q \in L : h.level[q].left \in L \cup {Null} /\ h.level[q].right \in L \cup {Null}
  BY <1>2 DEF Sides
<1>4. \A q \in L \cup {Null} : Height(h, q) \in Nat /\ (Height(h, q) > 0 => q # Null)
  BY <1>1, Pointers DEF Height
<1>5. side \in Sides /\ factor \in Int
  BY <1>3, <1>4 DEF Sides, limitHeightDifference
<1>6. CASE factor \in -1..1
  <2>1. balance(h, a) = [heap |-> h, top |-> a]
    BY <1>6 DEF balance
  <2> DEFINE k == Join(h, x, above, a)
  <2>2. Rebuilt(h, k, L, sp, sp, a, a)
    <3>1. CASE above = Null
      <4>1. k = h
        BY <3>1 DEF Join
      <4> QED
        BY <4>1 DEF Rebuilt
    <3>2. CASE above # Null
      <4>1. above \in L /\ SideOf(x, above) \in Sides /\ h.level[above][SideOf(x, above)] = a
        BY <3>2, ParentSlot
      <4>2. k = [h EXCEPT !.level[above][SideOf(x, above)] = a]
        BY <3>2 DEF Join
      <4>3. k = h
        BY <1>1, <4>1, <4>2 DEF Heap, Node, Sides
      <4> QED
        BY <4>3 DEF Rebuilt
    <3> QED
      BY <3>1, <3>2
  <2> QED
    BY <1>1, <2>1, <2>2
<1>7. CASE factor \notin -1..1
  <2>1. child \in L /\ lean \in Int
    <3>1. child # Null
      BY <1>3, <1>4, <1>7 DEF limitHeightDifference
    <3>2. child \in L
      BY <1>2, <1>5, <3>1
    <3> QED
      BY <1>3, <1>4, <3>2 DEF limitHeightDifference
  <2>2. CASE IF side = "left" THEN lean >= 0 ELSE lean <= 0
    <3>1. balance(h, a) = [heap |-> Rotate(h, a, side), top |-> child]
      BY <1>7, <2>2 DEF balance
    <3>2. child # Null
      BY <1>1, <2>1, Pointers
    <3> HIDE DEF side
    <3>3. RotatesTo(h, Join(Rotate(h, a, side), x, above, child), L, sp, a, side, child, SideOf(x, above))
      BY <1>5, <3>2, RotationRebuilds
    <3>4. /\ Rotate(h, a, side) \in Heap(L)
          /\ \E sq : Rebuilt(h, Join(Rotate(h, a, side), x, above, child), L, sp, sq, a, child)
      BY <3>3 DEF RotatesTo
    <3> QED
      BY <3>1, <3>4
  <2>3. CASE ~(IF side = "left" THEN lean >= 0 ELSE lean <= 0)
    <3> DEFINE up == h.level[child][Opposite(side)]
    <3>1. balance(h, a) = [heap |-> RotateTwice(h, a, side), top |-> up]
      BY <1>7, <2>3 DEF balance
    <3>2. up # Null
      <4>1. CASE side = "left"
        BY <1>3, <1>4, <2>1, <2>3, <4>1 DEF limitHeightDifference, Opposite
      <4>2. CASE side = "right"
        BY <1>3, <1>4, <2>1, <2>3, <4>2 DEF limitHeightDifference, Opposite
      <4> QED
        BY <4>1, <4>2
    <3>3. child # Null
      BY <1>1, <2>1, Pointers
    <3> HIDE DEF side
    <3>4. /\ RotateTwice(h, a, side) \in Heap(L)
          /\ \E sq : Rebuilt(h, Join(RotateTwice(h, a, side), x, above, up), L, sp, sq, a, up)
      BY <1>5, <3>2, <3>3, DoubleRotationRebuilds
    <3> QED
      BY <3>1, <3>4
  <2> QED
    BY <2>2, <2>3
<1> QED
  BY <1>6, <1>7

\* Where a level points does not depend on the heights.
LEMMA TreeHasNoHeights ==
    ASSUME NEW L, NEW h, NEW sp, Tree(h, L, sp), NEW a, NEW v, NEW k, SetsHeight(h, k, L, a, v)
    PROVE  Tree(k, L, sp)
<1>1. /\ k \in Heap(L) /\ k.root = h.root
      /\ \A q \in L, s \in Sides : k.level[q][s] = h.level[q][s]
      /\ \A q \in L : k.level[q].parent = h.level[q].parent
  BY DEF SetsHeight
<1>2. ASSUME NEW q \in L, NEW s \in Sides PROVE ChildLink(k, L, sp, q, s)
  BY <1>1 DEF Tree, ChildLink
<1>3. ASSUME NEW q \in L PROVE ParentLink(k, L, q)
  <2>1. ParentLink(h, L, q)
    BY DEF Tree
  <2> QED
    BY <1>1, <2>1 DEF ParentLink
<1>4. RootLink(k, L, sp)
  BY <1>1 DEF Tree, RootLink
<1> QED
  BY <1>1, <1>2, <1>3, <1>4 DEF Tree

\* A side is empty or leads to a level.
LEMMA ChildrenAreLevels ==
    ASSUME NEW L, NEW h, NEW sp, Tree(h, L, sp)
    PROVE  /\ \A q \in L, s \in Sides : h.level[q][s] \in L \cup {Null}
           /\ \A q \in L : h.level[q].left \in L \cup {Null} /\ h.level[q].right \in L \cup {Null}
<1>1. \A q \in L, s \in Sides : h.level[q][s] \in L \cup {Null}
  BY DEF Tree, ChildLink
<1> QED
  BY <1>1 DEF Sides

\* The link from above touches no parent.
LEMMA JoinKeepsParents ==
    ASSUME NEW L \in SUBSET Prices, NEW h \in Heap(L), NEW x, NEW above \in L \cup {Null}, NEW top \in L
    PROVE  /\ Join(h, x, above, top) \in Heap(L)
           /\ \A q \in L : Join(h, x, above, top).level[q].parent = h.level[q].parent
<1>1. CASE above = Null
  BY <1>1 DEF Join
<1>2. CASE above # Null
  <2>1. above \in L /\ SideOf(x, above) \in Sides /\ top \in Pointer
    BY <1>2, Pointers DEF SideOf, Sides
  <2>2. SetsChild(h, [h EXCEPT !.level[above][SideOf(x, above)] = top], L, above, SideOf(x, above), top)
    BY <2>1, SetChild
  <2>3. Join(h, x, above, top) = [h EXCEPT !.level[above][SideOf(x, above)] = top]
    BY <1>2 DEF Join
  <2>4. SetsChild(h, Join(h, x, above, top), L, above, SideOf(x, above), top)
    BY <2>2, <2>3, Zenon
  <2> QED
    BY <2>4 DEF SetsChild
<1> QED
  BY <1>1, <1>2

\* What insert does on its way up, and a round of the climb.
Settle(h, a) == balance(updateLimitHeight(h, a), a)

\* Updating the height of a level and balancing it rebuilds its subtree, whatever the
\* heights were: balance keeps the order of the tree even on heights that are wrong.
LEMMA SettleRebuilds ==
    ASSUME NEW L, NEW h, NEW sp, Tree(h, L, sp), NEW a \in L, NEW x \in Int, Within(x, sp[a])
    PROVE  LET done == Settle(h, a)
               above == h.level[a].parent
           IN  /\ \E sq : Rebuilt(h, Join(done.heap, x, above, done.top), L, sp, sq, a, done.top)
               /\ done.heap \in Heap(L)
               /\ done.heap.level[done.top].parent = above
<1> DEFINE g == updateLimitHeight(h, a)
           done == balance(g, a)
           above == h.level[a].parent
           k == Join(done.heap, x, above, done.top)
<1>1. L \in SUBSET Prices /\ h \in Heap(L)
  BY DEF Tree
<1>2. \E v : SetsHeight(h, g, L, a, v)
  BY <1>1, ChildrenAreLevels, UpdateHeight
<1> HIDE DEF g
<1>3. Tree(g, L, sp) /\ g.edge = h.edge /\ \A q \in L : g.level[q].parent = h.level[q].parent
  <2>1. Tree(g, L, sp)
    BY <1>2, TreeHasNoHeights
  <2> QED
    BY <1>2, <2>1 DEF SetsHeight
<1>4. /\ done.heap \in Heap(L)
      /\ \E sq : Rebuilt(g, k, L, sp, sq, a, done.top)
  <2>1. /\ done.heap \in Heap(L)
        /\ \E sq : Rebuilt(g, Join(done.heap, x, g.level[a].parent, done.top), L, sp, sq, a, done.top)
    BY <1>3, BalanceRebuilds
  <2>2. g.level[a].parent = above
    BY <1>3
  <2> QED
    BY <2>1, <2>2
<1>5. PICK sq : Rebuilt(g, k, L, sp, sq, a, done.top)
  BY <1>4
<1>6. above \in L \cup {Null}
  BY DEF Tree, ParentLink
<1> HIDE DEF done, above
<1>7. Rebuilt(h, k, L, sp, sq, a, done.top)
  BY <1>3, <1>5 DEF Rebuilt
<1>8. done.top \in L /\ k.level[done.top].parent = above
  BY <1>7 DEF Rebuilt, above
<1>9. done.heap.level[done.top].parent = above
  BY <1>1, <1>4, <1>6, <1>8, JoinKeepsParents
<1> QED
  BY <1>4, <1>7, <1>9 DEF Settle, g, done, above

-----------------------------------------------------------------------------
(* insert, as a recursion.                                                 *)

\* The recursion of insert.
InsertStep(h, new, f, r) ==
    LET side == SideOf(new, r)
        child == h.level[r][side]
        sub == IF child = Null
               THEN [heap |-> [h EXCEPT !.level[new].parent = r], top |-> new]
               ELSE f[child]
        linked == [sub.heap EXCEPT !.level[r][side] = sub.top]
    IN  balance(updateLimitHeight(linked, r), r)

\* below of the operator insert is such a function.
IsInsert(f, h, new) == f = [r \in DOMAIN h.level |-> InsertStep(h, new, f, r)]

\* It comes to an end where each step goes to a level of lower rank.
LEMMA InsertExists ==
    ASSUME NEW h, NEW new, NEW rank \in [DOMAIN h.level -> Nat],
           NEW N \in Nat, \A r \in DOMAIN h.level : rank[r] <= N,
           \A r \in DOMAIN h.level :
              LET c == h.level[r][SideOf(new, r)]
              IN  c # Null => c \in DOMAIN h.level /\ rank[c] < rank[r]
    PROVE  \E f : IsInsert(f, h, new)
<1> DEFINE M == DOMAIN h.level
           next(r) == h.level[r][SideOf(new, r)]
           Upto(g, n) == \A r \in M : rank[r] < n => g[r] = InsertStep(h, new, g, r)
           P == {n \in Nat : \E g : Upto(g, n)}
<1>1. \A f, g : \A r \in M : (next(r) # Null => f[next(r)] = g[next(r)])
                   => InsertStep(h, new, f, r) = InsertStep(h, new, g, r)
  <2> SUFFICES ASSUME NEW f, NEW g, NEW r \in M, next(r) # Null => f[next(r)] = g[next(r)]
               PROVE  InsertStep(h, new, f, r) = InsertStep(h, new, g, r)
    OBVIOUS
  <2>1. CASE next(r) = Null
    BY <2>1 DEF InsertStep
  <2>2. CASE next(r) # Null
    BY <2>2 DEF InsertStep
  <2> QED
    BY <2>1, <2>2
<1>2. \A r \in M : next(r) # Null => next(r) \in M /\ rank[next(r)] < rank[r]
  OBVIOUS
<1>3. \A r \in M : rank[r] \in Nat /\ rank[r] <= N
  OBVIOUS
<1> HIDE DEF next, M
<1>4. 0 \in P
  <2>1. Upto([r \in {} |-> 0], 0)
    BY <1>3
  <2> HIDE DEF Upto
  <2> QED
    BY <2>1
<1>5. \A n \in P : n + 1 \in P
  <2> SUFFICES ASSUME NEW n \in Nat, NEW g, Upto(g, n)
               PROVE  \E k : Upto(k, n + 1)
    OBVIOUS
  <2> DEFINE k == [r \in M |-> InsertStep(h, new, g, r)]
  <2>1. ASSUME NEW r \in M, rank[r] < n + 1
        PROVE  k[r] = InsertStep(h, new, k, r)
    <3>1. k[r] = InsertStep(h, new, g, r)
      OBVIOUS
    <3>2. next(r) # Null => k[next(r)] = g[next(r)]
      <4> SUFFICES ASSUME next(r) # Null PROVE k[next(r)] = g[next(r)]
        OBVIOUS
      <4>1. next(r) \in M /\ rank[next(r)] < n
        BY <1>2, <1>3, <2>1
      <4>2. k[next(r)] = InsertStep(h, new, g, next(r))
        BY <4>1
      <4> HIDE DEF k
      <4> QED
        BY <4>1, <4>2
    <3> HIDE DEF k
    <3> QED
      BY <1>1, <3>1, <3>2
  <2> HIDE DEF k
  <2>2. Upto(k, n + 1)
    BY <2>1
  <2> HIDE DEF Upto
  <2> QED
    BY <2>2
<1>6. P = Nat
  <2> HIDE DEF P
  <2>1. P \in SUBSET Nat
    BY DEF P
  <2> QED
    BY <1>4, <1>5, <2>1, NaturalInduction
<1>7. N + 1 \in P
  <2> HIDE DEF P
  <2> QED
    BY <1>6
<1>8. PICK g : Upto(g, N + 1)
  BY <1>7
<1> DEFINE f == [r \in M |-> g[r]]
<1>9. \A r \in M : InsertStep(h, new, f, r) = InsertStep(h, new, g, r)
  <2> SUFFICES ASSUME NEW r \in M PROVE InsertStep(h, new, f, r) = InsertStep(h, new, g, r)
    OBVIOUS
  <2>1. next(r) # Null => f[next(r)] = g[next(r)]
    BY <1>2
  <2> HIDE DEF f
  <2> QED
    BY <1>1, <2>1
<1>10. \A r \in M : f[r] = InsertStep(h, new, f, r)
  <2> SUFFICES ASSUME NEW r \in M PROVE f[r] = InsertStep(h, new, f, r)
    OBVIOUS
  <2>1. g[r] = InsertStep(h, new, g, r)
    BY <1>3, <1>8
  <2>2. f[r] = g[r]
    OBVIOUS
  <2> HIDE DEF f
  <2> QED
    BY <1>9, <2>1, <2>2
<1>11. f = [r \in M |-> f[r]]
  OBVIOUS
<1> HIDE DEF f
<1>12. IsInsert(f, h, new)
  BY <1>10, <1>11 DEF IsInsert, M
<1> QED
  BY <1>12

\* insert is a value of that function.
LEMMA InsertIsRecursion ==
    ASSUME NEW h, NEW new, \E f : IsInsert(f, h, new)
    PROVE  \E f : IsInsert(f, h, new) /\ insert(h, new) = f[h.root]
<1> DEFINE f == CHOOSE g : IsInsert(g, h, new)
<1>1. IsInsert(f, h, new)
  OBVIOUS
<1>2. insert(h, new) = f[h.root]
  BY DEF insert, IsInsert, InsertStep
<1> QED
  BY <1>1, <1>2

-----------------------------------------------------------------------------
(* Spans: there is one place for a price.                                  *)

\* Of the levels with some property, one has the least number.
LEMMA LeastExists ==
    ASSUME NEW S, NEW f, \A q \in S : f[q] \in Nat, S # {}
    PROVE  \E q \in S : \A x \in S : f[q] <= f[x]
<1> SUFFICES ASSUME \A q \in S : \E x \in S : f[x] < f[q]
             PROVE  FALSE
  OBVIOUS
<1> DEFINE P == {n \in Nat : \A q \in S : f[q] >= n}
<1>1. 0 \in P
  OBVIOUS
<1>2. \A n \in P : n + 1 \in P
  <2> SUFFICES ASSUME NEW n \in Nat, \A q \in S : f[q] >= n, NEW q \in S
               PROVE  f[q] >= n + 1
    OBVIOUS
  <2>1. PICK x \in S : f[x] < f[q]
    OBVIOUS
  <2> QED
    BY <2>1
<1>3. P = Nat
  <2> HIDE DEF P
  <2>1. P \in SUBSET Nat
    BY DEF P
  <2> QED
    BY <1>1, <1>2, <2>1, NaturalInduction
<1>4. PICK q \in S : TRUE
  OBVIOUS
<1>5. f[q] + 1 \in P
  BY <1>3, <1>4
<1> QED
  BY <1>4, <1>5

\* How much of the range of prices a span leaves out.
Outside(span) == MaxPrice + 1 - (span.right - span.left)

\* Spans get narrower on the way down, so that a path has no more levels than there
\* are prices.
LEMMA WidthsOfSpans ==
    ASSUME NEW L, NEW h, NEW sp, Tree(h, L, sp)
    PROVE  /\ \A q \in L : /\ Outside(sp[q]) \in Nat
                           /\ sp[q].right - sp[q].left \in Nat
                           /\ sp[q].right - sp[q].left >= 2
                           /\ sp[q].right - sp[q].left <= MaxPrice + 1
           /\ \A q \in L, s \in Sides :
                 LET c == h.level[q][s]
                 IN  c # Null => /\ c \in L
                                 /\ sp[c].right - sp[c].left < sp[q].right - sp[q].left
                                 /\ Outside(sp[q]) < Outside(sp[c])
<1>1. L \in SUBSET Prices /\ sp \in Spans(L) /\ \A q \in L : Within(q, sp[q])
  BY DEF Tree
<1>2. \A q \in L : /\ sp[q].left \in 0..(MaxPrice + 1) /\ sp[q].right \in 0..(MaxPrice + 1)
                   /\ q \in Int /\ sp[q].left < q /\ q < sp[q].right
  BY <1>1, MaxPriceIsNatural DEF Spans, Bound, Prices, Within
<1>3. \A q \in L : /\ Outside(sp[q]) \in Nat
                   /\ sp[q].right - sp[q].left \in Nat
                   /\ sp[q].right - sp[q].left >= 2
                   /\ sp[q].right - sp[q].left <= MaxPrice + 1
  BY <1>2, MaxPriceIsNatural DEF Outside
<1>4. ASSUME NEW q \in L, NEW s \in Sides, NEW c, c = h.level[q][s], c # Null
      PROVE  /\ c \in L
             /\ sp[c].right - sp[c].left < sp[q].right - sp[q].left
             /\ Outside(sp[q]) < Outside(sp[c])
  <2>1. /\ c \in L /\ sp[c][s] = sp[q][s] /\ sp[c][Opposite(s)] = q
    BY <1>4, ChildIsBetween
  <2>2. s = "left" => sp[c].left = sp[q].left /\ sp[c].right = q
    BY <2>1, SidesAreTwo
  <2>3. s = "right" => sp[c].right = sp[q].right /\ sp[c].left = q
    BY <2>1, SidesAreTwo
  <2>4. sp[c].right - sp[c].left < sp[q].right - sp[q].left
    BY <1>2, <2>1, <2>2, <2>3 DEF Sides
  <2> QED
    BY <1>2, <2>1, <2>4, MaxPriceIsNatural DEF Outside
<1> QED
  BY <1>3, <1>4

\* A level that bounds the span of another one has it below.
LEMMA BoundHasAChild ==
    ASSUME NEW L, NEW h, NEW sp, Tree(h, L, sp), NEW q \in L, NEW s \in Sides, sp[q][s] \in L
    PROVE  h.level[sp[q][s]][Opposite(s)] # Null
<1> DEFINE Bad == {x \in L : sp[x][s] \in L /\ h.level[sp[x][s]][Opposite(s)] = Null}
<1> SUFFICES ASSUME q \in Bad PROVE FALSE
  OBVIOUS
<1> DEFINE f == [x \in L |-> Outside(sp[x])]
<1>1. PICK x \in Bad : \A y \in Bad : f[x] <= f[y]
  <2>1. \A y \in Bad : f[y] \in Nat
    BY WidthsOfSpans
  <2> HIDE DEF Bad, f
  <2> QED
    BY <2>1, LeastExists
<1>2. L \in SUBSET Prices /\ h \in Heap(L) /\ Null \notin L /\ Opposite(s) \in Sides
  BY Pointers, SidesAreTwo DEF Tree
<1>3. x # h.root
  <2> SUFFICES ASSUME x = h.root PROVE FALSE
    OBVIOUS
  <2>1. sp[x].left = 0 /\ sp[x].right = MaxPrice + 1
    BY <1>2 DEF Tree, RootLink
  <2>2. 0 \notin L /\ MaxPrice + 1 \notin L
    BY <1>2, MaxPriceIsNatural DEF Prices
  <2> QED
    BY <2>1, <2>2 DEF Sides
<1> DEFINE a == h.level[x].parent
<1>4. a \in L
  BY <1>3 DEF Tree, ParentLink
<1>5. PICK t \in Sides : h.level[a][t] = x
  BY <1>3 DEF Tree, ParentLink
<1>6. sp[x][t] = sp[a][t] /\ sp[x][Opposite(t)] = a
  BY <1>2, <1>4, <1>5, ChildIsBetween
<1>7. CASE t = s
  <2>1. a \in Bad
    BY <1>4, <1>6, <1>7
  <2>2. Outside(sp[a]) < Outside(sp[x]) /\ Outside(sp[a]) \in Nat /\ Outside(sp[x]) \in Nat
    BY <1>2, <1>4, <1>5, WidthsOfSpans
  <2>3. Outside(sp[x]) <= Outside(sp[a])
    BY <1>1, <1>4, <2>1
  <2> QED
    BY <2>2, <2>3
<1>8. CASE t = Opposite(s)
  <2>1. sp[x][s] = a
    BY <1>6, <1>8, SidesAreTwo
  <2> QED
    BY <1>2, <1>5, <1>8, <2>1
<1> QED
  BY <1>7, <1>8, SidesAreTwo

\* A span ends at a level, or where the prices end.
LEMMA BoundIsALevel ==
    ASSUME NEW L, NEW h, NEW sp, Tree(h, L, sp), NEW q \in L, NEW s \in Sides
    PROVE  sp[q][s] \in L \cup {0, MaxPrice + 1}
<1> DEFINE Bad == {x \in L : sp[x][s] \notin L \cup {0, MaxPrice + 1}}
<1> SUFFICES ASSUME q \in Bad PROVE FALSE
  OBVIOUS
<1> DEFINE f == [x \in L |-> Outside(sp[x])]
<1>1. PICK x \in Bad : \A y \in Bad : f[x] <= f[y]
  <2>1. \A y \in Bad : f[y] \in Nat
    BY WidthsOfSpans
  <2> HIDE DEF Bad, f
  <2> QED
    BY <2>1, LeastExists
<1>2. L \in SUBSET Prices /\ h \in Heap(L) /\ Null \notin L /\ Opposite(s) \in Sides
  BY Pointers, SidesAreTwo DEF Tree
<1>3. x # h.root
  <2> SUFFICES ASSUME x = h.root PROVE FALSE
    OBVIOUS
  <2>1. sp[x].left = 0 /\ sp[x].right = MaxPrice + 1
    BY <1>2 DEF Tree, RootLink
  <2> QED
    BY <2>1 DEF Sides
<1> DEFINE a == h.level[x].parent
<1>4. a \in L
  BY <1>3 DEF Tree, ParentLink
<1>5. PICK t \in Sides : h.level[a][t] = x
  BY <1>3 DEF Tree, ParentLink
<1>6. sp[x][t] = sp[a][t] /\ sp[x][Opposite(t)] = a
  BY <1>2, <1>4, <1>5, ChildIsBetween
<1>7. CASE t = s
  <2>1. a \in Bad
    BY <1>4, <1>6, <1>7
  <2>2. Outside(sp[a]) < Outside(sp[x]) /\ Outside(sp[a]) \in Nat /\ Outside(sp[x]) \in Nat
    BY <1>2, <1>4, <1>5, WidthsOfSpans
  <2>3. Outside(sp[x]) <= Outside(sp[a])
    BY <1>1, <1>4, <2>1
  <2> QED
    BY <2>2, <2>3
<1>8. CASE t = Opposite(s)
  <2>1. sp[x][s] = a
    BY <1>6, <1>8, SidesAreTwo
  <2> QED
    BY <1>4, <2>1
<1> QED
  BY <1>7, <1>8, SidesAreTwo

\* There is one place for a new level: no two empty slots share a price.
LEMMA SlotsOnBothSides ==
    ASSUME NEW L, NEW h, NEW sp, Tree(h, L, sp), NEW x \in Int,
           NEW q \in L, h.level[q].left = Null, Between(x, q, sp[q].left),
           NEW r \in L, h.level[r].right = Null, Between(x, r, sp[r].right)
    PROVE  FALSE
<1>1. L \in SUBSET Prices /\ sp \in Spans(L) /\ h \in Heap(L)
  BY DEF Tree
<1>2. \A y \in L : ~Between(y, q, sp[q].left) /\ ~Between(y, r, sp[r].right)
  <2>1. ChildLink(h, L, sp, q, "left") /\ ChildLink(h, L, sp, r, "right")
    BY SidesAreTwo DEF Tree
  <2> QED
    BY <2>1 DEF ChildLink
<1>3. /\ \A y \in L : y \in Int /\ 0 < y /\ y < MaxPrice + 1
      /\ sp[q].left \in Int /\ sp[r].right \in Int
      /\ sp[q].left < q /\ r < sp[r].right
  BY <1>1, SpansAreIntegers, MaxPriceIsNatural DEF Tree, Within, Prices
<1>4. sp[q].left < x /\ x < q /\ r < x /\ x < sp[r].right
  BY <1>3 DEF Between
<1>5. r <= sp[q].left
  BY <1>2, <1>3, <1>4 DEF Between
<1>6. sp[q].left \in L
  <2>1. sp[q].left \in L \cup {0, MaxPrice + 1}
    BY SidesAreTwo, BoundIsALevel
  <2> QED
    BY <1>3, <1>4, <1>5, <2>1
<1>7. sp[q].left = r
  BY <1>2, <1>3, <1>4, <1>5, <1>6 DEF Between
<1>8. h.level[r].right # Null
  BY <1>6, <1>7, SidesAreTwo, BoundHasAChild
<1> QED
  BY <1>8

\* A price belongs in at most one empty slot of the tree.
LEMMA SlotIsUnique ==
    ASSUME NEW L, NEW h, NEW sp, Tree(h, L, sp), NEW x \in Int,
           NEW q \in L, NEW s \in Sides, h.level[q][s] = Null, Between(x, q, sp[q][s]),
           NEW r \in L, NEW t \in Sides, h.level[r][t] = Null, Between(x, r, sp[r][t])
    PROVE  q = r /\ s = t
<1>1. L \in SUBSET Prices /\ sp \in Spans(L) /\ h \in Heap(L)
  BY DEF Tree
<1>2. \A y \in L : ~Between(y, q, sp[q][s]) /\ ~Between(y, r, sp[r][t])
  BY DEF Tree, ChildLink
<1>3. /\ \A y \in L : y \in Int
      /\ sp[q][s] \in Int /\ sp[r][t] \in Int
      /\ q \in Int /\ r \in Int
  BY <1>1, SpansAreIntegers
<1>4. /\ s = "left" => sp[q][s] < q
      /\ s = "right" => q < sp[q][s]
      /\ t = "left" => sp[r][t] < r
      /\ t = "right" => r < sp[r][t]
  BY DEF Tree, Within
<1>5. s = t => q = r
  BY <1>2, <1>3, <1>4 DEF Between, Sides
<1>6. ~(s = "left" /\ t = "right") /\ ~(s = "right" /\ t = "left")
  BY SlotsOnBothSides
<1> QED
  BY <1>5, <1>6 DEF Sides

-----------------------------------------------------------------------------
(* A new level is hung into the tree.                                      *)

\* The heap with the new level in it, linked to nothing.
Grown(h, p) ==
    [h EXCEPT !.level = [q \in DOMAIN h.level \cup {p} |-> IF q = p THEN NewNode ELSE h.level[q]]]

\* The same, field by field.
GrowsTo(h, g, L, new) ==
    /\ g \in Heap(L \cup {new})
    /\ g.root = h.root /\ g.edge = h.edge
    /\ \A q \in L : g.level[q] = h.level[q]
    /\ \A t \in Sides : g.level[new][t] = Null
    /\ g.level[new].parent = Null /\ g.level[new].height = 1

\* Grown has these fields.
LEMMA GrownFields ==
    ASSUME NEW L \in SUBSET Prices, NEW h \in Heap(L), NEW new \in Prices \ L
    PROVE  GrowsTo(h, Grown(h, new), L, new)
<1> DEFINE lv == [q \in L \cup {new} |-> IF q = new THEN NewNode ELSE h.level[q]]
<1>1. h.level \in [L -> Node] /\ DOMAIN h.level = L
  BY DEF Heap
<1>2. NewNode \in Node
  BY DEF NewNode, Node, Pointer
<1>3. lv \in [L \cup {new} -> Node]
  BY <1>1, <1>2
<1>4. Grown(h, new) = [h EXCEPT !.level = lv]
  BY <1>1 DEF Grown
<1>5. (\A q \in L : lv[q] = h.level[q]) /\ lv[new] = NewNode
  OBVIOUS
<1> HIDE DEF lv
<1> QED
  BY <1>3, <1>4, <1>5 DEF Heap, NewNode, Sides, GrowsTo

\* The new level below its parent.
LinksTo(h, k, L, new, r, s) ==
    /\ k \in Heap(L \cup {new})
    /\ k.root = h.root /\ k.edge = h.edge
    /\ \A q \in L :
          /\ \A t \in Sides : k.level[q][t] = IF q = r /\ t = s THEN new ELSE h.level[q][t]
          /\ k.level[q].parent = h.level[q].parent
          /\ k.level[q].height = h.level[q].height
    /\ \A t \in Sides : k.level[new][t] = Null
    /\ k.level[new].parent = r /\ k.level[new].height = 1

\* The two assignments that hang the new level below r, field by field.
LEMMA LinkFields ==
    ASSUME NEW L \in SUBSET Prices, NEW h \in Heap(L), NEW new \in Prices \ L,
           NEW g, GrowsTo(h, g, L, new), NEW r \in L, NEW s \in Sides
    PROVE  LinksTo(h, [[g EXCEPT !.level[new].parent = r] EXCEPT !.level[r][s] = new], L, new, r, s)
<1> DEFINE M == L \cup {new}
           g1 == [g EXCEPT !.level[new].parent = r]
           g2 == [g1 EXCEPT !.level[r][s] = new]
<1>1. M \in SUBSET Prices /\ g \in Heap(M) /\ r \in Pointer /\ new \in Pointer /\ new \in M /\ r \in M
  BY DEF GrowsTo, Pointer
<1>2. SetsParent(g, g1, M, new, r)
  <2> HIDE DEF M
  <2> QED
    BY <1>1, SetParent
<1> HIDE DEF g1
<1>3. SetsChild(g1, g2, M, r, s, new)
  <2>1. g1 \in Heap(M)
    BY <1>2 DEF SetsParent
  <2> HIDE DEF M
  <2> QED
    BY <1>1, <2>1, SetChild
<1> HIDE DEF g2
<1>4. LinksTo(h, g2, L, new, r, s)
  BY <1>1, <1>2, <1>3 DEF SetsChild, SetsParent, LinksTo, GrowsTo
<1> QED
  BY <1>4 DEF g2, g1

\* The spans with a new level at an empty slot.
LinkedSpans(sp, L, new, r, s) ==
    [q \in L \cup {new} |-> IF q = new THEN [sp[r] EXCEPT ![Opposite(s)] = r] ELSE sp[q]]

\* LinkedSpans has these fields.
LEMMA LinkedSpansFields ==
    ASSUME NEW L \in SUBSET Prices, NEW sp \in Spans(L), NEW new \in Prices \ L,
           NEW r \in L, NEW s \in Sides
    PROVE  LET sq == LinkedSpans(sp, L, new, r, s)
           IN  /\ sq \in Spans(L \cup {new})
               /\ \A q \in L : sq[q] = sp[q]
               /\ sq[new][s] = sp[r][s] /\ sq[new][Opposite(s)] = r
<1>1. r \in Bound
  BY MaxPriceIsNatural DEF Prices, Bound
<1> QED
  BY <1>1 DEF LinkedSpans, Spans, Sides, Opposite

\* A level that is hung into the slot in which it belongs makes a tree with one more
\* level.
LEMMA LinkKeepsTree ==
    ASSUME NEW L, NEW h, NEW sp, Tree(h, L, sp), NEW new \in Prices \ L,
           NEW r \in L, NEW s \in Sides, s = SideOf(new, r), Within(new, sp[r]),
           h.level[r][s] = Null,
           NEW k, LinksTo(h, k, L, new, r, s)
    PROVE  Tree(k, L \cup {new}, LinkedSpans(sp, L, new, r, s))
<1> DEFINE M == L \cup {new}
           o == Opposite(s)
           sq == LinkedSpans(sp, L, new, r, s)
<1>1. L \in SUBSET Prices /\ sp \in Spans(L) /\ h \in Heap(L) /\ Null \notin L /\ new # Null
  BY Pointers DEF Tree, Prices, Null
<1>2. o \in Sides /\ o # s /\ Opposite(o) = s /\ Sides = {s, o}
  BY SidesAreTwo
<1>3. /\ sq \in Spans(M)
      /\ \A q \in L : sq[q] = sp[q]
      /\ sq[new][s] = sp[r][s] /\ sq[new][o] = r
  BY <1>1, LinkedSpansFields
<1>4. /\ k \in Heap(M) /\ k.root = h.root /\ k.edge = h.edge
      /\ \A q \in L, t \in Sides : k.level[q][t] = IF q = r /\ t = s THEN new ELSE h.level[q][t]
      /\ \A q \in L : k.level[q].parent = h.level[q].parent
      /\ \A t \in Sides : k.level[new][t] = Null
      /\ k.level[new].parent = r
  BY DEF LinksTo
<1>5. /\ \A q \in M : q \in Int
      /\ \A q \in L, t \in Sides : sp[q][t] \in Int
      /\ \A q \in L : sp[q].left < q /\ q < sp[q].right /\ sp[q].left \in Int /\ sp[q].right \in Int
      /\ sp[r].left < new /\ new < sp[r].right /\ new # r
  BY <1>1, SpansAreIntegers DEF Prices, Within, Tree
<1>6. Between(new, r, sp[r][s])
  <2>1. s = "left" => new < r
    BY <1>5 DEF SideOf
  <2>2. s = "right" => r < new
    BY <1>5 DEF SideOf
  <2> QED
    BY <1>5, <2>1, <2>2 DEF Between, Sides
<1> HIDE DEF sq, M, o
<1>7. \A q \in M : Within(q, sq[q])
  <2>1. \A q \in L : Within(q, sq[q])
    BY <1>3 DEF Tree
  <2>2. Within(new, sq[new])
    <3>1. s = "left" => sq[new].left = sp[r].left /\ sq[new].right = r /\ new < r
      BY <1>3, <1>5, SidesAreTwo DEF SideOf, o, M
    <3>2. s = "right" => sq[new].right = sp[r].right /\ sq[new].left = r /\ r < new
      BY <1>3, <1>5, SidesAreTwo DEF SideOf, o, M
    <3> QED
      BY <1>5, <3>1, <3>2 DEF Within, Sides
  <2> QED
    BY <2>1, <2>2 DEF M
<1>8. ASSUME NEW q \in M, NEW t \in Sides PROVE ChildLink(k, M, sq, q, t)
  <2>1. CASE q = new
    <3>1. k.level[q][t] = Null
      BY <1>4, <2>1
    <3>2. \A x \in L : ~Between(x, r, sp[r][s])
      BY DEF Tree, ChildLink
    <3>3. \A x \in M : ~Between(x, new, sq[new][t])
      <4> SUFFICES ASSUME NEW x \in M, Between(x, new, sq[new][t]) PROVE FALSE
        OBVIOUS
      <4>1. sq[new][t] = sp[r][s] \/ sq[new][t] = r
        BY <1>2, <1>3
      <4>2. Between(x, r, sp[r][s]) /\ x # new
        BY <1>5, <1>6, <4>1 DEF Between, M
      <4> QED
        BY <3>2, <4>2 DEF M
    <3> QED
      BY <2>1, <3>1, <3>3 DEF ChildLink
  <2>2. CASE q = r /\ t = s
    <3>1. k.level[q][t] = new /\ new \in M /\ k.level[new].parent = q
      BY <1>4, <2>2 DEF M
    <3>2. sq[new][t] = sq[q][t] /\ sq[new][Opposite(t)] = q
      BY <1>3, <2>2 DEF o
    <3> QED
      BY <1>1, <3>1, <3>2 DEF ChildLink
  <2>3. CASE q # new /\ ~(q = r /\ t = s)
    <3>1. q \in L
      BY <2>3 DEF M
    <3>2. k.level[q][t] = h.level[q][t] /\ sq[q] = sp[q]
      BY <1>3, <1>4, <2>3, <3>1
    <3>3. ChildLink(h, L, sp, q, t)
      BY <3>1 DEF Tree
    <3>4. CASE h.level[q][t] = Null
      <4>1. \A x \in L : ~Between(x, q, sp[q][t])
        BY <3>3, <3>4 DEF ChildLink
      <4>2. ~Between(new, q, sp[q][t])
        BY <1>5, <1>6, <2>3, <3>1, <3>4, SlotIsUnique DEF M
      <4>3. \A x \in M : ~Between(x, q, sq[q][t])
        BY <3>2, <4>1, <4>2 DEF M
      <4> QED
        BY <3>2, <3>4, <4>3 DEF ChildLink
    <3>5. CASE h.level[q][t] # Null
      <4> DEFINE c == h.level[q][t]
      <4>1. c \in L /\ h.level[c].parent = q /\ sp[c][t] = sp[q][t] /\ sp[c][Opposite(t)] = q
        BY <3>3, <3>5 DEF ChildLink
      <4>2. k.level[c].parent = q /\ sq[c] = sp[c] /\ c \in M
        BY <1>3, <1>4, <4>1 DEF M
      <4> QED
        BY <3>2, <3>5, <4>1, <4>2 DEF ChildLink
    <3> QED
      BY <3>4, <3>5
  <2> QED
    BY <2>1, <2>2, <2>3
<1>9. ASSUME NEW q \in M PROVE ParentLink(k, M, q)
  <2>1. CASE q = new
    <3>1. k.root # new
      BY <1>1, <1>4 DEF Tree, RootLink
    <3> QED
      BY <1>1, <1>4, <2>1, <3>1 DEF ParentLink, M
  <2>2. CASE q # new
    <3>1. q \in L
      BY <2>2 DEF M
    <3>2. ParentLink(h, L, q)
      BY <3>1 DEF Tree
    <3> DEFINE a == h.level[q].parent
    <3>3. a = Null <=> q = h.root
      BY <3>2 DEF ParentLink
    <3>4. k.level[q].parent = a /\ k.root = h.root
      BY <1>4, <3>1
    <3>5. ASSUME a # Null PROVE a \in M /\ \E t \in Sides : k.level[a][t] = q
      <4>1. a \in L
        BY <3>2, <3>5 DEF ParentLink
      <4>2. PICK t \in Sides : h.level[a][t] = q
        BY <3>2, <3>5 DEF ParentLink
      <4>3. k.level[a][t] = q
        BY <1>1, <1>4, <3>1, <4>1, <4>2
      <4> QED
        BY <4>1, <4>3 DEF M
    <3> QED
      BY <3>3, <3>4, <3>5 DEF ParentLink
  <2> QED
    BY <2>1, <2>2
<1>10. RootLink(k, M, sq)
  <2>1. RootLink(h, L, sp) /\ L # {}
    BY DEF Tree
  <2> QED
    BY <1>3, <1>4, <2>1 DEF RootLink, M
<1>11. M \in SUBSET Prices
  BY <1>1 DEF M
<1>12. Tree(k, M, sq)
  BY <1>3, <1>4, <1>7, <1>8, <1>9, <1>10, <1>11 DEF Tree
<1> QED
  BY <1>12 DEF M, sq

-----------------------------------------------------------------------------
(* Heights.                                                                *)

\* The stored height of the subtree on a side.
HeightAt(h, q, d) == Height(h, h.level[q][d])

\* A level with the right height, whose subtrees differ by at most one.
Stands(h, q) ==
    /\ h.level[q].height = 1 + Max2(HeightAt(h, q, "left"), HeightAt(h, q, "right"))
    /\ HeightAt(h, q, "left") - HeightAt(h, q, "right") \in -1..1

\* One that would stand if one of its subtrees were as high as it used to be.
NearlyStands(h, q) ==
    \E s \in Sides, d \in -1..1 :
       LET x == HeightAt(h, q, s) - d
           y == HeightAt(h, q, Opposite(s))
       IN  /\ x >= 0
           /\ x - y \in -1..1
           /\ h.level[q].height = 1 + Max2(x, y)

\* Every level but a stands, and a would stand if one of its subtrees were one higher
\* or lower: what a round of the climb or a return of insert starts from.
Even(h, L, a) ==
    /\ \A q \in L : q # a => Stands(h, q)
    /\ a \in L => NearlyStands(h, a)

\* Heights of levels are positive, that of an empty side is 0.
LEMMA HeightsAreNaturals ==
    ASSUME NEW L, NEW h, NEW sp, Tree(h, L, sp)
    PROVE  /\ \A q \in L, d \in Sides : HeightAt(h, q, d) \in Nat
           /\ \A q \in L, d \in Sides : HeightAt(h, q, d) > 0 => h.level[q][d] # Null
           /\ \A q \in L, d \in Sides : h.level[q][d] # Null => HeightAt(h, q, d) = h.level[h.level[q][d]].height
           /\ \A q \in L : h.level[q].height \in Nat \ {0}
<1>1. L \in SUBSET Prices /\ h \in Heap(L)
  BY DEF Tree
<1> QED
  BY <1>1, Pointers, ChildrenAreLevels DEF HeightAt, Height

\* To stand does not depend on the side that is named first.
LEMMA StandsOnSides ==
    ASSUME NEW L, NEW h, NEW sp, Tree(h, L, sp), NEW q \in L, NEW s \in Sides
    PROVE  Stands(h, q) <=>
              /\ h.level[q].height = 1 + Max2(HeightAt(h, q, s), HeightAt(h, q, Opposite(s)))
              /\ HeightAt(h, q, s) - HeightAt(h, q, Opposite(s)) \in -1..1
<1>1. HeightAt(h, q, "left") \in Nat /\ HeightAt(h, q, "right") \in Nat
  BY HeightsAreNaturals, SidesAreTwo
<1>2. s = "left" \/ s = "right"
  BY DEF Sides
<1>3. CASE s = "left"
  BY <1>3, SidesAreTwo DEF Stands
<1>4. CASE s = "right"
  BY <1>1, <1>4, SidesAreTwo DEF Stands, Max2
<1> QED
  BY <1>2, <1>3, <1>4

\* The heights around a rotation.
TurnedHeights(h, k, L, p, s, up, t) ==
    LET o == Opposite(s)
        above == h.level[p].parent
    IN  /\ \A q \in L : q \notin {p, up} => k.level[q].height = h.level[q].height
        /\ \A q \in L, d \in Sides : q \notin {p, up, above} => HeightAt(k, q, d) = HeightAt(h, q, d)
        /\ HeightAt(k, p, s) = HeightAt(h, up, o)
        /\ HeightAt(k, p, o) = HeightAt(h, p, o)
        /\ HeightAt(k, up, s) = HeightAt(h, up, s)
        /\ HeightAt(k, up, o) = k.level[p].height
        /\ k.level[p].height = 1 + Max2(HeightAt(h, up, o), HeightAt(h, p, o))
        /\ k.level[up].height = 1 + Max2(HeightAt(h, up, s), k.level[p].height)
        /\ above # Null => /\ HeightAt(k, above, t) = k.level[up].height
                           /\ HeightAt(k, above, Opposite(t)) = HeightAt(h, above, Opposite(t))

\* The heights around a rotation.
LEMMA RotationTurnsHeights ==
    ASSUME NEW L, NEW h, NEW sp, Tree(h, L, sp), NEW p \in L, NEW s \in Sides,
           NEW up, up = h.level[p][s], up # Null, NEW x \in Int, Within(x, sp[p]),
           NEW k, Turns(h, k, L, p, s, up, h.level[up][Opposite(s)], SideOf(x, h.level[p].parent))
    PROVE  TurnedHeights(h, k, L, p, s, up, SideOf(x, h.level[p].parent))
<1> DEFINE o == Opposite(s)
           ac == h.level[up][o]
           above == h.level[p].parent
           t == SideOf(x, above)
<1>1. L \in SUBSET Prices /\ sp \in Spans(L) /\ h \in Heap(L) /\ Null \notin L
  BY Pointers DEF Tree
<1>2. o \in Sides /\ o # s /\ Opposite(o) = s /\ Sides = {s, o}
  BY SidesAreTwo
<1>3. /\ up \in L /\ up # p /\ h.level[up].parent = p
      /\ ac \in L \cup {Null} /\ ac \notin {p, up}
      /\ h.level[p][o] \in (L \cup {Null}) \ {p, up}
      /\ h.level[up][s] \in (L \cup {Null}) \ {p, up}
      /\ above \in (L \cup {Null}) \ {p, up}
  <2>1. Site(h, L, p, s, up)
    BY RotationSite
  <2> QED
    BY <2>1 DEF Site
<1>4. /\ k.level[p][s] = ac /\ k.level[p][o] = h.level[p][o]
      /\ k.level[up][s] = h.level[up][s] /\ k.level[up][o] = p
      /\ \A q \in L, d \in Sides : q \notin {p, up, above} => k.level[q][d] = h.level[q][d]
      /\ above # Null => /\ t \in Sides => k.level[above][t] = up
                         /\ \A d \in Sides \ {t} : k.level[above][d] = h.level[above][d]
  <2> HIDE DEF above, t, ac, o
  <2> QED
    BY <1>2, <1>3 DEF Turns, above, t, ac, o
<1>5. /\ \A q \in L : q \notin {p, up} => k.level[q].height = h.level[q].height
      /\ k.level[p].height = 1 + Max2(Height(h, ac), Height(h, h.level[p][o]))
      /\ k.level[up].height = 1 + Max2(Height(h, h.level[up][s]), k.level[p].height)
  BY DEF Turns
<1>6. \A c \in L \cup {Null} : c \notin {p, up} => Height(k, c) = Height(h, c)
  BY <1>5 DEF Height
<1>7. /\ Height(k, up) = k.level[up].height /\ Height(k, p) = k.level[p].height
  BY <1>1, <1>3 DEF Height
<1>8. above # Null => t \in Sides /\ Opposite(t) \in Sides /\ Opposite(t) # t /\ h.level[above][t] = p
  BY ParentSlot, SidesAreTwo
<1>9. \A q \in L, d \in Sides : /\ h.level[q][d] \in L \cup {Null}
                                /\ h.level[q][d] # Null => h.level[h.level[q][d]].parent = q
                                                        /\ d = SideOf(h.level[q][d], q)
  BY ChildrenAreLevels, ChildIsBetween
<1> HIDE DEF above, t, ac, o
<1>10. \A q \in L, d \in Sides : q \notin {p, up, above} => h.level[q][d] \notin {p, up}
  BY <1>1, <1>3, <1>9 DEF above
<1>11. above # Null => h.level[above][Opposite(t)] \notin {p, up} /\ above \in L
  BY <1>1, <1>3, <1>8, <1>9
<1>12. \A q \in L, d \in Sides : q \notin {p, up, above} => HeightAt(k, q, d) = HeightAt(h, q, d)
  BY <1>4, <1>6, <1>9, <1>10 DEF HeightAt
<1>13. above # Null => /\ HeightAt(k, above, t) = k.level[up].height
                       /\ HeightAt(k, above, Opposite(t)) = HeightAt(h, above, Opposite(t))
  BY <1>4, <1>6, <1>7, <1>8, <1>9, <1>11 DEF HeightAt
<1>14. /\ HeightAt(k, p, s) = HeightAt(h, up, o)
       /\ HeightAt(k, p, o) = HeightAt(h, p, o)
       /\ HeightAt(k, up, s) = HeightAt(h, up, s)
       /\ HeightAt(k, up, o) = k.level[p].height
  BY <1>3, <1>4, <1>6, <1>7 DEF HeightAt, ac
<1>15. /\ k.level[p].height = 1 + Max2(HeightAt(h, up, o), HeightAt(h, p, o))
       /\ k.level[up].height = 1 + Max2(HeightAt(h, up, s), k.level[p].height)
  BY <1>5 DEF HeightAt, ac
<1> QED
  BY <1>5, <1>12, <1>13, <1>14, <1>15 DEF TurnedHeights, above, t, o

\* What a settled level must give for the level above it.
Settled(h, k, L, a, t) ==
    LET above == h.level[a].parent
    IN  /\ \A q \in L : q # above => Stands(k, q)
        /\ above # Null =>
              /\ k.level[above].height = h.level[above].height
              /\ HeightAt(k, above, t) \in Int
              /\ HeightAt(k, above, t) - h.level[a].height \in -1..1
              /\ HeightAt(k, above, Opposite(t)) = HeightAt(h, above, Opposite(t))

\* If the subtree of a is settled, then only the level above may not stand.
LEMMA SettledIsEven ==
    ASSUME NEW L, NEW h, NEW sp, Tree(h, L, sp), NEW a \in L, NEW x \in Int, Within(x, sp[a]),
           Even(h, L, a), NEW k, Settled(h, k, L, a, SideOf(x, h.level[a].parent))
    PROVE  Even(k, L, h.level[a].parent)
<1> DEFINE above == h.level[a].parent
           t == SideOf(x, above)
<1>1. \A q \in L : q # above => Stands(k, q)
  BY DEF Settled
<1>2. ASSUME above \in L PROVE NearlyStands(k, above)
  <2>0. above # Null /\ a # Null
    BY <1>2, LevelsAreIntegers
  <2>1. t \in Sides /\ Opposite(t) \in Sides /\ h.level[above][t] = a /\ above # a
    BY <2>0, ParentSlot, SidesAreTwo
  <2>2. Stands(h, above)
    BY <1>2, <2>1 DEF Even
  <2>3. /\ h.level[above].height = 1 + Max2(HeightAt(h, above, t), HeightAt(h, above, Opposite(t)))
        /\ HeightAt(h, above, t) - HeightAt(h, above, Opposite(t)) \in -1..1
    BY <1>2, <2>1, <2>2, StandsOnSides
  <2>4. HeightAt(h, above, t) = h.level[a].height /\ h.level[a].height \in Nat
    BY <2>0, <2>1, HeightsAreNaturals DEF HeightAt, Height
  <2>5. /\ k.level[above].height = h.level[above].height
        /\ HeightAt(k, above, t) \in Int
        /\ HeightAt(k, above, t) - h.level[a].height \in -1..1
        /\ HeightAt(k, above, Opposite(t)) = HeightAt(h, above, Opposite(t))
    BY <2>0 DEF Settled
  <2> DEFINE d == HeightAt(k, above, t) - h.level[a].height
  <2>6. HeightAt(k, above, t) - d = HeightAt(h, above, t)
    <3> HIDE DEF above, t
    <3> QED
      BY <2>4, <2>5
  <2> HIDE DEF d, t, above
  <2> QED
    BY <2>1, <2>3, <2>4, <2>5, <2>6 DEF NearlyStands, d
<1> QED
  BY <1>1, <1>2 DEF Even

\* The height of a level that nearly stands is at most one off.
LEMMA NearlyRightHeight ==
    ASSUME NEW L, NEW h, NEW sp, Tree(h, L, sp), NEW a \in L, NearlyStands(h, a), NEW s \in Sides
    PROVE  LET x == HeightAt(h, a, s)
               y == HeightAt(h, a, Opposite(s))
               H == h.level[a].height
           IN  /\ x - y \in -2..2
               /\ x - y \in -1..1 => (1 + Max2(x, y)) - H \in -1..1
               /\ x - y = 2 => H = x \/ H = x + 1
<1> DEFINE x == HeightAt(h, a, s)
           y == HeightAt(h, a, Opposite(s))
           H == h.level[a].height
<1>1. /\ x \in Nat /\ y \in Nat /\ H \in Nat
  BY SidesAreTwo, HeightsAreNaturals
<1>2. PICK r \in Sides, d \in -1..1 :
         LET u == HeightAt(h, a, r) - d
             v == HeightAt(h, a, Opposite(r))
         IN  /\ u >= 0
             /\ u - v \in -1..1
             /\ H = 1 + Max2(u, v)
  BY DEF NearlyStands
<1>3. CASE r = s
  <2>1. x - d >= 0 /\ (x - d) - y \in -1..1 /\ H = 1 + Max2(x - d, y)
    BY <1>2, <1>3
  <2> HIDE DEF x, y, H
  <2>2. /\ x - y \in -2..2
        /\ x - y \in -1..1 => (1 + Max2(x, y)) - H \in -1..1
        /\ x - y = 2 => H = x \/ H = x + 1
    BY <1>1, <2>1 DEF Max2
  <2> QED
    BY <2>2 DEF x, y, H
<1>4. CASE r = Opposite(s)
  <2>1. y - d >= 0 /\ (y - d) - x \in -1..1 /\ H = 1 + Max2(y - d, x)
    BY <1>2, <1>4, SidesAreTwo
  <2> HIDE DEF x, y, H
  <2>2. /\ x - y \in -2..2
        /\ x - y \in -1..1 => (1 + Max2(x, y)) - H \in -1..1
        /\ x - y = 2 => H = x \/ H = x + 1
    BY <1>1, <2>1 DEF Max2
  <2> QED
    BY <2>2 DEF x, y, H
<1> QED
  BY <1>3, <1>4, SidesAreTwo

\* The heap when the height of a level has been set right.
HeightSet(h, g, L, a) ==
    /\ g.edge = h.edge
    /\ \A q \in L : /\ g.level[q].parent = h.level[q].parent
                    /\ \A d \in Sides : g.level[q][d] = h.level[q][d]
                    /\ q # a => g.level[q].height = h.level[q].height
    /\ g.level[a].height = 1 + Max2(HeightAt(h, a, "left"), HeightAt(h, a, "right"))
    /\ \A q \in L, d \in Sides : h.level[q][d] # a => HeightAt(g, q, d) = HeightAt(h, q, d)
    /\ \A q \in L, d \in Sides : h.level[q][d] = a => HeightAt(g, q, d) = g.level[a].height

\* updateLimitHeight makes the height of a level right.
LEMMA UpdateSetsHeight ==
    ASSUME NEW L, NEW h, NEW sp, Tree(h, L, sp), NEW a \in L
    PROVE  /\ Tree(updateLimitHeight(h, a), L, sp)
           /\ HeightSet(h, updateLimitHeight(h, a), L, a)
<1> DEFINE g == updateLimitHeight(h, a)
           v == 1 + Max2(Height(h, h.level[a].left), Height(h, h.level[a].right))
<1>1. L \in SUBSET Prices /\ h \in Heap(L) /\ Null \notin L
  BY Pointers DEF Tree
<1>2. SetsHeight(h, g, L, a, v)
  BY <1>1, ChildrenAreLevels, UpdateHeight
<1> HIDE DEF g
<1>3. Tree(g, L, sp)
  BY <1>2, TreeHasNoHeights
<1>4. /\ g.edge = h.edge
      /\ \A q \in L : /\ g.level[q].parent = h.level[q].parent
                      /\ \A d \in Sides : g.level[q][d] = h.level[q][d]
                      /\ q # a => g.level[q].height = h.level[q].height
      /\ g.level[a].height = v
  BY <1>2 DEF SetsHeight
<1>5. \A q \in L, d \in Sides : h.level[q][d] \in L \cup {Null}
  BY ChildrenAreLevels
<1>6. \A q \in L, d \in Sides : h.level[q][d] # a => HeightAt(g, q, d) = HeightAt(h, q, d)
  BY <1>4, <1>5 DEF HeightAt, Height
<1>7. \A q \in L, d \in Sides : h.level[q][d] = a => HeightAt(g, q, d) = g.level[a].height
  BY <1>1, <1>4, <1>5 DEF HeightAt, Height
<1>8. HeightSet(h, g, L, a)
  BY <1>4, <1>6, <1>7 DEF HeightSet, HeightAt
<1> QED
  BY <1>3, <1>8 DEF g

\* The slot above a level holds it.
LEMMA SlotIsFilled ==
    ASSUME NEW L, NEW h, NEW sp, Tree(h, L, sp), NEW a \in L, NEW x \in Int, Within(x, sp[a])
    PROVE  Join(h, x, h.level[a].parent, a) = h
<1> DEFINE above == h.level[a].parent
<1>1. CASE above = Null
  BY <1>1 DEF Join
<1>2. CASE above # Null
  <2>1. above \in L /\ SideOf(x, above) \in Sides /\ h.level[above][SideOf(x, above)] = a
    BY <1>2, ParentSlot
  <2>2. Join(h, x, above, a) = [h EXCEPT !.level[above][SideOf(x, above)] = a]
    BY <1>2 DEF Join
  <2>3. L \in SUBSET Prices /\ h \in Heap(L)
    BY DEF Tree
  <2> QED
    BY <2>1, <2>2, <2>3 DEF Heap, Node, Sides
<1> QED
  BY <1>1, <1>2

\* Facts about the levels around a, before and after its height is set.
LEMMA Around ==
    ASSUME NEW L, NEW h, NEW sp, Tree(h, L, sp), NEW a \in L, NEW x \in Int, Within(x, sp[a]),
           Even(h, L, a), NEW g, HeightSet(h, g, L, a)
    PROVE  LET above == h.level[a].parent
               t == SideOf(x, above)
           IN  /\ \A q \in L : q \notin {a, above} => Stands(g, q)
               /\ \A d \in Sides : HeightAt(g, a, d) = HeightAt(h, a, d)
               /\ above # Null => /\ above \in L /\ above # a /\ t \in Sides
                                  /\ g.level[above].height = h.level[above].height
                                  /\ HeightAt(g, above, t) = g.level[a].height
                                  /\ HeightAt(g, above, Opposite(t)) = HeightAt(h, above, Opposite(t))
<1> DEFINE above == h.level[a].parent
           t == SideOf(x, above)
<1>1. L \in SUBSET Prices /\ h \in Heap(L) /\ Null \notin L
  BY Pointers DEF Tree
<1>2. \A q \in L, d \in Sides : h.level[q][d] = a => q = above /\ d = SideOf(a, q) /\ a # q
  BY <1>1, ChildIsBetween
<1>3. \A d \in Sides : HeightAt(g, a, d) = HeightAt(h, a, d)
  BY <1>2 DEF HeightSet
<1>4. \A q \in L, d \in Sides : q # above => HeightAt(g, q, d) = HeightAt(h, q, d)
  BY <1>2 DEF HeightSet
<1>5. \A q \in L : q \notin {a, above} => Stands(g, q)
  <2> HIDE DEF above
  <2> SUFFICES ASSUME NEW q \in L, q \notin {a, above} PROVE Stands(g, q)
    OBVIOUS
  <2>1. Stands(h, q)
    BY DEF Even
  <2>2. g.level[q].height = h.level[q].height
    BY DEF HeightSet
  <2> QED
    BY <1>4, <2>1, <2>2, SidesAreTwo DEF Stands
<1>6. ASSUME above # Null
      PROVE  /\ above \in L /\ above # a /\ t \in Sides
             /\ g.level[above].height = h.level[above].height
             /\ HeightAt(g, above, t) = g.level[a].height
             /\ HeightAt(g, above, Opposite(t)) = HeightAt(h, above, Opposite(t))
  <2>1. /\ above \in L /\ t \in Sides /\ Opposite(t) \in Sides /\ Opposite(t) # t
        /\ h.level[above][t] = a /\ above # a
    BY <1>6, ParentSlot, SidesAreTwo
  <2>2. h.level[above][Opposite(t)] # a
    BY <1>2, <2>1
  <2> HIDE DEF above, t
  <2> QED
    BY <2>1, <2>2 DEF HeightSet
<1> QED
  BY <1>3, <1>5, <1>6

\* A level stands if its two sides do not differ by more than one and its height fits.
LEMMA StandsFromSides ==
    ASSUME NEW h, NEW q, NEW s \in Sides, NEW x \in Nat, NEW y \in Nat,
           HeightAt(h, q, s) = x, HeightAt(h, q, Opposite(s)) = y,
           h.level[q].height = 1 + Max2(x, y), x - y \in -1..1
    PROVE  Stands(h, q)
<1>1. CASE s = "left"
  BY <1>1, SidesAreTwo DEF Stands
<1>2. CASE s = "right"
  BY <1>2, SidesAreTwo DEF Stands, Max2
<1> QED
  BY <1>1, <1>2 DEF Sides

\* A level that balance leaves alone is settled.
LEMMA StaysSettled ==
    ASSUME NEW L, NEW h, NEW sp, Tree(h, L, sp), NEW a \in L, NEW x \in Int, Within(x, sp[a]),
           Even(h, L, a), NEW g, HeightSet(h, g, L, a), Tree(g, L, sp),
           limitHeightDifference(g, a) \in -1..1
    PROVE  Settled(h, g, L, a, SideOf(x, h.level[a].parent))
<1> DEFINE above == h.level[a].parent
           t == SideOf(x, above)
           X == HeightAt(h, a, "left")
           Y == HeightAt(h, a, "right")
<1>1. /\ \A q \in L : q \notin {a, above} => Stands(g, q)
      /\ \A d \in Sides : HeightAt(g, a, d) = HeightAt(h, a, d)
      /\ above # Null => /\ above \in L /\ above # a
                         /\ g.level[above].height = h.level[above].height
                         /\ HeightAt(g, above, t) = g.level[a].height
                         /\ HeightAt(g, above, Opposite(t)) = HeightAt(h, above, Opposite(t))
  BY Around
<1>2. g.level[a].height = 1 + Max2(X, Y)
  BY DEF HeightSet
<1>3. X - Y \in -1..1
  BY <1>1, SidesAreTwo DEF limitHeightDifference, HeightAt
<1>4. Stands(g, a)
  BY <1>1, <1>2, <1>3, SidesAreTwo DEF Stands
<1>5. g.level[a].height - h.level[a].height \in -1..1
  <2>1. NearlyStands(h, a)
    BY DEF Even
  <2> QED
    BY <1>2, <1>3, <2>1, NearlyRightHeight, SidesAreTwo
<1>6. g.level[a].height \in Int
  BY HeightsAreNaturals
<1> HIDE DEF above, t
<1> QED
  BY <1>1, <1>4, <1>5, <1>6 DEF Settled, above, t

\* A single rotation settles a level that leans by two to the outside.
LEMMA RotationSettles ==
    ASSUME NEW L, NEW h, NEW sp, Tree(h, L, sp), NEW a \in L, NEW x \in Int, Within(x, sp[a]),
           Even(h, L, a), NEW g, HeightSet(h, g, L, a), Tree(g, L, sp),
           NEW s \in Sides, HeightAt(g, a, s) - HeightAt(g, a, Opposite(s)) > 1,
           NEW c, c = g.level[a][s],
           HeightAt(g, c, s) >= HeightAt(g, c, Opposite(s)),
           NEW k, TurnedHeights(g, k, L, a, s, c, SideOf(x, h.level[a].parent))
    PROVE  Settled(h, k, L, a, SideOf(x, h.level[a].parent))
<1> DEFINE above == h.level[a].parent
           t == SideOf(x, above)
           o == Opposite(s)
           X == HeightAt(g, a, s)
           Y == HeightAt(g, a, o)
           S == HeightAt(g, c, s)
           A == HeightAt(g, c, o)
           H == h.level[a].height
<1>1. /\ \A q \in L : q \notin {a, above} => Stands(g, q)
      /\ \A d \in Sides : HeightAt(g, a, d) = HeightAt(h, a, d)
      /\ above # Null => /\ above \in L /\ above # a /\ t \in Sides
                         /\ g.level[above].height = h.level[above].height
                         /\ HeightAt(g, above, t) = g.level[a].height
                         /\ HeightAt(g, above, Opposite(t)) = HeightAt(h, above, Opposite(t))
  BY Around
<1>2. g.level[a].parent = above
  BY DEF HeightSet
<1>3. o \in Sides /\ Opposite(o) = s
  BY SidesAreTwo
<1>4. X \in Nat /\ Y \in Nat /\ X = HeightAt(h, a, s) /\ Y = HeightAt(h, a, o)
  BY <1>1, <1>3, HeightsAreNaturals
<1>5. X - Y = 2 /\ (H = X \/ H = X + 1) /\ H \in Nat
  <2>1. NearlyStands(h, a)
    BY DEF Even
  <2>2. X - Y \in -2..2 /\ (X - Y = 2 => H = X \/ H = X + 1)
    BY <1>4, <2>1, NearlyRightHeight
  <2>3. H \in Nat
    BY HeightsAreNaturals
  <2>4. X - Y > 1
    OBVIOUS
  <2> HIDE DEF X, Y, H
  <2> QED
    BY <1>4, <2>2, <2>3, <2>4
<1>6. c # Null /\ X = g.level[c].height
  <2>1. X > 0
    BY <1>4, <1>5
  <2> QED
    BY <2>1, HeightsAreNaturals
<1>7. Site(g, L, a, s, c)
  BY <1>6, RotationSite
<1>8. c \in L /\ c # a /\ c # above
  BY <1>2, <1>7 DEF Site
<1>9. S \in Nat /\ A \in Nat
  BY <1>3, <1>8, HeightsAreNaturals
<1>10. X = 1 + Max2(S, A) /\ S - A \in -1..1
  <2>1. Stands(g, c)
    BY <1>1, <1>8
  <2> QED
    BY <1>6, <1>8, <2>1, StandsOnSides
<1> HIDE DEF above, t, o, X, Y, S, A, H
<1>11. /\ S = X - 1 /\ A - Y \in -1..1
       /\ S - (1 + Max2(A, Y)) \in -1..1
       /\ (1 + Max2(S, 1 + Max2(A, Y))) - H \in -1..1
  BY <1>4, <1>5, <1>9, <1>10 DEF Max2, S, A, o
<1>12. /\ \A q \in L : q \notin {a, c} => k.level[q].height = g.level[q].height
       /\ \A q \in L, d \in Sides : q \notin {a, c, above} => HeightAt(k, q, d) = HeightAt(g, q, d)
       /\ HeightAt(k, a, s) = A /\ HeightAt(k, a, o) = Y
       /\ HeightAt(k, c, s) = S /\ HeightAt(k, c, o) = k.level[a].height
       /\ k.level[a].height = 1 + Max2(A, Y)
       /\ k.level[c].height = 1 + Max2(S, k.level[a].height)
       /\ above # Null => /\ HeightAt(k, above, t) = k.level[c].height
                          /\ HeightAt(k, above, Opposite(t)) = HeightAt(g, above, Opposite(t))
  BY <1>2 DEF TurnedHeights, A, S, Y, o, t, above
<1>13. ASSUME NEW q \in L, q # above PROVE Stands(k, q)
  <2>1. CASE q \notin {a, c}
    BY <1>1, <1>12, <1>13, <2>1, SidesAreTwo DEF Stands
  <2>2. CASE q = a
    BY <1>4, <1>9, <1>11, <1>12, <2>2, StandsFromSides DEF o
  <2>3. CASE q = c
    BY <1>4, <1>9, <1>11, <1>12, <2>3, StandsFromSides DEF o, Max2
  <2> QED
    BY <2>1, <2>2, <2>3
<1>14. k.level[c].height \in Int /\ k.level[c].height - H \in -1..1
  <2>1. k.level[c].height = 1 + Max2(S, 1 + Max2(A, Y))
    BY <1>12
  <2>2. 1 + Max2(S, 1 + Max2(A, Y)) \in Int
    BY <1>4, <1>9 DEF Max2
  <2> QED
    BY <1>11, <2>1, <2>2
<1>15. ASSUME above # Null
       PROVE  /\ k.level[above].height = h.level[above].height
              /\ HeightAt(k, above, t) = k.level[c].height
              /\ HeightAt(k, above, Opposite(t)) = HeightAt(h, above, Opposite(t))
  BY <1>1, <1>8, <1>12, <1>15
<1> QED
  BY <1>13, <1>14, <1>15 DEF Settled, above, t, H

\* A double rotation settles a level that leans by two to the outside and whose child
\* leans to the inside.
LEMMA DoubleRotationSettles ==
    ASSUME NEW L, NEW h, NEW sp, Tree(h, L, sp), NEW a \in L, NEW x \in Int, Within(x, sp[a]),
           Even(h, L, a), NEW g, HeightSet(h, g, L, a), Tree(g, L, sp),
           NEW s \in Sides, HeightAt(g, a, s) - HeightAt(g, a, Opposite(s)) > 1,
           NEW c, c = g.level[a][s],
           NEW o, o = Opposite(s),
           HeightAt(g, c, s) < HeightAt(g, c, o),
           NEW up, up = g.level[c][o],
           NEW g1, TurnedHeights(g, g1, L, c, o, up, s), g1.level[a].parent = h.level[a].parent,
           NEW k, TurnedHeights(g1, k, L, a, s, up, SideOf(x, h.level[a].parent))
    PROVE  Settled(h, k, L, a, SideOf(x, h.level[a].parent))
<1> DEFINE above == h.level[a].parent
           t == SideOf(x, above)
           X == HeightAt(g, a, s)
           Y == HeightAt(g, a, o)
           S == HeightAt(g, c, s)
           A == HeightAt(g, c, o)
           US == HeightAt(g, up, s)
           UO == HeightAt(g, up, o)
           H == h.level[a].height
<1>1. /\ \A q \in L : q \notin {a, above} => Stands(g, q)
      /\ \A d \in Sides : HeightAt(g, a, d) = HeightAt(h, a, d)
      /\ above # Null => /\ above \in L /\ above # a /\ t \in Sides
                         /\ g.level[above].height = h.level[above].height
                         /\ HeightAt(g, above, t) = g.level[a].height
                         /\ HeightAt(g, above, Opposite(t)) = HeightAt(h, above, Opposite(t))
  BY Around
<1>2. g.level[a].parent = above
  BY DEF HeightSet
<1>3. o \in Sides /\ Opposite(o) = s
  BY SidesAreTwo
<1>4. X \in Nat /\ Y \in Nat /\ X = HeightAt(h, a, s) /\ Y = HeightAt(h, a, o)
  BY <1>1, <1>3, HeightsAreNaturals
<1>5. X - Y = 2 /\ (H = X \/ H = X + 1) /\ H \in Nat
  <2>1. NearlyStands(h, a)
    BY DEF Even
  <2>2. X - Y \in -2..2 /\ (X - Y = 2 => H = X \/ H = X + 1)
    BY <1>4, <2>1, NearlyRightHeight
  <2>3. H \in Nat
    BY HeightsAreNaturals
  <2>4. X - Y > 1
    OBVIOUS
  <2> HIDE DEF X, Y, H
  <2> QED
    BY <1>4, <2>2, <2>3, <2>4
<1>6. c # Null /\ X = g.level[c].height
  <2>1. X > 0
    BY <1>4, <1>5
  <2> QED
    BY <2>1, HeightsAreNaturals
<1>7. Site(g, L, a, s, c)
  BY <1>6, RotationSite
<1>8. c \in L /\ c # a /\ c # above /\ g.level[c].parent = a
  BY <1>2, <1>7 DEF Site
<1>9. S \in Nat /\ A \in Nat /\ A > 0
  BY <1>3, <1>8, HeightsAreNaturals
<1>10. X = 1 + Max2(S, A) /\ S - A \in -1..1
  <2>1. Stands(g, c)
    BY <1>1, <1>8
  <2> QED
    BY <1>6, <1>8, <2>1, StandsOnSides
<1>11. up # Null /\ A = g.level[up].height
  BY <1>3, <1>8, <1>9, HeightsAreNaturals
<1>23. \A q \in L, d \in Sides : g.level[q][d] # Null =>
          /\ g.level[q][d] \in L
          /\ sp[g.level[q][d]].right - sp[g.level[q][d]].left < sp[q].right - sp[q].left
  BY WidthsOfSpans
<1>24. \A q \in L : sp[q].right - sp[q].left \in Nat
  BY WidthsOfSpans
<1>25. above # Null => \E d \in Sides : above \in L /\ g.level[above][d] = a
  BY <1>2, ParentSlot
<1>12. up \in L /\ up \notin {a, c, above}
  <2> HIDE DEF above, X, Y, S, A, H, US, UO
  <2>1. up \in L /\ sp[up].right - sp[up].left < sp[c].right - sp[c].left
    BY <1>3, <1>8, <1>11, <1>23
  <2>2. sp[c].right - sp[c].left < sp[a].right - sp[a].left
    BY <1>6, <1>23
  <2>3. a # Null /\ Null \notin L
    BY LevelsAreIntegers
  <2>4. above # Null => above \in L /\ sp[a].right - sp[a].left < sp[above].right - sp[above].left
    BY <1>23, <1>25, <2>3
  <2>5. above # Null => up # above
    BY <1>8, <1>24, <2>1, <2>2, <2>4
  <2> QED
    BY <1>8, <1>24, <2>1, <2>2, <2>3, <2>5
<1>26. \A q \in L, d \in Sides : HeightAt(g, q, d) \in Nat
  BY HeightsAreNaturals
<1>27. \A q \in L, d \in Sides : Stands(g, q) =>
          /\ g.level[q].height = 1 + Max2(HeightAt(g, q, d), HeightAt(g, q, Opposite(d)))
          /\ HeightAt(g, q, d) - HeightAt(g, q, Opposite(d)) \in -1..1
  BY StandsOnSides
<1>13. US \in Nat /\ UO \in Nat
  <2>1. \A d \in Sides : HeightAt(g, up, d) \in Nat
    BY <1>12, <1>26, Zenon
  <2> QED
    BY <1>3, <2>1
<1>14. A = 1 + Max2(US, UO) /\ US - UO \in -1..1
  <2>1. Stands(g, up)
    BY <1>1, <1>12
  <2>2. /\ g.level[up].height = 1 + Max2(HeightAt(g, up, s), HeightAt(g, up, Opposite(s)))
        /\ HeightAt(g, up, s) - HeightAt(g, up, Opposite(s)) \in -1..1
    BY <1>12, <1>27, <2>1
  <2> QED
    BY <1>11, <2>2
<1>15. S < A
  OBVIOUS
<1> HIDE DEF above, t, X, Y, S, A, H, US, UO
<1>16. /\ \A q \in L : q \notin {c, up} => g1.level[q].height = g.level[q].height
       /\ \A q \in L, d \in Sides : q \notin {c, up, a} => HeightAt(g1, q, d) = HeightAt(g, q, d)
       /\ HeightAt(g1, c, o) = US /\ HeightAt(g1, c, s) = S
       /\ HeightAt(g1, up, o) = UO /\ HeightAt(g1, up, s) = g1.level[c].height
       /\ g1.level[c].height = 1 + Max2(US, S)
       /\ HeightAt(g1, a, o) = Y
  <2>1. a # Null
    BY LevelsAreIntegers
  <2> QED
    BY <1>3, <1>8, <2>1 DEF TurnedHeights, S, US, UO, Y
<1>17. /\ \A q \in L : q \notin {a, up} => k.level[q].height = g1.level[q].height
       /\ \A q \in L, d \in Sides : q \notin {a, up, above} => HeightAt(k, q, d) = HeightAt(g1, q, d)
       /\ HeightAt(k, a, s) = UO /\ HeightAt(k, a, o) = Y
       /\ HeightAt(k, up, s) = g1.level[c].height /\ HeightAt(k, up, o) = k.level[a].height
       /\ k.level[a].height = 1 + Max2(UO, Y)
       /\ k.level[up].height = 1 + Max2(g1.level[c].height, k.level[a].height)
       /\ above # Null => /\ HeightAt(k, above, t) = k.level[up].height
                          /\ HeightAt(k, above, Opposite(t)) = HeightAt(g1, above, Opposite(t))
  BY <1>16 DEF TurnedHeights, above, t
<1>18. /\ US - S \in -1..1 /\ UO - Y \in -1..1
       /\ 1 + Max2(US, S) = X - 1
       /\ 1 + Max2(UO, Y) = X - 1
       /\ S = Y
  BY <1>4, <1>5, <1>9, <1>10, <1>13, <1>14, <1>15 DEF Max2
<1>19. ASSUME NEW q \in L, q # above PROVE Stands(k, q)
  <2>1. CASE q \notin {a, c, up}
    <3>1. Stands(g, q)
      BY <1>1, <1>19, <2>1
    <3>2. k.level[q].height = g.level[q].height
      BY <1>16, <1>17, <2>1
    <3>3. \A d \in Sides : HeightAt(k, q, d) = HeightAt(g, q, d)
      BY <1>16, <1>17, <1>19, <2>1
    <3> QED
      BY <3>1, <3>2, <3>3, SidesAreTwo DEF Stands
  <2>2. CASE q = a
    BY <1>4, <1>13, <1>17, <1>18, <2>2, StandsFromSides
  <2>3. CASE q = c
    <3>1. /\ HeightAt(k, c, o) = US /\ HeightAt(k, c, s) = S
          /\ k.level[c].height = 1 + Max2(US, S)
      BY <1>3, <1>8, <1>12, <1>16, <1>17
    <3> QED
      BY <1>3, <1>9, <1>13, <1>18, <2>3, <3>1, StandsFromSides
  <2>4. CASE q = up
    <3>1. /\ HeightAt(k, up, s) = X - 1 /\ HeightAt(k, up, o) = X - 1
          /\ k.level[up].height = 1 + Max2(X - 1, X - 1)
      BY <1>16, <1>17, <1>18
    <3>2. X - 1 \in Nat /\ (X - 1) - (X - 1) \in -1..1
      BY <1>4, <1>5
    <3> HIDE DEF X
    <3> QED
      BY <2>4, <3>1, <3>2, StandsFromSides
  <2> QED
    BY <2>1, <2>2, <2>3, <2>4
<1>20. k.level[up].height = X
  <2>1. k.level[up].height = 1 + Max2(X - 1, X - 1)
    BY <1>16, <1>17, <1>18
  <2> QED
    BY <1>4, <2>1 DEF Max2
<1>21. k.level[up].height \in Int /\ k.level[up].height - H \in -1..1
  BY <1>4, <1>5, <1>20
<1>22. ASSUME above # Null
       PROVE  /\ k.level[above].height = h.level[above].height
              /\ HeightAt(k, above, t) = k.level[up].height
              /\ HeightAt(k, above, Opposite(t)) = HeightAt(h, above, Opposite(t))
  <2>1. Opposite(t) \in Sides
    BY <1>1, <1>22, SidesAreTwo
  <2> QED
    BY <1>1, <1>8, <1>12, <1>16, <1>17, <1>22, <2>1
<1> QED
  BY <1>19, <1>21, <1>22 DEF Settled, above, t, H

\* Setting the height and balancing leaves no level out of balance but perhaps
\* the one above.
LEMMA SettleKeepsEven ==
    ASSUME NEW L, NEW h, NEW sp, Tree(h, L, sp), NEW a \in L, NEW x \in Int, Within(x, sp[a]),
           Even(h, L, a)
    PROVE  LET done == Settle(h, a)
               above == h.level[a].parent
           IN  Even(Join(done.heap, x, above, done.top), L, above)
<1> DEFINE g == updateLimitHeight(h, a)
           done == balance(g, a)
           above == h.level[a].parent
           k == Join(done.heap, x, above, done.top)
           t == SideOf(x, above)
           factor == limitHeightDifference(g, a)
           s == IF factor > 0 THEN "left" ELSE "right"
           o == Opposite(s)
           c == g.level[a][s]
           lean == limitHeightDifference(g, c)
           up == g.level[c][o]
<1>1. Tree(g, L, sp) /\ HeightSet(h, g, L, a)
  BY UpdateSetsHeight
<1>2. g.level[a].parent = above
  BY <1>1 DEF HeightSet
<1> HIDE DEF g
<1>3. \A q \in L, d \in Sides : HeightAt(g, q, d) \in Nat
  BY <1>1, HeightsAreNaturals
<1>4. \A q \in L : limitHeightDifference(g, q) = HeightAt(g, q, "left") - HeightAt(g, q, "right")
  BY DEF limitHeightDifference, HeightAt
<1>5. s \in Sides /\ o \in Sides /\ factor \in Int
  BY <1>3, <1>4, SidesAreTwo DEF Sides
<1>6. CASE factor \in -1..1
  <2>1. done.heap = g /\ done.top = a
    BY <1>6 DEF balance
  <2>2. k = g
    BY <1>1, <1>2, <2>1, SlotIsFilled
  <2>3. Settled(h, g, L, a, t)
    BY <1>1, <1>6, StaysSettled
  <2> QED
    BY <2>2, <2>3, SettledIsEven DEF Settle, g
<1>7. CASE factor \notin -1..1
  <2>1. HeightAt(g, a, s) - HeightAt(g, a, o) > 1
    <3>1. HeightAt(g, a, "left") \in Nat /\ HeightAt(g, a, "right") \in Nat
          /\ factor = HeightAt(g, a, "left") - HeightAt(g, a, "right")
      BY <1>3, <1>4, SidesAreTwo
    <3>2. factor > 0 => s = "left" /\ o = "right"
      BY SidesAreTwo
    <3>3. ~(factor > 0) => s = "right" /\ o = "left"
      BY SidesAreTwo
    <3> HIDE DEF factor, s, o
    <3> QED
      BY <1>7, <3>1, <3>2, <3>3
  <2>2. c # Null /\ c \in L
    <3>1. HeightAt(g, a, s) > 0
      BY <1>3, <1>5, <2>1
    <3>2. c # Null
      BY <1>1, <1>5, <3>1, HeightsAreNaturals
    <3> QED
      BY <1>1, <1>5, <3>2, ChildrenAreLevels
  <2>3. (IF s = "left" THEN lean >= 0 ELSE lean <= 0) <=> HeightAt(g, c, s) >= HeightAt(g, c, o)
    <3>1. HeightAt(g, c, "left") \in Nat /\ HeightAt(g, c, "right") \in Nat
          /\ lean = HeightAt(g, c, "left") - HeightAt(g, c, "right")
      BY <1>3, <1>4, <2>2, SidesAreTwo
    <3>2. s = "left" => o = "right"
      BY SidesAreTwo
    <3>3. s = "right" => o = "left"
      BY SidesAreTwo
    <3> HIDE DEF s, o, c, lean
    <3> QED
      BY <1>5, <3>1, <3>2, <3>3 DEF Sides
  <2>4. CASE HeightAt(g, c, s) >= HeightAt(g, c, o)
    <3>1. done.heap = Rotate(g, a, s) /\ done.top = c
      BY <1>7, <2>3, <2>4 DEF balance
    <3> HIDE DEF s, done
    <3>2. Turns(g, Join(Rotate(g, a, s), x, above, c), L, a, s, c, g.level[c][o], t)
      BY <1>1, <1>2, <1>5, <2>2, RotateAndJoin
    <3>3. Turns(g, k, L, a, s, c, g.level[c][o], t)
      BY <3>1, <3>2
    <3>4. TurnedHeights(g, k, L, a, s, c, t)
      BY <1>1, <1>2, <1>5, <2>2, <3>3, RotationTurnsHeights
    <3>5. Settled(h, k, L, a, t)
      BY <1>1, <1>5, <2>1, <2>4, <3>4, RotationSettles
    <3> QED
      BY <3>5, SettledIsEven DEF Settle, g, done
  <2>5. CASE ~(HeightAt(g, c, s) >= HeightAt(g, c, o))
    <3>1. done.heap = RotateTwice(g, a, s) /\ done.top = up
      BY <1>7, <2>3, <2>5 DEF balance
    <3>2. HeightAt(g, c, s) < HeightAt(g, c, o) /\ HeightAt(g, c, o) > 0
      BY <1>3, <1>5, <2>2, <2>5
    <3>3. up # Null
      BY <1>1, <1>5, <2>2, <3>2, HeightsAreNaturals
    <3> HIDE DEF s, done
    <3>4. PICK g1, s1 : FirstTurn(g, g1, L, sp, s1, a, s, up)
      BY <1>1, <1>5, <2>2, <3>3, FirstTurnOfTwo
    <3>5. /\ Turns(g, g1, L, c, o, up, g.level[up][Opposite(o)], s)
          /\ Rebuilt(g, g1, L, sp, s1, c, up)
          /\ g.level[c].parent = a
          /\ s1[a] = sp[a] /\ g1.level[a].parent = above
          /\ g1.level[a][s] = up
          /\ RotateTwice(g, a, s) = Rotate(g1, a, s)
      BY <1>2, <3>4 DEF FirstTurn
    <3>6. Tree(g1, L, s1)
      BY <3>5 DEF Rebuilt
    <3>7. s = SideOf(c, a) /\ Within(c, sp[c]) /\ c \in Int
      BY <1>1, <1>5, <2>2, ChildIsBetween, LevelsAreIntegers
    <3>8. TurnedHeights(g, g1, L, c, o, up, s)
      <4> HIDE DEF c, up, o
      <4>1. up = g.level[c][o]
        BY DEF up
      <4>2. TurnedHeights(g, g1, L, c, o, up, SideOf(c, g.level[c].parent))
        BY <1>1, <1>5, <2>2, <3>3, <3>5, <3>7, <4>1, RotationTurnsHeights
      <4> QED
        BY <3>5, <3>7, <4>2
    <3> HIDE DEF c, up
    <3>9. Turns(g1, Join(Rotate(g1, a, s), x, above, up), L, a, s, up, g1.level[up][o], t)
      BY <1>5, <3>3, <3>5, <3>6, RotateAndJoin
    <3>10. k = Join(Rotate(g1, a, s), x, above, up)
      BY <3>1, <3>5
    <3>11. Turns(g1, k, L, a, s, up, g1.level[up][o], t)
      BY <3>9, <3>10
    <3>12. TurnedHeights(g1, k, L, a, s, up, t)
      BY <1>5, <3>3, <3>5, <3>6, <3>11, RotationTurnsHeights
    <3>13. c = g.level[a][s] /\ up = g.level[c][o]
      BY DEF c, up
    <3>14. Settled(h, k, L, a, t)
      BY <1>1, <1>5, <2>1, <3>2, <3>5, <3>8, <3>12, <3>13, DoubleRotationSettles
    <3> QED
      BY <3>14, SettledIsEven DEF Settle, g, done
  <2> QED
    BY <2>4, <2>5
<1> QED
  BY <1>6, <1>7

-----------------------------------------------------------------------------
(* addLimit.                                                               *)

\* The tree, the new level in it, when the parent of r has its new child.
Inserted(h, k, L, M, sp, sq, r, top) ==
    /\ Tree(k, M, sq)
    /\ k.edge = h.edge
    /\ top \in M
    /\ sq[top] = sp[r]
    /\ k.level[top].parent = h.level[r].parent
    /\ \A q \in L : ~Within(q, sp[r]) =>
          sq[q] = sp[q] /\ k.level[q].parent = h.level[q].parent

\* The tree is an AVL tree with the right heights.
AllStand(h, L) == \A q \in L : Stands(h, q)

\* What the recursion of insert promises for the subtree of r.
InsertsBelow(h, L, new, sp, r, res) ==
    LET M == L \cup {new}
        above == h.level[r].parent
        k == Join(res.heap, new, above, res.top)
    IN  /\ res.heap \in Heap(M)
        /\ res.heap.level[res.top].parent = above
        /\ \E sq : Inserted(h, k, L, M, sp, sq, r, res.top)
        /\ AllStand(h, L) => Even(k, M, above)

\* Before r is settled: it has its new child.
Linked(h, k, L, M, sp, sq, r) ==
    /\ Tree(k, M, sq)
    /\ k.edge = h.edge
    /\ sq[r] = sp[r]
    /\ k.level[r].parent = h.level[r].parent
    /\ \A q \in L : ~Within(q, sp[r]) =>
          sq[q] = sp[q] /\ k.level[q].parent = h.level[q].parent
    /\ AllStand(h, L) => Even(k, M, r)

\* The new level stands, and its parent nearly does.
LEMMA NewLinkIsEven ==
    ASSUME NEW L, NEW h, NEW sp, Tree(h, L, sp), NEW new \in Prices \ L,
           NEW r \in L, NEW s \in Sides, h.level[r][s] = Null,
           NEW k, LinksTo(h, k, L, new, r, s), AllStand(h, L)
    PROVE  Even(k, L \cup {new}, r)
<1>1. L \in SUBSET Prices /\ h \in Heap(L) /\ Null \notin L /\ new # Null
  BY Pointers DEF Tree, Prices, Null
<1>2. /\ \A q \in L, d \in Sides : k.level[q][d] = IF q = r /\ d = s THEN new ELSE h.level[q][d]
      /\ \A q \in L : k.level[q].height = h.level[q].height
      /\ \A d \in Sides : k.level[new][d] = Null
      /\ k.level[new].height = 1
  BY DEF LinksTo
<1>3. \A q \in L, d \in Sides : h.level[q][d] \in L \cup {Null}
  BY ChildrenAreLevels
<1>4. \A q \in L, d \in Sides : ~(q = r /\ d = s) => HeightAt(k, q, d) = HeightAt(h, q, d)
  BY <1>1, <1>2, <1>3 DEF HeightAt, Height
<1>5. HeightAt(k, r, s) = 1 /\ HeightAt(h, r, s) = 0
  BY <1>1, <1>2 DEF HeightAt, Height
<1>6. Stands(k, new)
  <2>1. \A d \in Sides : HeightAt(k, new, d) = 0
    BY <1>2 DEF HeightAt, Height
  <2> QED
    BY <1>2, <2>1, SidesAreTwo DEF Stands, Max2
<1>7. ASSUME NEW q \in L, q # r PROVE Stands(k, q)
  <2>1. Stands(h, q)
    BY DEF AllStand
  <2> QED
    BY <1>2, <1>4, <1>7, <2>1, SidesAreTwo DEF Stands
<1>8. NearlyStands(k, r)
  <2>1. Stands(h, r)
    BY DEF AllStand
  <2> DEFINE y == HeightAt(h, r, Opposite(s))
  <2>2. h.level[r].height = 1 + Max2(0, y) /\ 0 - y \in -1..1
    BY <1>5, <2>1, StandsOnSides
  <2>3. HeightAt(k, r, Opposite(s)) = y
    BY <1>4, SidesAreTwo
  <2> HIDE DEF y
  <2>4. /\ HeightAt(k, r, s) - 1 >= 0
        /\ (HeightAt(k, r, s) - 1) - HeightAt(k, r, Opposite(s)) \in -1..1
        /\ k.level[r].height = 1 + Max2(HeightAt(k, r, s) - 1, HeightAt(k, r, Opposite(s)))
    BY <1>2, <1>5, <2>2, <2>3
  <2>5. 1 \in -1..1
    OBVIOUS
  <2> QED
    BY <2>4, <2>5 DEF NearlyStands
<1> QED
  BY <1>6, <1>7, <1>8 DEF Even

\* A return of insert, from a child that has been rebuilt with the new level.
LEMMA SettleInserts ==
    ASSUME NEW L, NEW h, NEW sp, Tree(h, L, sp), NEW new \in Prices \ L, NEW r \in L,
           Within(new, sp[r]), NEW k, NEW s1, Linked(h, k, L, L \cup {new}, sp, s1, r)
    PROVE  InsertsBelow(h, L, new, sp, r, Settle(k, r))
<1> DEFINE M == L \cup {new}
           res == Settle(k, r)
           above == h.level[r].parent
           j == Join(res.heap, new, above, res.top)
<1>1. /\ Tree(k, M, s1) /\ k.edge = h.edge /\ s1[r] = sp[r] /\ k.level[r].parent = above
      /\ AllStand(h, L) => Even(k, M, r)
  BY DEF Linked
<1>2. r \in M /\ new \in Int /\ Within(new, s1[r])
  BY <1>1 DEF Prices
<1> HIDE DEF M
<1>3. /\ \E sq : Rebuilt(k, j, M, s1, sq, r, res.top)
      /\ res.heap \in Heap(M)
      /\ res.heap.level[res.top].parent = above
  BY <1>1, <1>2, SettleRebuilds
<1>4. AllStand(h, L) => Even(j, M, above)
  BY <1>1, <1>2, SettleKeepsEven
<1>5. PICK sq : Rebuilt(k, j, M, s1, sq, r, res.top)
  BY <1>3
<1> HIDE DEF res, j, above
<1>6. \A q \in L : ~Within(q, sp[r]) =>
          sq[q] = sp[q] /\ j.level[q].parent = h.level[q].parent
  BY <1>1, <1>5 DEF Rebuilt, Linked, M
<1>7. Inserted(h, j, L, M, sp, sq, r, res.top)
  BY <1>1, <1>5, <1>6 DEF Rebuilt, Inserted, above
<1> QED
  BY <1>3, <1>4, <1>7 DEF InsertsBelow, M, res, j, above

\* If the recursion keeps its promise below the child, then it keeps it at r.
LEMMA InsertStepInserts ==
    ASSUME NEW L, NEW h, NEW sp, Tree(h, L, sp), NEW new \in Prices \ L,
           NEW g, GrowsTo(h, g, L, new), NEW r \in L, Within(new, sp[r]), NEW f,
           NEW c, c = h.level[r][SideOf(new, r)],
           c # Null => InsertsBelow(h, L, new, sp, c, f[c])
    PROVE  InsertsBelow(h, L, new, sp, r, InsertStep(g, new, f, r))
<1> DEFINE M == L \cup {new}
           s == SideOf(new, r)
<1>1. L \in SUBSET Prices /\ sp \in Spans(L) /\ h \in Heap(L) /\ Null \notin L
  BY Pointers DEF Tree
<1>2. s \in Sides
  BY DEF SideOf, Sides
<1>3. g.level[r][s] = c
  BY <1>2 DEF GrowsTo
<1>4. CASE c = Null
  <2> DEFINE k == [[g EXCEPT !.level[new].parent = r] EXCEPT !.level[r][s] = new]
             s1 == LinkedSpans(sp, L, new, r, s)
  <2>1. InsertStep(g, new, f, r) = Settle(k, r)
    BY <1>3, <1>4 DEF InsertStep, Settle
  <2>2. LinksTo(h, k, L, new, r, s)
    BY <1>1, <1>2, LinkFields
  <2> HIDE DEF k
  <2>3. Tree(k, M, s1)
    BY <1>2, <1>4, <2>2, LinkKeepsTree
  <2>4. AllStand(h, L) => Even(k, M, r)
    BY <1>2, <1>4, <2>2, NewLinkIsEven
  <2>5. \A q \in L : s1[q] = sp[q]
    BY DEF LinkedSpans
  <2> HIDE DEF s1, s
  <2>6. Linked(h, k, L, M, sp, s1, r)
    BY <2>2, <2>3, <2>4, <2>5 DEF Linked, LinksTo
  <2> QED
    BY <2>1, <2>6, SettleInserts
<1>5. CASE c # Null
  <2> DEFINE sub == f[c]
             k == Join(sub.heap, new, r, sub.top)
  <2>1. InsertStep(g, new, f, r) = Settle(k, r)
    <3>1. InsertStep(g, new, f, r) = Settle([sub.heap EXCEPT !.level[r][s] = sub.top], r)
      <4> HIDE DEF s
      <4>1. SideOf(new, r) = s
        BY DEF s
      <4>2. (IF g.level[r][s] = Null
             THEN [heap |-> [g EXCEPT !.level[new].parent = r], top |-> new]
             ELSE f[g.level[r][s]]) = sub
        BY <1>3, <1>5
      <4> QED
        BY <4>1, <4>2, Zenon DEF InsertStep, Settle
    <3>2. k = [sub.heap EXCEPT !.level[r][s] = sub.top]
      BY <1>1 DEF Join
    <3> QED
      BY <3>1, <3>2
  <2>2. /\ c \in L /\ h.level[c].parent = r /\ sp[c][Opposite(s)] = r
    BY <1>2, <1>5, ChildIsBetween
  <2>3. /\ \E sq : Inserted(h, k, L, M, sp, sq, c, sub.top)
        /\ AllStand(h, L) => Even(k, M, r)
    BY <1>5, <2>2 DEF InsertsBelow
  <2>4. PICK s1 : Inserted(h, k, L, M, sp, s1, c, sub.top)
    BY <2>3
  <2>5. ~Within(r, sp[c])
    <3>1. sp[c].left = r \/ sp[c].right = r
      BY <1>2, <2>2, SidesAreTwo DEF Sides
    <3> QED
      BY <1>1, <3>1 DEF Within, Prices
  <2>6. \A q \in L : ~Within(q, sp[r]) => ~Within(q, sp[c])
    BY <1>2, <1>5, ChildIsWithin, LevelsAreIntegers
  <2> HIDE DEF k, s, sub
  <2>7. Linked(h, k, L, M, sp, s1, r)
    BY <2>3, <2>4, <2>5, <2>6 DEF Inserted, Linked
  <2> QED
    BY <2>1, <2>7, SettleInserts
<1> QED
  BY <1>4, <1>5

\* The recursion of insert goes down to smaller and smaller spans.
LEMMA InsertKeepsTree ==
    ASSUME NEW L, NEW h, NEW sp, Tree(h, L, sp), L # {}, NEW new \in Prices \ L,
           NEW g, GrowsTo(h, g, L, new)
    PROVE  InsertsBelow(h, L, new, sp, h.root, insert(g, new))
<1> DEFINE M == L \cup {new}
           w == [q \in M |-> IF q \in L THEN sp[q].right - sp[q].left ELSE 0]
<1>1. L \in SUBSET Prices /\ sp \in Spans(L) /\ h \in Heap(L) /\ Null \notin L
  BY Pointers DEF Tree
<1>2. /\ DOMAIN g.level = M /\ g.root = h.root
      /\ \A q \in L : g.level[q] = h.level[q]
      /\ \A t \in Sides : g.level[new][t] = Null
  BY DEF GrowsTo, Heap
<1>3. \A q \in L : /\ sp[q].right - sp[q].left \in Nat
                   /\ sp[q].right - sp[q].left <= MaxPrice + 1
  BY WidthsOfSpans
<1>4. \A q \in L, d \in Sides : h.level[q][d] # Null =>
          /\ h.level[q][d] \in L
          /\ sp[h.level[q][d]].right - sp[h.level[q][d]].left < sp[q].right - sp[q].left
  BY WidthsOfSpans
<1>5. \A q \in M : SideOf(new, q) \in Sides
  BY DEF SideOf, Sides
<1>6. \E f : IsInsert(f, g, new)
  <2>1. w \in [M -> Nat] /\ \A q \in M : w[q] <= MaxPrice + 1
    BY <1>3, MaxPriceIsNatural
  <2>2. \A q \in M : LET c == g.level[q][SideOf(new, q)]
                     IN  c # Null => c \in M /\ w[c] < w[q]
    <3> SUFFICES ASSUME NEW q \in M, NEW c, c = g.level[q][SideOf(new, q)], c # Null
                 PROVE  c \in M /\ w[c] < w[q]
      OBVIOUS
    <3>1. q \in L
      BY <1>2, <1>5
    <3>2. /\ c \in L /\ sp[c].right - sp[c].left < sp[q].right - sp[q].left
      BY <1>2, <1>4, <1>5, <3>1
    <3> QED
      BY <3>1, <3>2
  <2>3. MaxPrice + 1 \in Nat
    BY MaxPriceIsNatural
  <2> HIDE DEF w, M
  <2>4. w \in [DOMAIN g.level -> Nat] /\ \A r \in DOMAIN g.level : w[r] <= MaxPrice + 1
    BY <1>2, <2>1
  <2>5. \A r \in DOMAIN g.level :
              LET c == g.level[r][SideOf(new, r)]
              IN  c # Null => c \in DOMAIN g.level /\ w[c] < w[r]
    BY <1>2, <2>2
  <2> QED
    BY <2>3, <2>4, <2>5, InsertExists
<1>7. PICK f : IsInsert(f, g, new) /\ insert(g, new) = f[g.root]
  BY <1>6, InsertIsRecursion
<1>8. \A r \in L : f[r] = InsertStep(g, new, f, r)
  BY <1>2, <1>7 DEF IsInsert
<1> DEFINE Bad == {r \in L : Within(new, sp[r]) /\ ~InsertsBelow(h, L, new, sp, r, f[r])}
<1>9. Bad = {}
  <2> SUFFICES ASSUME Bad # {} PROVE FALSE
    OBVIOUS
  <2>1. PICK r \in Bad : \A y \in Bad : w[r] <= w[y]
    <3>1. \A y \in Bad : w[y] \in Nat
      BY <1>3
    <3> HIDE DEF Bad, w
    <3> QED
      BY <3>1, LeastExists
  <2> DEFINE c == h.level[r][SideOf(new, r)]
  <2>2. ASSUME c # Null PROVE InsertsBelow(h, L, new, sp, c, f[c])
    <3>1. c \in L /\ w[c] < w[r] /\ w[c] \in Nat /\ w[r] \in Nat
      BY <1>3, <1>4, <1>5, <2>2
    <3>2. Within(new, sp[c])
      <4>1. Between(new, r, sp[r][SideOf(new, r)])
        <5>1. sp[r].left < new /\ new < sp[r].right /\ new # r /\ new \in Int /\ r \in Int
          BY <1>1 DEF Within, Prices
        <5> QED
          BY <5>1 DEF Between, SideOf
      <4>2. sp[c][SideOf(new, r)] = sp[r][SideOf(new, r)] /\ sp[c][Opposite(SideOf(new, r))] = r
        BY <1>5, <2>2, ChildIsBetween
      <4>3. /\ sp[r].left \in Int /\ sp[r].right \in Int /\ sp[r].left < new /\ new < sp[r].right
            /\ r \in Int /\ new \in Int
        BY <1>1, SpansAreIntegers DEF Within, Prices
      <4> HIDE DEF c
      <4> QED
        BY <4>1, <4>2, <4>3, SidesAreTwo DEF Within, Between, SideOf
    <3> QED
      BY <2>1, <3>1, <3>2
  <2>3. InsertsBelow(h, L, new, sp, r, InsertStep(g, new, f, r))
    BY <2>2, InsertStepInserts
  <2> QED
    BY <1>8, <2>3
<1>10. h.root \in L /\ Within(new, sp[h.root])
  <2>1. h.root \in L /\ sp[h.root].left = 0 /\ sp[h.root].right = MaxPrice + 1
    BY DEF Tree, RootLink
  <2> QED
    BY <2>1, MaxPriceIsNatural DEF Within, Prices
<1> QED
  BY <1>2, <1>7, <1>9, <1>10

\* The tree does not depend on the edge, nor the heights.
LEMMA TreeHasNoEdge ==
    ASSUME NEW L, NEW h, NEW sp, Tree(h, L, sp), NEW k, NEW e \in Pointer,
           k = [level |-> h.level, root |-> h.root, edge |-> e]
    PROVE  /\ Tree(k, L, sp)
           /\ AllStand(h, L) => AllStand(k, L)
<1>1. k.level = h.level /\ k.root = h.root
  OBVIOUS
<1>2. k \in Heap(L)
  BY DEF Tree, Heap
<1>3. \A q \in L, s \in Sides : ChildLink(k, L, sp, q, s)
  BY <1>1 DEF Tree, ChildLink
<1>4. \A q \in L : ParentLink(k, L, q)
  <2>1. \A q \in L : ParentLink(h, L, q)
    BY DEF Tree
  <2> HIDE DEF Tree
  <2> QED
    BY <1>1, <2>1 DEF ParentLink
<1>5. RootLink(k, L, sp)
  BY <1>1 DEF Tree, RootLink
<1>6. AllStand(h, L) => AllStand(k, L)
  BY <1>1 DEF AllStand, Stands, HeightAt, Height
<1> QED
  BY <1>2, <1>3, <1>4, <1>5, <1>6 DEF Tree

\* The first level of an empty tree is a tree, and stands.
LEMMA FirstLevelIsATree ==
    ASSUME NEW new \in Prices, NEW h \in Heap({}), NEW k,
           k = [Grown(h, new) EXCEPT !.root = new, !.edge = new]
    PROVE  /\ Tree(k, {new}, [q \in {new} |-> [left |-> 0, right |-> MaxPrice + 1]])
           /\ AllStand(k, {new})
           /\ k.edge = new
<1> DEFINE L == {new}
           g == Grown(h, new)
           sp == [q \in L |-> [left |-> 0, right |-> MaxPrice + 1]]
<1>1. GrowsTo(h, g, {}, new)
  BY GrownFields
<1> HIDE DEF g
<1>2. /\ g \in Heap(L)
      /\ \A t \in Sides : g.level[new][t] = Null
      /\ g.level[new].parent = Null /\ g.level[new].height = 1
  BY <1>1 DEF GrowsTo
<1>3. k = [g EXCEPT !.root = new, !.edge = new]
  BY DEF g
<1>4. k.level = g.level /\ k.root = new /\ k.edge = new /\ k \in Heap(L)
  BY <1>2, <1>3 DEF Heap, Pointer
<1>5. new # Null /\ new \in Nat /\ 0 < new /\ new < MaxPrice + 1
  BY MaxPriceIsNatural DEF Prices, Null
<1>6. sp \in Spans(L) /\ Within(new, sp[new])
  BY <1>5, MaxPriceIsNatural DEF Spans, Bound, Within
<1>7. sp[new].left = 0 /\ sp[new].right = MaxPrice + 1
  OBVIOUS
<1>8. ASSUME NEW q \in L, NEW s \in Sides PROVE ChildLink(k, L, sp, q, s)
  BY <1>2, <1>4, <1>5, <1>7 DEF ChildLink, Between, Sides
<1> HIDE DEF sp
<1>9. ASSUME NEW q \in L PROVE ParentLink(k, L, q)
  BY <1>2, <1>4 DEF ParentLink
<1>10. RootLink(k, L, sp)
  BY <1>4, <1>5, <1>7 DEF RootLink
<1>11. Tree(k, L, sp)
  BY <1>4, <1>6, <1>8, <1>9, <1>10 DEF Tree
<1>12. AllStand(k, L)
  <2>1. HeightAt(k, new, "left") = 0 /\ HeightAt(k, new, "right") = 0
    BY <1>2, <1>4, SidesAreTwo DEF HeightAt, Height
  <2> QED
    BY <1>2, <1>4, <2>1 DEF AllStand, Stands, Max2
<1> QED
  BY <1>4, <1>11, <1>12 DEF sp

\* A level that comes.
Adds(h, k, L, new) ==
    /\ \E sq : Tree(k, L \cup {new}, sq)
    /\ AllStand(h, L) => AllStand(k, L \cup {new})
    /\ L = {} => k.edge = new
    /\ L # {} => k.edge = IF Precedes(new, h.edge) THEN new ELSE h.edge

\* addLimit makes a tree with the new level, keeps it an AVL tree if it was one, and
\* moves the edge to a better price.
LEMMA AddLimitAdds ==
    ASSUME NEW L, NEW h, NEW sp, Tree(h, L, sp), NEW new \in Prices \ L
    PROVE  Adds(h, addLimit(h, new), L, new)
<1> DEFINE g == Grown(h, new)
           M == L \cup {new}
           ins == insert(g, new)
           k == addLimit(h, new)
<1>1. L \in SUBSET Prices /\ sp \in Spans(L) /\ h \in Heap(L) /\ Null \notin L
  BY Pointers DEF Tree
<1>2. h.root = Null <=> L = {}
  BY <1>1 DEF Tree, RootLink
<1>3. k = IF h.root = Null
          THEN [g EXCEPT !.root = new, !.edge = new]
          ELSE [ins.heap EXCEPT !.root = ins.top, !.edge = IF Precedes(new, @) THEN new ELSE @]
  BY DEF addLimit, Grown
<1>4. CASE L = {}
  <2>1. h \in Heap({}) /\ M = {new} /\ k = [g EXCEPT !.root = new, !.edge = new]
    BY <1>1, <1>2, <1>3, <1>4
  <2> HIDE DEF k
  <2>2. /\ \E sq : Tree(k, {new}, sq)
        /\ AllStand(k, {new})
        /\ k.edge = new
    BY <2>1, FirstLevelIsATree
  <2> QED
    BY <1>4, <2>1, <2>2 DEF Adds, k
<1>5. CASE L # {}
  <2>1. GrowsTo(h, g, L, new)
    BY <1>1, GrownFields
  <2> HIDE DEF g
  <2>2. InsertsBelow(h, L, new, sp, h.root, ins)
    BY <1>5, <2>1, InsertKeepsTree
  <2>3. h.root \in L /\ h.level[h.root].parent = Null
    BY <1>2, <1>5 DEF Tree, RootLink, ParentLink
  <2> HIDE DEF ins
  <2> DEFINE j == ins.heap
  <2>4. /\ j \in Heap(M)
        /\ \E sq : Inserted(h, j, L, M, sp, sq, h.root, ins.top)
        /\ AllStand(h, L) => Even(j, M, Null)
    BY <2>2, <2>3 DEF InsertsBelow, Join
  <2>5. PICK sq : Inserted(h, j, L, M, sp, sq, h.root, ins.top)
    BY <2>4
  <2>6. /\ Tree(j, M, sq) /\ j.edge = h.edge
        /\ ins.top \in M /\ j.level[ins.top].parent = Null
    BY <2>3, <2>5 DEF Inserted
  <2>7. ins.top = j.root
    BY <2>6 DEF Tree, ParentLink
  <2>8. h.edge \in Pointer /\ new \in Pointer
    BY <1>1, Pointers DEF Pointer
  <2> DEFINE e == IF Precedes(new, h.edge) THEN new ELSE h.edge
  <2>9. k = [level |-> j.level, root |-> j.root, edge |-> e]
    <3>1. k = [j EXCEPT !.root = ins.top, !.edge = e]
      BY <1>2, <1>3, <1>5, <2>4, <2>6 DEF Heap
    <3>2. j = [level |-> j.level, root |-> j.root, edge |-> j.edge]
      BY <2>4 DEF Heap
    <3> HIDE DEF j, k, e
    <3> QED
      BY <2>7, <3>1, <3>2
  <2>10. AllStand(h, L) => AllStand(j, M)
    <3>1. Null \notin M
      BY <1>1 DEF Prices, Null
    <3> QED
      BY <2>4, <3>1 DEF Even, AllStand
  <2>11. e \in Pointer
    BY <2>8
  <2> HIDE DEF e, j, k
  <2>12. Tree(k, M, sq) /\ (AllStand(j, M) => AllStand(k, M))
    BY <2>6, <2>9, <2>11, TreeHasNoEdge
  <2>13. k.edge = e
    BY <2>9
  <2> QED
    BY <1>5, <2>10, <2>12, <2>13 DEF Adds, e, k
<1> QED
  BY <1>4, <1>5

=============================================================================
