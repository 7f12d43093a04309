------------------------ MODULE PriceLevelTree_proofs ------------------------
(***************************************************************************)
(* Theorems about the trees of price levels: they stay search trees, AVL   *)
(* trees and sorted sets with their best price at the edge, for any number *)
(* of prices.  What addLimit does is in PriceLevelTree_insert_proofs; here *)
(* are deleteLimit, the edge and the traversal.                            *)
(***************************************************************************)
EXTENDS PriceLevelTree_insert_proofs

-----------------------------------------------------------------------------
(* A level with at most one child is spliced out.                          *)

\* The level p is destroyed: its name is gone from the heap.
Freed(h, p) == [h EXCEPT !.level = Restrict(@, DOMAIN @ \ {p})]

\* The same, field by field.
FreesTo(h, k, L, p) ==
    /\ k \in Heap(L \ {p})
    /\ k.root = h.root /\ k.edge = h.edge
    /\ \A q \in L \ {p} : k.level[q] = h.level[q]

\* Freed has these fields.
LEMMA FreedFields ==
    ASSUME NEW L \in SUBSET Prices, NEW h \in Heap(L), NEW p \in L
    PROVE  FreesTo(h, Freed(h, p), L, p)
<1> DEFINE K == L \ {p}
           lv == [q \in K |-> h.level[q]]
<1>1. DOMAIN h.level = L /\ h.level \in [L -> Node]
  BY DEF Heap
<1>2. Freed(h, p) = [h EXCEPT !.level = lv]
  BY <1>1 DEF Freed, Restrict
<1>3. lv \in [K -> Node] /\ \A q \in K : lv[q] = h.level[q]
  BY <1>1
<1> HIDE DEF lv
<1> QED
  BY <1>2, <1>3 DEF FreesTo, Heap

\* Adopt sets a parent, or nothing for a child that does not exist.
LEMMA AdoptSetsParent ==
    ASSUME NEW L \in SUBSET Prices, NEW h \in Heap(L), NEW c \in L \cup {Null}, NEW u \in Pointer
    PROVE  SetsParent(h, Adopt(h, c, u), L, c, u)
<1>1. Null \notin L
  BY Pointers
<1>2. CASE c = Null
  BY <1>1, <1>2 DEF Adopt, SetsParent
<1>3. CASE c # Null
  <2>1. SetsParent(h, [h EXCEPT !.level[c].parent = u], L, c, u)
    BY <1>3, SetParent
  <2>2. Adopt(h, c, u) = [h EXCEPT !.level[c].parent = u]
    BY <1>3 DEF Adopt
  <2> QED
    BY <2>1, <2>2, Zenon
<1> QED
  BY <1>2, <1>3

\* The heap without a level whose one child, or none, has come to its place.
SplicesTo(h, k, L, p, u, t, c) ==
    /\ k \in Heap(L \ {p})
    /\ k.root = h.root /\ k.edge = h.edge
    /\ \A q \in L \ {p} :
          /\ \A d \in Sides : k.level[q][d] = IF q = u /\ d = t THEN c ELSE h.level[q][d]
          /\ k.level[q].parent = IF q = c THEN u ELSE h.level[q].parent
          /\ k.level[q].height = h.level[q].height

\* SpliceOut, with the destruction of p, has that effect.
LEMMA SpliceFields ==
    ASSUME NEW L \in SUBSET Prices, NEW h \in Heap(L), NEW p \in L,
           NEW u \in L \ {p}, u = h.level[p].parent,
           NEW c \in (L \cup {Null}) \ {p},
           c = IF h.level[p].left = Null THEN h.level[p].right ELSE h.level[p].left
    PROVE  SplicesTo(h, Freed(SpliceOut(h, p), p), L, p, u, SideOf(p, u), c)
<1> DEFINE t == SideOf(p, u)
           h1 == [h EXCEPT !.level[u][t] = c]
           h2 == Adopt(h1, c, u)
           k == Freed(h2, p)
<1>1. SpliceOut(h, p) = h2
  BY DEF SpliceOut
<1>2. t \in Sides /\ c \in Pointer /\ u \in Pointer /\ Null \notin L
  BY Pointers DEF SideOf, Sides
<1>3. SetsChild(h, h1, L, u, t, c)
  BY <1>2, SetChild
<1> HIDE DEF h1, t
<1>4. /\ h2 \in Heap(L) /\ h2.root = h.root /\ h2.edge = h.edge
      /\ \A q \in L :
            /\ \A d \in Sides : h2.level[q][d] = IF q = u /\ d = t THEN c ELSE h.level[q][d]
            /\ h2.level[q].parent = IF q = c THEN u ELSE h.level[q].parent
            /\ h2.level[q].height = h.level[q].height
  <2>1. h1 \in Heap(L)
    BY <1>3 DEF SetsChild
  <2>2. SetsParent(h1, h2, L, c, u)
    BY <1>2, <2>1, AdoptSetsParent
  <2> HIDE DEF h2
  <2> QED
    BY <1>3, <2>2 DEF SetsChild, SetsParent
<1> HIDE DEF h2
<1>5. FreesTo(h2, k, L, p)
  BY <1>4, FreedFields
<1> HIDE DEF k
<1>6. SplicesTo(h, k, L, p, u, t, c)
  BY <1>4, <1>5 DEF FreesTo, SplicesTo
<1> QED
  BY <1>1, <1>6 DEF k, t

\* The spans without a level p that is empty on side e.
SplicedSpans(sp, L, p, e) ==
    [q \in L \ {p} |-> IF sp[q][e] = p THEN [sp[q] EXCEPT ![e] = sp[p][e]] ELSE sp[q]]

\* The same, field by field.
SpansSplice(sp, sq, L, p, e) ==
    /\ sq \in Spans(L \ {p})
    /\ \A q \in L \ {p} : /\ sq[q][Opposite(e)] = sp[q][Opposite(e)]
                          /\ sq[q][e] = IF sp[q][e] = p THEN sp[p][e] ELSE sp[q][e]
                          /\ sp[q][e] # p => sq[q] = sp[q]

\* SplicedSpans has these fields.
LEMMA SplicedSpansFields ==
    ASSUME NEW L \in SUBSET Prices, NEW sp \in Spans(L), NEW p \in L, NEW e \in Sides
    PROVE  SpansSplice(sp, SplicedSpans(sp, L, p, e), L, p, e)
  BY DEF SpansSplice, SplicedSpans, Spans, Sides, Opposite

\* A level that is empty on one side leaves a tree when its other child takes its
\* place.
LEMMA SpliceKeepsTree ==
    ASSUME NEW L, NEW h, NEW sp, Tree(h, L, sp), NEW p \in L, NEW e \in Sides, h.level[p][e] = Null,
           NEW u, u = h.level[p].parent, u # Null,
           NEW c, c = h.level[p][Opposite(e)],
           NEW k, SplicesTo(h, k, L, p, u, SideOf(p, u), c)
    PROVE  Tree(k, L \ {p}, SplicedSpans(sp, L, p, e))
<1> DEFINE K == L \ {p}
           o == Opposite(e)
           t == SideOf(p, u)
           sq == SplicedSpans(sp, L, p, e)
<1>1. L \in SUBSET Prices /\ sp \in Spans(L) /\ h \in Heap(L) /\ Null \notin L
  BY Pointers DEF Tree
<1>2. /\ o \in Sides /\ o # e /\ Opposite(o) = e /\ Sides = {e, o}
  BY SidesAreTwo
<1>3. /\ sq \in Spans(K)
      /\ \A q \in K : /\ sq[q][o] = sp[q][o]
                      /\ sq[q][e] = IF sp[q][e] = p THEN sp[p][e] ELSE sp[q][e]
                      /\ sp[q][e] # p => sq[q] = sp[q]
  <2>1. SpansSplice(sp, sq, L, p, e)
    BY <1>1, SplicedSpansFields
  <2> HIDE DEF sq
  <2> QED
    BY <2>1 DEF SpansSplice
<1>4. /\ k \in Heap(K) /\ k.root = h.root /\ k.edge = h.edge
      /\ \A q \in K, d \in Sides : k.level[q][d] = IF q = u /\ d = t THEN c ELSE h.level[q][d]
      /\ \A q \in K : k.level[q].parent = IF q = c THEN u ELSE h.level[q].parent
  BY DEF SplicesTo
<1>5. /\ \A q \in L : q \in Int
      /\ \A q \in L, d \in Sides : sp[q][d] \in Int
      /\ \A q \in L : sp[q].left < q /\ q < sp[q].right /\ sp[q].left \in Int /\ sp[q].right \in Int
  BY <1>1, SpansAreIntegers DEF Within, Tree
<1>6. /\ u \in L /\ u # p /\ t \in Sides /\ h.level[u][t] = p
  <2>1. Within(p, sp[p]) /\ p \in Int
    BY LevelsAreIntegers
  <2> QED
    BY <2>1, ParentSlot
<1>7. /\ sp[p][t] = sp[u][t] /\ sp[p][Opposite(t)] = u
  BY <1>1, <1>6, ChildIsBetween
<1>8. c # Null => /\ c \in K /\ h.level[c].parent = p
                  /\ sp[c][o] = sp[p][o] /\ sp[c][e] = p
  BY <1>2, ChildIsBetween
<1>9. \A q \in L : sp[q][o] # p
  <2>1. \A q \in L : sp[q][o] = p => h.level[p][e] # Null
    BY <1>2, BoundHasAChild
  <2> QED
    BY <2>1
<1>10. \A x \in L : ~Between(x, p, sp[p][e])
  BY DEF Tree, ChildLink
<1>11. \A d \in Sides : sp[p][d] # p
  BY <1>5 DEF Sides
<1>12. \A q \in L, d \in Sides : h.level[q][d] = p => q = u /\ d = t
  <2>1. \A q \in L, d \in Sides : h.level[q][d] = p => q = u /\ d = SideOf(p, q)
    BY <1>1, ChildIsBetween
  <2> QED
    BY <2>1
<1> HIDE DEF sq, K, o, t
<1>13. \A q \in K : sp[q][e] = p => \A x \in Int : Between(x, q, sp[p][e]) =>
                       Between(x, q, p) \/ x = p \/ Between(x, p, sp[p][e])
  BY <1>5, <1>6 DEF Between, K
<1>14. \A q \in K : Within(q, sq[q])
  <2> SUFFICES ASSUME NEW q \in K PROVE Within(q, sq[q])
    OBVIOUS
  <2>1. CASE sp[q][e] # p
    BY <1>3, <1>5, <2>1 DEF Within, K
  <2>2. CASE sp[q][e] = p
    <3>1. e = "left" => o = "right"
      BY SidesAreTwo DEF o
    <3>2. e = "right" => o = "left"
      BY SidesAreTwo DEF o
    <3>3. sq[q][o] = sp[q][o] /\ sq[q][e] = sp[p][e] /\ q \in L
      BY <1>3, <2>2 DEF K
    <3>4. CASE e = "left"
      BY <1>5, <2>2, <3>1, <3>3, <3>4 DEF Within
    <3>5. CASE e = "right"
      BY <1>5, <2>2, <3>2, <3>3, <3>5 DEF Within
    <3> QED
      BY <3>4, <3>5 DEF Sides
  <2> QED
    BY <2>1, <2>2
<1>15. c # Null => \A d \in Sides : sq[c][d] = sp[p][d]
  BY <1>2, <1>3, <1>8
<1>16. \A d \in Sides : sp[u][t] = p => FALSE
  BY <1>6, <1>7, <1>11
<1>17. u \in K /\ sq[u][t] = sp[u][t]
  <2>1. u \in K
    BY <1>6 DEF K
  <2> QED
    BY <1>2, <1>3, <1>6, <1>16, <2>1
<1>18. ASSUME NEW q \in K, NEW d \in Sides PROVE ChildLink(k, K, sq, q, d)
  <2>1. CASE q = u /\ d = t
    <3>1. k.level[q][d] = c
      BY <1>4, <2>1
    <3>2. CASE c # Null
      <4>1. c \in K /\ k.level[c].parent = q
        BY <1>4, <1>8, <2>1, <3>2
      <4>2. sq[c][d] = sq[q][d] /\ sq[c][Opposite(d)] = q
        BY <1>6, <1>7, <1>15, <1>17, <2>1, <3>2, SidesAreTwo
      <4> QED
        BY <3>1, <3>2, <4>1, <4>2 DEF ChildLink
    <3>3. CASE c = Null
      <4>1. \A x \in L : ~Between(x, p, sp[p][o])
        BY <1>2, <3>3 DEF Tree, ChildLink, o
      <4>2. \A x \in L : x # p => ~Between(x, u, sp[u][t])
        <5>1. \A x \in L : Between(x, u, sp[u][t]) => Within(x, sp[p])
          <6>1. t = "left" => sp[p].left = sp[u].left /\ sp[p].right = u /\ sp[u].left < u
            BY <1>5, <1>6, <1>7, SidesAreTwo
          <6>2. t = "right" => sp[p].right = sp[u].right /\ sp[p].left = u /\ u < sp[u].right
            BY <1>5, <1>6, <1>7, SidesAreTwo
          <6> QED
            BY <1>5, <1>6, <6>1, <6>2 DEF Between, Within, Sides
        <5>2. \A x \in L : x # p /\ Within(x, sp[p]) => \E s \in Sides : Between(x, p, sp[p][s])
          BY <1>5, SidesAreTwo DEF Between, Within
        <5> QED
          BY <1>2, <1>10, <4>1, <5>1, <5>2
      <4>3. \A x \in K : ~Between(x, q, sq[q][d])
        BY <1>17, <2>1, <4>2 DEF K
      <4> QED
        BY <3>1, <3>3, <4>3 DEF ChildLink
    <3> QED
      BY <3>2, <3>3
  <2>2. CASE ~(q = u /\ d = t)
    <3> DEFINE y == h.level[q][d]
    <3>1. k.level[q][d] = y /\ y # p /\ q \in L /\ q # p
      BY <1>4, <1>12, <2>2 DEF K
    <3>2. ChildLink(h, L, sp, q, d)
      BY <3>1 DEF Tree
    <3>3. CASE y # Null
      <4>1. y \in L /\ h.level[y].parent = q /\ sp[y][d] = sp[q][d] /\ sp[y][Opposite(d)] = q
        BY <3>2, <3>3 DEF ChildLink
      <4>2. y \in K /\ k.level[y].parent = q
        BY <1>4, <1>8, <3>1, <3>3, <4>1 DEF K
      <4>3. sq[y][d] = sq[q][d]
        BY <1>2, <1>3, <4>1, <4>2
      <4>4. sq[y][Opposite(d)] = q
        BY <1>2, <1>3, <3>1, <4>1, <4>2 DEF o
      <4> QED
        BY <3>1, <3>3, <4>2, <4>3, <4>4 DEF ChildLink
    <3>4. CASE y = Null
      <4>1. \A x \in L : ~Between(x, q, sp[q][d])
        BY <3>2, <3>4 DEF ChildLink
      <4>2. \A x \in K : ~Between(x, q, sq[q][d])
        <5>1. CASE sp[q][d] = p
          <6>1. d = e /\ sq[q][d] = sp[p][e]
            BY <1>2, <1>3, <1>9, <3>1, <5>1
          <6> QED
            BY <1>5, <1>10, <1>13, <4>1, <5>1, <6>1 DEF K
        <5>2. CASE sp[q][d] # p
          <6>1. sq[q][d] = sp[q][d]
            BY <1>2, <1>3, <5>2
          <6> QED
            BY <4>1, <6>1 DEF K
        <5> QED
          BY <5>1, <5>2
      <4> QED
        BY <3>1, <3>4, <4>2 DEF ChildLink
    <3> QED
      BY <3>3, <3>4
  <2> QED
    BY <2>1, <2>2
<1>19. p # h.root
  BY DEF Tree, ParentLink
<1>20. ASSUME NEW q \in K PROVE ParentLink(k, K, q)
  <2>1. ParentLink(h, L, q) /\ q \in L /\ q # p
    BY DEF Tree, K
  <2>2. CASE q = c
    <3>1. q # Null
      BY <1>1, <2>1
    <3>2. h.level[q].parent # Null
      BY <1>1, <1>8, <2>2, <3>1
    <3>3. q # h.root
      BY <2>1, <3>2 DEF ParentLink
    <3>4. k.level[q].parent = u /\ k.level[u][t] = q
      BY <1>4, <1>6, <1>17, <2>2
    <3> QED
      BY <1>4, <1>6, <1>17, <3>3, <3>4 DEF ParentLink
  <2>3. CASE q # c
    <3> DEFINE a == h.level[q].parent
    <3>1. k.level[q].parent = a /\ k.root = h.root
      BY <1>4, <2>3
    <3>2. a = Null <=> q = h.root
      BY <2>1 DEF ParentLink
    <3>3. ASSUME a # Null PROVE a \in K /\ \E s \in Sides : k.level[a][s] = q
      <4>1. a \in L
        BY <2>1, <3>3 DEF ParentLink
      <4>2. PICK s \in Sides : h.level[a][s] = q
        BY <2>1, <3>3 DEF ParentLink
      <4>3. a # p
        <5> SUFFICES ASSUME a = p PROVE FALSE
          OBVIOUS
        <5>1. h.level[p][s] = q
          BY <4>2
        <5>2. s = o \/ s = e
          BY <1>2
        <5> QED
          BY <1>1, <2>1, <2>3, <5>1, <5>2 DEF o
      <4>4. a \in K
        BY <4>1, <4>3 DEF K
      <4>5. ~(a = u /\ s = t)
        BY <1>6, <2>1, <4>2
      <4>6. k.level[a][s] = q
        BY <1>4, <4>2, <4>4, <4>5
      <4> QED
        BY <4>4, <4>6
    <3> QED
      BY <3>1, <3>2, <3>3 DEF ParentLink
  <2> QED
    BY <2>2, <2>3
<1>21. RootLink(k, K, sq)
  <2>1. h.root \in L /\ sp[h.root].left = 0 /\ sp[h.root].right = MaxPrice + 1 /\ h.root # Null
    BY <1>1 DEF Tree, RootLink
  <2>2. h.root \in K
    BY <1>19, <2>1 DEF K
  <2>3. p # 0 /\ p # MaxPrice + 1
    BY <1>1, MaxPriceIsNatural DEF Prices
  <2>4. sp[h.root][e] # p
    BY <2>1, <2>3 DEF Sides
  <2>5. sq[h.root] = sp[h.root]
    BY <1>3, <2>2, <2>4
  <2> QED
    BY <1>4, <2>1, <2>2, <2>5 DEF RootLink
<1>22. K \in SUBSET Prices
  BY <1>1 DEF K
<1>23. Tree(k, K, sq)
  BY <1>3, <1>4, <1>14, <1>18, <1>20, <1>21, <1>22 DEF Tree
<1> QED
  BY <1>23 DEF K, sq

-----------------------------------------------------------------------------
(* The left end of a subtree.                                              *)

\* The parent of a spliced level nearly stands, every other level stands.
LEMMA SpliceIsEven ==
    ASSUME NEW L, NEW h, NEW sp, Tree(h, L, sp), NEW p \in L, NEW e \in Sides, h.level[p][e] = Null,
           NEW u, u = h.level[p].parent, u # Null,
           NEW c, c = h.level[p][Opposite(e)],
           NEW k, SplicesTo(h, k, L, p, u, SideOf(p, u), c), AllStand(h, L)
    PROVE  Even(k, L \ {p}, u)
<1> DEFINE K == L \ {p}
           t == SideOf(p, u)
<1>1. L \in SUBSET Prices /\ h \in Heap(L) /\ Null \notin L
  BY Pointers DEF Tree
<1>2. /\ \A q \in K, d \in Sides : k.level[q][d] = IF q = u /\ d = t THEN c ELSE h.level[q][d]
      /\ \A q \in K : k.level[q].height = h.level[q].height
  BY DEF SplicesTo
<1>3. /\ u \in L /\ u # p /\ t \in Sides /\ h.level[u][t] = p
  <2>1. Within(p, sp[p]) /\ p \in Int
    BY LevelsAreIntegers
  <2> QED
    BY <2>1, ParentSlot
<1>4. \A q \in L, d \in Sides : h.level[q][d] = p => q = u /\ d = t
  <2>1. \A q \in L, d \in Sides : h.level[q][d] = p => q = u /\ d = SideOf(p, q)
    BY <1>1, ChildIsBetween
  <2> QED
    BY <2>1
<1>5. \A q \in L, d \in Sides : h.level[q][d] \in L \cup {Null}
  BY ChildrenAreLevels
<1>6. c \in K \cup {Null}
  <2>1. c # Null => c \in L /\ c # p
    BY SidesAreTwo, ChildIsBetween
  <2> QED
    BY <2>1
<1> HIDE DEF t
<1>7. \A y \in K \cup {Null} : Height(k, y) = Height(h, y)
  BY <1>2 DEF Height
<1>8. \A q \in K, d \in Sides : ~(q = u /\ d = t) => HeightAt(k, q, d) = HeightAt(h, q, d)
  BY <1>2, <1>4, <1>5, <1>7 DEF HeightAt
<1>9. HeightAt(k, u, t) = Height(h, c)
  BY <1>2, <1>3, <1>6, <1>7 DEF HeightAt
<1>10. HeightAt(h, u, t) = Height(h, c) + 1 /\ Height(h, c) \in Nat
  <2>1. Stands(h, p)
    BY DEF AllStand
  <2>2. h.level[p].height = 1 + Max2(HeightAt(h, p, e), HeightAt(h, p, Opposite(e)))
    BY <2>1, StandsOnSides
  <2>3. HeightAt(h, p, e) = 0 /\ HeightAt(h, p, Opposite(e)) = Height(h, c)
    BY DEF HeightAt, Height
  <2>4. HeightAt(h, p, Opposite(e)) \in Nat
    BY SidesAreTwo, HeightsAreNaturals
  <2>5. HeightAt(h, u, t) = h.level[p].height
    BY <1>1, <1>3 DEF HeightAt, Height
  <2>6. Height(h, c) \in Nat
    BY <2>3, <2>4
  <2>7. h.level[p].height = 1 + Max2(0, Height(h, c))
    BY <2>2, <2>3
  <2> QED
    BY <2>5, <2>6, <2>7 DEF Max2
<1>11. ASSUME NEW q \in K, q # u PROVE Stands(k, q)
  <2>1. Stands(h, q)
    BY DEF AllStand
  <2> QED
    BY <1>2, <1>8, <1>11, <2>1, SidesAreTwo DEF Stands
<1>12. NearlyStands(k, u)
  <2>1. Stands(h, u)
    BY <1>3 DEF AllStand
  <2> DEFINE y == HeightAt(h, u, Opposite(t))
             x == HeightAt(h, u, t)
  <2>2. h.level[u].height = 1 + Max2(x, y) /\ x - y \in -1..1
    BY <1>3, <2>1, StandsOnSides
  <2>3. HeightAt(k, u, Opposite(t)) = y /\ k.level[u].height = h.level[u].height
    BY <1>2, <1>3, <1>8, SidesAreTwo
  <2>4. HeightAt(k, u, t) - (-1) = x /\ x >= 0
    BY <1>9, <1>10
  <2> HIDE DEF x, y
  <2>5. -1 \in -1..1
    OBVIOUS
  <2> QED
    BY <1>3, <2>2, <2>3, <2>4, <2>5 DEF NearlyStands
<1> QED
  BY <1>11, <1>12 DEF Even

-----------------------------------------------------------------------------
\* y is at the left end of the subtree of q.
IsLeftmost(h, L, sp, q, y) ==
    /\ y \in L
    /\ h.level[y].left = Null
    /\ sp[y].left = sp[q].left
    /\ sp[y].right <= sp[q].right

\* walk of the operator Leftmost is such a function.
LeftmostStep(h, f, q) == IF h.level[q].left = Null THEN q ELSE f[h.level[q].left]

IsLeftWalk(f, h) == f = [q \in DOMAIN h.level |-> LeftmostStep(h, f, q)]

\* The left side of a level, in numbers.
LEMMA LeftChild ==
    ASSUME NEW L, NEW h, NEW sp, Tree(h, L, sp), NEW q \in L
    PROVE  /\ q \in Nat /\ sp[q].left \in Int /\ sp[q].right \in Int
           /\ sp[q].left < q /\ q < sp[q].right
           /\ h.level[q].left = Null => \A x \in L : ~Between(x, q, sp[q].left)
           /\ h.level[q].left # Null =>
                 LET c == h.level[q].left
                 IN  c \in L /\ sp[c].left = sp[q].left /\ sp[c].right = q /\ c < q
<1>1. L \in SUBSET Prices /\ sp \in Spans(L) /\ \A x \in L : Within(x, sp[x])
  BY DEF Tree
<1>2. \A x \in L : x \in Nat /\ sp[x].left \in Int /\ sp[x].right \in Int /\ sp[x].left < x /\ x < sp[x].right
  BY <1>1, SpansAreIntegers DEF Prices, Within
<1>3. ChildLink(h, L, sp, q, "left")
  BY SidesAreTwo DEF Tree
<1>4. h.level[q].left = Null => \A x \in L : ~Between(x, q, sp[q].left)
  BY <1>3 DEF ChildLink
<1>5. ASSUME NEW c, c = h.level[q].left, c # Null
      PROVE  c \in L /\ sp[c].left = sp[q].left /\ sp[c].right = q /\ c < q
  <2>1. c \in L /\ sp[c].left = sp[q].left /\ sp[c].right = q
    BY <1>3, <1>5, SidesAreTwo DEF ChildLink
  <2> QED
    BY <1>2, <2>1
<1> QED
  BY <1>2, <1>4, <1>5

\* A subtree has one left end.
LEMMA LeftmostExists ==
    ASSUME NEW L, NEW h, NEW sp, Tree(h, L, sp), NEW q \in L
    PROVE  \E y : /\ IsLeftmost(h, L, sp, q, y)
                  /\ \A x : IsLeftmost(h, L, sp, q, x) => x = y
<1> DEFINE S == {x \in L : sp[x].left = sp[q].left /\ sp[x].right <= sp[q].right}
           f == [x \in L |-> x]
<1>1. \A x \in L : x \in Nat /\ sp[x].left \in Int /\ sp[x].right \in Int /\ sp[x].left < x /\ x < sp[x].right
  BY LeftChild
<1>2. PICK y \in S : \A x \in S : f[y] <= f[x]
  <2>1. \A x \in S : f[x] \in Nat
    BY <1>1
  <2>2. q \in S
    BY <1>1
  <2> HIDE DEF S, f
  <2> QED
    BY <2>1, <2>2, LeastExists
<1>3. h.level[y].left = Null
  <2> SUFFICES ASSUME h.level[y].left # Null PROVE FALSE
    OBVIOUS
  <2> DEFINE c == h.level[y].left
  <2>1. c \in L /\ sp[c].left = sp[y].left /\ sp[c].right = y /\ c < y
    BY LeftChild
  <2>2. c \in S
    BY <1>1, <2>1
  <2> QED
    BY <1>1, <1>2, <2>1, <2>2
<1>4. IsLeftmost(h, L, sp, q, y)
  BY <1>3 DEF IsLeftmost
<1>5. ASSUME NEW x, IsLeftmost(h, L, sp, q, x) PROVE x = y
  <2>1. x \in L /\ h.level[x].left = Null /\ sp[x].left = sp[q].left /\ sp[y].left = sp[q].left
    BY <1>4, <1>5 DEF IsLeftmost
  <2>2. ~Between(y, x, sp[x].left) /\ ~Between(x, y, sp[y].left)
    BY <1>3, <2>1, LeftChild
  <2> QED
    BY <1>1, <2>1, <2>2 DEF Between
<1> QED
  BY <1>4, <1>5

LeftWalk(h) == CHOOSE f : IsLeftWalk(f, h)

\* Leftmost is a value of that function.
LEMMA LeftmostIsWalk ==
    ASSUME NEW h, NEW q
    PROVE  Leftmost(h, q) = LeftWalk(h)[q]
  BY DEF Leftmost, LeftWalk, IsLeftWalk, LeftmostStep

\* Leftmost comes to the left end of a subtree: the walk does not run on.
LEMMA LeftmostIsLeftmost ==
    ASSUME NEW L, NEW h, NEW sp, Tree(h, L, sp), NEW q \in L
    PROVE  IsLeftmost(h, L, sp, q, Leftmost(h, q))
<1> DEFINE W(x) == CHOOSE y : IsLeftmost(h, L, sp, x, y)
           g == [x \in L |-> W(x)]
<1>1. DOMAIN h.level = L
  BY DEF Tree, Heap
<1>2. \A x \in L : /\ IsLeftmost(h, L, sp, x, W(x))
                   /\ \A y : IsLeftmost(h, L, sp, x, y) => y = W(x)
  BY LeftmostExists
<1>3. \A x \in L : /\ x \in Nat /\ sp[x].left \in Int /\ sp[x].right \in Int
                   /\ x < sp[x].right
                   /\ h.level[x].left # Null =>
                         /\ h.level[x].left \in L /\ h.level[x].left < x
                         /\ sp[h.level[x].left].left = sp[x].left
                         /\ sp[h.level[x].left].right = x
  BY LeftChild
<1>4. \A x \in L : \A y : h.level[x].left # Null /\ IsLeftmost(h, L, sp, h.level[x].left, y)
                         => IsLeftmost(h, L, sp, x, y)
  BY <1>3 DEF IsLeftmost
<1>5. \A x \in L : h.level[x].left = Null => IsLeftmost(h, L, sp, x, x)
  BY <1>3 DEF IsLeftmost
<1> HIDE DEF W
<1>6. \A x \in L : W(x) = LeftmostStep(h, g, x)
  <2> SUFFICES ASSUME NEW x \in L PROVE W(x) = LeftmostStep(h, g, x)
    OBVIOUS
  <2>1. CASE h.level[x].left = Null
    <3>1. IsLeftmost(h, L, sp, x, x)
      BY <1>5, <2>1
    <3>2. x = W(x)
      BY <1>2, <3>1
    <3> QED
      BY <2>1, <3>2 DEF LeftmostStep
  <2>2. CASE h.level[x].left # Null
    <3>1. h.level[x].left \in L
      BY <1>3, <2>2
    <3>2. IsLeftmost(h, L, sp, x, W(h.level[x].left))
      BY <1>2, <1>4, <2>2, <3>1
    <3>3. W(h.level[x].left) = W(x)
      BY <1>2, <3>2
    <3>4. g[h.level[x].left] = W(h.level[x].left)
      BY <3>1
    <3> QED
      BY <2>2, <3>3, <3>4 DEF LeftmostStep
  <2> QED
    BY <2>1, <2>2
<1>7. IsLeftWalk(g, h)
  BY <1>1, <1>6 DEF IsLeftWalk
<1> HIDE DEF g
<1> DEFINE f == LeftWalk(h)
<1>8. IsLeftWalk(f, h)
  BY <1>7 DEF LeftWalk
<1>9. Leftmost(h, q) = f[q]
  BY LeftmostIsWalk
<1> HIDE DEF f
<1>10. \A x \in L : f[x] = LeftmostStep(h, f, x)
  BY <1>1, <1>8 DEF IsLeftWalk
<1> DEFINE Bad == {x \in L : ~IsLeftmost(h, L, sp, x, f[x])}
           v == [x \in L |-> x]
<1>11. Bad = {}
  <2> SUFFICES ASSUME Bad # {} PROVE FALSE
    OBVIOUS
  <2>1. PICK x \in Bad : \A y \in Bad : v[x] <= v[y]
    <3>1. \A y \in Bad : v[y] \in Nat
      BY <1>3
    <3> HIDE DEF Bad, v
    <3> QED
      BY <3>1, LeastExists
  <2>2. CASE h.level[x].left = Null
    BY <1>5, <1>10, <2>2 DEF LeftmostStep
  <2>3. CASE h.level[x].left # Null
    <3>1. h.level[x].left \notin Bad
      BY <1>3, <2>1, <2>3
    <3>2. IsLeftmost(h, L, sp, x, f[h.level[x].left])
      BY <1>3, <1>4, <2>3, <3>1
    <3> QED
      BY <1>10, <2>3, <3>2 DEF LeftmostStep
  <2> QED
    BY <2>2, <2>3
<1> QED
  BY <1>9, <1>11

-----------------------------------------------------------------------------
(* A level with two children is replaced by its successor.                 *)

\* An assignment to left, by the name of the field.
LEMMA SetLeft ==
    ASSUME NEW L \in SUBSET Prices, NEW h \in Heap(L), NEW p \in L, NEW v \in Pointer
    PROVE  SetsChild(h, [h EXCEPT !.level[p].left = v], L, p, "left", v)
  BY DEF Heap, Node, SetsChild, Sides

\* An assignment to right, by the name of the field.
LEMMA SetRight ==
    ASSUME NEW L \in SUBSET Prices, NEW h \in Heap(L), NEW p \in L, NEW v \in Pointer
    PROVE  SetsChild(h, [h EXCEPT !.level[p].right = v], L, p, "right", v)
  BY DEF Heap, Node, SetsChild, Sides

\* The successor's place is taken by its right child, if the successor is deeper
\* than the child of p.
DetachesTo(h, k, L, s, above, w, r) ==
    /\ k \in Heap(L)
    /\ k.root = h.root /\ k.edge = h.edge
    /\ \A q \in L :
          /\ k.level[q].left = IF q = above THEN w ELSE h.level[q].left
          /\ k.level[q].right = IF q = s THEN r ELSE h.level[q].right
          /\ k.level[q].parent = IF q = w THEN above ELSE IF q = r THEN s ELSE h.level[q].parent

\* The assignments that take the successor out of its place have that effect.
LEMMA DetachFields ==
    ASSUME NEW L \in SUBSET Prices, NEW h \in Heap(L), NEW s \in L, NEW above \in L,
           NEW w \in L \cup {Null}, NEW r \in L
    PROVE  DetachesTo(h, Adopt([h EXCEPT !.level[above].left = w,
                                         !.level[s].right = r,
                                         !.level[r].parent = s], w, above), L, s, above, w, r)
<1> DEFINE h1 == [h EXCEPT !.level[above].left = w]
           h2 == [h1 EXCEPT !.level[s].right = r]
           h3 == [h2 EXCEPT !.level[r].parent = s]
           h4 == Adopt(h3, w, above)
<1>1. h3 = [h EXCEPT !.level[above].left = w, !.level[s].right = r, !.level[r].parent = s]
  BY SMT
<1>2. /\ "left" \in Sides /\ "right" \in Sides
      /\ w \in Pointer /\ r \in Pointer /\ s \in Pointer /\ above \in Pointer
  BY Pointers DEF Sides
<1>3. SetsChild(h, h1, L, above, "left", w)
  BY <1>2, SetLeft
<1> HIDE DEF h1
<1>4. SetsChild(h1, h2, L, s, "right", r)
  <2>1. h1 \in Heap(L)
    BY <1>3 DEF SetsChild
  <2> QED
    BY <1>2, <2>1, SetRight
<1> HIDE DEF h2
<1>5. SetsParent(h2, h3, L, r, s)
  BY <1>2, <1>4, SetParent DEF SetsChild
<1> HIDE DEF h3
<1>6. SetsParent(h3, h4, L, w, above)
  <2>1. h3 \in Heap(L)
    BY <1>5 DEF SetsParent
  <2> QED
    BY <1>2, <2>1, AdoptSetsParent
<1> HIDE DEF h4
<1>7. DetachesTo(h, h4, L, s, above, w, r)
  <2>1. /\ h4 \in Heap(L)
        /\ h4.root = h.root /\ h4.edge = h.edge
    BY <1>3, <1>4, <1>5, <1>6 DEF SetsChild, SetsParent
  <2>2. \A q \in L : h4.level[q].parent = IF q = w THEN above ELSE IF q = r THEN s ELSE h.level[q].parent
    BY <1>3, <1>4, <1>5, <1>6 DEF SetsChild, SetsParent
  <2>3. \A q \in L : h4.level[q]["left"] = IF q = above THEN w ELSE h.level[q]["left"]
    BY <1>2, <1>3, <1>4, <1>5, <1>6 DEF SetsChild, SetsParent
  <2>4. \A q \in L : h4.level[q]["right"] = IF q = s THEN r ELSE h.level[q]["right"]
    BY <1>2, <1>3, <1>4, <1>5, <1>6 DEF SetsChild, SetsParent
  <2> QED
    BY <2>1, <2>2, <2>3, <2>4 DEF DetachesTo
<1> QED
  BY <1>1, <1>7 DEF h4

\* A level s in the place of p.
PutsTo(h, k, L, s, l, u, t) ==
    /\ k \in Heap(L)
    /\ k.root = h.root /\ k.edge = h.edge
    /\ \A q \in L :
          /\ \A d \in Sides : k.level[q][d] = IF q = u /\ d = t THEN s
                                              ELSE IF q = s /\ d = "left" THEN l
                                              ELSE h.level[q][d]
          /\ k.level[q].parent = IF q = s THEN u ELSE IF q = l THEN s ELSE h.level[q].parent

\* The four assignments that put the successor into the place of p have that effect.
LEMMA PutFields ==
    ASSUME NEW L \in SUBSET Prices, NEW h \in Heap(L), NEW s \in L, NEW l \in L,
           NEW u \in L, NEW t \in Sides
    PROVE  PutsTo(h, [h EXCEPT !.level[s].left = l,
                               !.level[l].parent = s,
                               !.level[s].parent = u,
                               !.level[u][t] = s], L, s, l, u, t)
<1> DEFINE h1 == [h EXCEPT !.level[s].left = l]
           h2 == [h1 EXCEPT !.level[l].parent = s]
           h3 == [h2 EXCEPT !.level[s].parent = u]
           h4 == [h3 EXCEPT !.level[u][t] = s]
<1>1. h4 = [h EXCEPT !.level[s].left = l, !.level[l].parent = s, !.level[s].parent = u, !.level[u][t] = s]
  BY SMT
<1>2. /\ "left" \in Sides
      /\ l \in Pointer /\ u \in Pointer /\ s \in Pointer
  BY Pointers DEF Sides
<1>3. SetsChild(h, h1, L, s, "left", l)
  BY <1>2, SetLeft
<1> HIDE DEF h1
<1>4. SetsParent(h1, h2, L, l, s)
  BY <1>2, <1>3, SetParent DEF SetsChild
<1> HIDE DEF h2
<1>5. SetsParent(h2, h3, L, s, u)
  <2>1. h2 \in Heap(L)
    BY <1>4 DEF SetsParent
  <2> QED
    BY <1>2, <2>1, SetParent
<1> HIDE DEF h3
<1>6. SetsChild(h3, h4, L, u, t, s)
  BY <1>2, <1>5, SetChild DEF SetsParent
<1> HIDE DEF h4
<1>7. PutsTo(h, h4, L, s, l, u, t)
  BY <1>2, <1>3, <1>4, <1>5, <1>6 DEF SetsChild, SetsParent, PutsTo
<1> QED
  BY <1>1, <1>7

\* The heap without a level whose successor has come to its place.
ReplacesTo(h, k, L, p, s, u, t, above, w, l, r) ==
    /\ k \in Heap(L \ {p})
    /\ k.root = h.root /\ k.edge = h.edge
    /\ \A q \in L \ {p} :
          /\ \A d \in Sides :
                k.level[q][d] = IF q = u /\ d = t THEN s
                                ELSE IF q = s /\ d = "left" THEN l
                                ELSE IF above # p /\ q = above /\ d = "left" THEN w
                                ELSE IF above # p /\ q = s /\ d = "right" THEN r
                                ELSE h.level[q][d]
          /\ k.level[q].parent = IF q = s THEN u
                                 ELSE IF q = l THEN s
                                 ELSE IF above # p /\ q = w THEN above
                                 ELSE IF above # p /\ q = r THEN s
                                 ELSE h.level[q].parent

\* ReplaceBySuccessor, with names for the levels it touches.
Replaced(h, p, s, u, t, above, w, l, r) ==
    LET h1 == IF above = p
              THEN h
              ELSE Adopt([h EXCEPT !.level[above].left = w,
                                   !.level[s].right = r,
                                   !.level[r].parent = s], w, above)
    IN  [h1 EXCEPT !.level[s].left = l,
                   !.level[l].parent = s,
                   !.level[s].parent = u,
                   !.level[u][t] = s]

\* Both parts together, with the destruction of p, have that effect.
LEMMA ReplacedFields ==
    ASSUME NEW L \in SUBSET Prices, NEW h \in Heap(L), NEW p \in L,
           NEW u \in L, NEW l \in L, NEW r \in L, NEW s \in L, NEW above \in L,
           NEW w \in L \cup {Null}, NEW t \in Sides
    PROVE  ReplacesTo(h, Freed(Replaced(h, p, s, u, t, above, w, l, r), p), L, p, s, u, t, above, w, l, r)
<1> DEFINE g == Adopt([h EXCEPT !.level[above].left = w,
                                !.level[s].right = r,
                                !.level[r].parent = s], w, above)
           h1 == IF above = p THEN h ELSE g
           h2 == [h1 EXCEPT !.level[s].left = l,
                            !.level[l].parent = s,
                            !.level[s].parent = u,
                            !.level[u][t] = s]
           k == Freed(h2, p)
<1>1. Replaced(h, p, s, u, t, above, w, l, r) = h2
  BY DEF Replaced
<1>2. Sides = {"left", "right"}
  BY DEF Sides
<1>3. DetachesTo(h, g, L, s, above, w, r)
  BY DetachFields
<1> HIDE DEF g
<1>4. /\ h1 \in Heap(L)
      /\ h1.root = h.root /\ h1.edge = h.edge
      /\ \A q \in L :
            /\ h1.level[q].left = IF above # p /\ q = above THEN w ELSE h.level[q].left
            /\ h1.level[q].right = IF above # p /\ q = s THEN r ELSE h.level[q].right
            /\ h1.level[q].parent = IF above # p /\ q = w THEN above
                                    ELSE IF above # p /\ q = r THEN s
                                    ELSE h.level[q].parent
  BY <1>3 DEF DetachesTo
<1> HIDE DEF h1
<1>5. PutsTo(h1, h2, L, s, l, u, t)
  BY <1>2, <1>4, PutFields
<1> HIDE DEF h2
<1>6. FreesTo(h2, k, L, p)
  BY <1>5, FreedFields DEF PutsTo
<1> HIDE DEF k
<1>7. ReplacesTo(h, k, L, p, s, u, t, above, w, l, r)
  <2>1. k \in Heap(L \ {p}) /\ k.root = h.root /\ k.edge = h.edge
    BY <1>4, <1>5, <1>6 DEF PutsTo, FreesTo
  <2>2. ASSUME NEW q \in L \ {p}
        PROVE  k.level[q].parent = IF q = s THEN u
                                 ELSE IF q = l THEN s
                                 ELSE IF above # p /\ q = w THEN above
                                 ELSE IF above # p /\ q = r THEN s
                                 ELSE h.level[q].parent
    <3>1. k.level[q] = h2.level[q]
      BY <1>6 DEF FreesTo
    <3>2. h2.level[q].parent = IF q = s THEN u ELSE IF q = l THEN s ELSE h1.level[q].parent
      BY <1>5 DEF PutsTo
    <3> QED
      BY <1>4, <3>1, <3>2
  <2>3. ASSUME NEW q \in L \ {p}, NEW d \in Sides
        PROVE  k.level[q][d] = IF q = u /\ d = t THEN s
                                ELSE IF q = s /\ d = "left" THEN l
                                ELSE IF above # p /\ q = above /\ d = "left" THEN w
                                ELSE IF above # p /\ q = s /\ d = "right" THEN r
                                ELSE h.level[q][d]
    <3>1. k.level[q] = h2.level[q]
      BY <1>6 DEF FreesTo
    <3>2. h2.level[q][d] = IF q = u /\ d = t THEN s
                                              ELSE IF q = s /\ d = "left" THEN l
                                              ELSE h1.level[q][d]
      BY <1>5 DEF PutsTo
    <3>3. d = "left" => h1.level[q][d] = IF above # p /\ q = above THEN w ELSE h.level[q][d]
      BY <1>4
    <3>4. d = "right" => h1.level[q][d] = IF above # p /\ q = s THEN r ELSE h.level[q][d]
      BY <1>4
    <3> HIDE DEF k
    <3> QED
      BY <1>2, <3>1, <3>2, <3>3, <3>4
  <2> QED
    BY <2>1, <2>2, <2>3 DEF ReplacesTo
<1> QED
  BY <1>1, <1>7 DEF k

\* ReplaceBySuccessor, with the destruction of p, has that effect.
LEMMA ReplaceFields ==
    ASSUME NEW L \in SUBSET Prices, NEW h \in Heap(L), NEW p \in L,
           NEW u, u = h.level[p].parent, u \in L,
           NEW l, l = h.level[p].left, l \in L, NEW r, r = h.level[p].right, r \in L,
           NEW s, s = Leftmost(h, r), s \in L,
           NEW above, above = h.level[s].parent, above \in L,
           NEW w, w = h.level[s].right, w \in L \cup {Null}
    PROVE  ReplacesTo(h, Freed(ReplaceBySuccessor(h, p), p), L, p, s, u, SideOf(p, u), above, w, l, r)
<1>1. ReplaceBySuccessor(h, p) = Replaced(h, p, s, u, SideOf(p, u), above, w, l, r)
  BY SMT DEF ReplaceBySuccessor, Replaced
<1>2. SideOf(p, u) \in Sides
  BY DEF SideOf, Sides
<1>3. \A v1, v2, v3, v4, v5 \in L : \A v6 \in L \cup {Null}, v7 \in Sides :
         ReplacesTo(h, Freed(Replaced(h, p, v1, v2, v7, v3, v6, v4, v5), p), L, p, v1, v2, v7, v3, v6, v4, v5)
  BY ReplacedFields
<1>4. ReplacesTo(h, Freed(Replaced(h, p, s, u, SideOf(p, u), above, w, l, r), p), L, p, s, u,
                 SideOf(p, u), above, w, l, r)
  BY <1>2, <1>3, Zenon
<1> QED
  BY <1>1, <1>4, Zenon

\* Around a level p with a parent u and two children, and its successor s.
Succession(h, L, sp, p, u, t, s, above, w, l, r) ==
    /\ {p, u, s, above, l, r} \subseteq L /\ w \in L \cup {Null} /\ t \in Sides
    /\ h.level[p].parent = u /\ h.level[u][t] = p
    /\ h.level[p].left = l /\ h.level[l].parent = p
    /\ h.level[p].right = r /\ h.level[r].parent = p
    /\ h.level[s].left = Null /\ h.level[s].right = w /\ h.level[s].parent = above
    /\ w # Null => h.level[w].parent = s /\ sp[w].left = s /\ sp[w].right = sp[s].right
    /\ sp[p][t] = sp[u][t] /\ sp[p][Opposite(t)] = u
    /\ sp[l].left = sp[p].left /\ sp[l].right = p
    /\ sp[r].left = p /\ sp[r].right = sp[p].right
    /\ sp[s].left = p /\ sp[s].right <= sp[p].right
    /\ above = p => s = r
    /\ above # p => s # r /\ h.level[above].left = s /\ sp[above].left = p /\ sp[s].right = above
    /\ s \notin {p, l, u, above} /\ l # p /\ r # p /\ u \notin {p, l, r, above}
    /\ w \notin {p, s, u, l, r} /\ above # l

\* The left end of the right subtree is what a removal with two children needs: the
\* next level above p, with no left child, and none of the other levels involved.
LEMMA SuccessorIsFound ==
    ASSUME NEW L, NEW h, NEW sp, Tree(h, L, sp), NEW p \in L,
           NEW u, u = h.level[p].parent, u # Null,
           NEW l, l = h.level[p].left, l # Null, NEW r, r = h.level[p].right, r # Null,
           NEW s, s = Leftmost(h, r),
           NEW above, above = h.level[s].parent,
           NEW w, w = h.level[s].right
    PROVE  Succession(h, L, sp, p, u, SideOf(p, u), s, above, w, l, r)
<1> DEFINE t == SideOf(p, u)
<1>1. L \in SUBSET Prices /\ sp \in Spans(L) /\ h \in Heap(L) /\ Null \notin L
  BY Pointers DEF Tree
<1>2. \A q \in L : /\ q \in Int /\ sp[q].left \in Int /\ sp[q].right \in Int
                   /\ sp[q].left < q /\ q < sp[q].right
  BY <1>1, SpansAreIntegers DEF Within, Tree
<1>3. \A q \in L : h.level[q].left # Null =>
         /\ h.level[q].left \in L /\ h.level[h.level[q].left].parent = q
         /\ sp[h.level[q].left].left = sp[q].left /\ sp[h.level[q].left].right = q
  <2>1. \A q \in L : ChildLink(h, L, sp, q, "left")
    BY SidesAreTwo DEF Tree
  <2> HIDE DEF Tree
  <2> QED
    BY <2>1, SidesAreTwo DEF ChildLink
<1>4. \A q \in L : h.level[q].right # Null =>
         /\ h.level[q].right \in L /\ h.level[h.level[q].right].parent = q
         /\ sp[h.level[q].right].right = sp[q].right /\ sp[h.level[q].right].left = q
  <2>1. \A q \in L : ChildLink(h, L, sp, q, "right")
    BY SidesAreTwo DEF Tree
  <2> HIDE DEF Tree
  <2> QED
    BY <2>1, SidesAreTwo DEF ChildLink
<1>5. /\ u \in L /\ u # p /\ t \in Sides /\ h.level[u][t] = p /\ Within(p, sp[u])
  <2>1. Within(p, sp[p]) /\ p \in Int
    BY LevelsAreIntegers
  <2> QED
    BY <2>1, ParentSlot
<1>6. sp[p][t] = sp[u][t] /\ sp[p][Opposite(t)] = u
  BY <1>1, <1>5, ChildIsBetween
<1>7. /\ l \in L /\ h.level[l].parent = p /\ sp[l].left = sp[p].left /\ sp[l].right = p
      /\ r \in L /\ h.level[r].parent = p /\ sp[r].left = p /\ sp[r].right = sp[p].right
  BY <1>3, <1>4
<1>8. /\ s \in L /\ h.level[s].left = Null /\ sp[s].left = p /\ sp[s].right <= sp[p].right
  <2>1. IsLeftmost(h, L, sp, r, s)
    BY <1>7, LeftmostIsLeftmost
  <2> QED
    BY <1>7, <2>1 DEF IsLeftmost
<1>9. w # Null => w \in L /\ h.level[w].parent = s /\ sp[w].left = s /\ sp[w].right = sp[s].right
  BY <1>4, <1>8
<1>10. /\ l < p /\ p < s /\ p < r
       /\ w # Null => s < w
       /\ s # u /\ l # u /\ r # u /\ w # u
  <2>1. sp[p].left = u \/ sp[p].right = u
    BY <1>5, <1>6, SidesAreTwo DEF Sides
  <2>2. /\ l < p /\ p < s /\ p < r
        /\ w # Null => s < w
    BY <1>2, <1>7, <1>8, <1>9
  <2>3. sp[p].left < p /\ p < sp[p].right
    BY <1>2
  <2>4. /\ sp[p].left < l /\ r < sp[p].right /\ s < sp[p].right
        /\ w # Null => w < sp[p].right
    BY <1>2, <1>7, <1>8, <1>9
  <2>5. w # Null => w # u
    BY <1>2, <1>8, <1>9, <2>1, <2>2, <2>3, <2>4
  <2>6. u # Null
    OBVIOUS
  <2> QED
    BY <1>2, <1>7, <1>8, <2>1, <2>2, <2>3, <2>4, <2>5, <2>6
<1>11. above \in L
  <2>1. s # h.root
    <3> SUFFICES ASSUME s = h.root PROVE FALSE
      OBVIOUS
    <3>1. sp[s].left = 0
      BY <1>1, <1>8 DEF Tree, RootLink
    <3> QED
      BY <1>1, <1>8, <3>1 DEF Null
  <2> QED
    BY <1>8, <2>1 DEF Tree, ParentLink
<1>12. PICK d \in Sides : h.level[above][d] = s
  BY <1>1, <1>8, <1>11 DEF Tree, ParentLink
<1>13. CASE d = "right"
  <2>1. above = p /\ s = r
    BY <1>1, <1>4, <1>8, <1>11, <1>12, <1>13
  <2> HIDE DEF t
  <2>2. s \notin {p, l, u, above} /\ l # p /\ r # p /\ u \notin {p, l, r, above}
    BY <1>2, <1>5, <1>7, <1>10, <2>1
  <2>3. w \notin {p, s, u, l, r} /\ above # l
    BY <1>1, <1>2, <1>5, <1>7, <1>9, <1>10, <2>1, <2>2
  <2> QED
    BY <1>5, <1>6, <1>7, <1>8, <1>9, <1>11, <2>1, <2>2, <2>3 DEF Succession, t
<1>14. CASE d = "left"
  <2>1. sp[s].right = above /\ sp[above].left = p /\ h.level[above].left = s
    BY <1>1, <1>3, <1>8, <1>11, <1>12, <1>14
  <2>2. above # p /\ p < above /\ s < above
    BY <1>2, <1>8, <1>11, <2>1
  <2>3. s # r
    BY <1>7, <2>2
  <2>4. above # u
    BY <1>2, <1>5, <2>1 DEF Within
  <2> HIDE DEF t
  <2>5. s \notin {p, l, u, above} /\ l # p /\ r # p /\ u \notin {p, l, r, above}
    BY <1>2, <1>5, <1>7, <1>8, <1>10, <1>11, <2>2, <2>4
  <2>6. w \notin {p, s, u, l, r} /\ above # l
    <3>1. w = Null => w \notin {p, s, u, l, r}
      BY <1>1, <1>5, <1>7, <1>8
    <3>2. w # Null => w \notin {p, s, u, l, r}
      BY <1>2, <1>7, <1>8, <1>9, <1>10
    <3> QED
      BY <1>2, <1>7, <1>10, <1>11, <2>2, <3>1, <3>2
  <2> QED
    BY <1>5, <1>6, <1>7, <1>8, <1>9, <1>11, <2>1, <2>2, <2>3, <2>5, <2>6 DEF Succession, t
<1> QED
  BY <1>13, <1>14 DEF Sides

\* The spans after p has gone: its successor has its span, and bounds what p bounded.
ReplacedSpans(sp, L, p, s) ==
    [q \in L \ {p} |-> IF q = s
                       THEN sp[p]
                       ELSE [left |-> IF sp[q].left = p THEN s ELSE sp[q].left,
                             right |-> IF sp[q].right = p THEN s ELSE sp[q].right]]

\* The same, field by field.
SpansReplace(sp, sq, L, p, s) ==
    /\ sq \in Spans(L \ {p})
    /\ sq[s] = sp[p]
    /\ \A q \in L \ {p}, d \in Sides : q # s =>
          sq[q][d] = IF sp[q][d] = p THEN s ELSE sp[q][d]

\* ReplacedSpans has these fields.
LEMMA ReplacedSpansFields ==
    ASSUME NEW L \in SUBSET Prices, NEW sp \in Spans(L), NEW p \in L, NEW s \in L \ {p}
    PROVE  SpansReplace(sp, ReplacedSpans(sp, L, p, s), L, p, s)
<1>1. s \in Bound
  BY MaxPriceIsNatural DEF Bound, Prices
<1> QED
  BY <1>1 DEF SpansReplace, ReplacedSpans, Spans, Sides

\* The successor in the place of p makes a tree without p.
LEMMA ReplaceKeepsTree ==
    ASSUME NEW L, NEW h, NEW sp, Tree(h, L, sp), NEW p, NEW u, NEW t, NEW s, NEW above,
           NEW w, NEW l, NEW r, Succession(h, L, sp, p, u, t, s, above, w, l, r),
           NEW k, ReplacesTo(h, k, L, p, s, u, t, above, w, l, r)
    PROVE  Tree(k, L \ {p}, ReplacedSpans(sp, L, p, s))
<1> DEFINE K == L \ {p}
           sq == ReplacedSpans(sp, L, p, s)
<1>1. L \in SUBSET Prices /\ sp \in Spans(L) /\ h \in Heap(L) /\ Null \notin L
  BY Pointers DEF Tree
<1>2. /\ Opposite("left") = "right" /\ Opposite("right") = "left"
      /\ "left" \in Sides /\ "right" \in Sides /\ \A d \in Sides : d = "left" \/ d = "right"
  BY SidesAreTwo DEF Sides
<1>3. /\ {p, u, s, above, l, r} \subseteq L /\ w \in L \cup {Null} /\ t \in Sides
      /\ h.level[p].parent = u /\ h.level[u][t] = p
      /\ h.level[p].left = l /\ h.level[l].parent = p
      /\ h.level[p].right = r /\ h.level[r].parent = p
      /\ h.level[s].left = Null /\ h.level[s].right = w /\ h.level[s].parent = above
      /\ w # Null => h.level[w].parent = s /\ sp[w].left = s /\ sp[w].right = sp[s].right
      /\ sp[p][t] = sp[u][t] /\ sp[p][Opposite(t)] = u
      /\ sp[l].left = sp[p].left /\ sp[l].right = p
      /\ sp[r].left = p /\ sp[r].right = sp[p].right
      /\ sp[s].left = p /\ sp[s].right <= sp[p].right
      /\ above = p => s = r
      /\ above # p => s # r /\ h.level[above].left = s /\ sp[above].left = p /\ sp[s].right = above
      /\ s \notin {p, l, u, above} /\ l # p /\ r # p /\ u \notin {p, l, r, above}
      /\ w \notin {p, s, u, l, r} /\ above # l
  BY DEF Succession
<1>4. /\ sq \in Spans(K)
      /\ sq[s] = sp[p]
      /\ \A q \in K, d \in Sides : q # s => sq[q][d] = IF sp[q][d] = p THEN s ELSE sp[q][d]
  <2>1. SpansReplace(sp, sq, L, p, s)
    BY <1>1, <1>3, ReplacedSpansFields
  <2> HIDE DEF sq
  <2> QED
    BY <2>1 DEF SpansReplace
<1>5. /\ k \in Heap(K) /\ k.root = h.root /\ k.edge = h.edge
      /\ \A q \in K, d \in Sides :
                k.level[q][d] = IF q = u /\ d = t THEN s
                                ELSE IF q = s /\ d = "left" THEN l
                                ELSE IF above # p /\ q = above /\ d = "left" THEN w
                                ELSE IF above # p /\ q = s /\ d = "right" THEN r
                                ELSE h.level[q][d]
      /\ \A q \in K : k.level[q].parent = IF q = s THEN u
                                 ELSE IF q = l THEN s
                                 ELSE IF above # p /\ q = w THEN above
                                 ELSE IF above # p /\ q = r THEN s
                                 ELSE h.level[q].parent
  BY DEF ReplacesTo
<1> HIDE DEF sq, K
<1>6. /\ \A q \in L : q \in Int
      /\ \A q \in L, d \in Sides : sp[q][d] \in Int
      /\ \A q \in L : sp[q].left < q /\ q < sp[q].right /\ sp[q].left \in Int /\ sp[q].right \in Int
  BY <1>1, SpansAreIntegers DEF Within, Tree
<1>7. \A q \in L : q \in K <=> q # p
  BY DEF K
<1>8. \A x \in L : ~(p < x /\ x < s)
  <2>1. ChildLink(h, L, sp, s, "left")
    BY <1>2, <1>3 DEF Tree
  <2>2. \A x \in L : ~Between(x, s, p)
    BY <1>3, <2>1 DEF ChildLink
  <2> QED
    BY <1>3, <1>6, <2>2 DEF Between
<1>9. p < s /\ \A d \in Sides : sp[p][d] # p
  BY <1>2, <1>3, <1>6
<1>10. \A q \in L, d \in Sides : h.level[q][d] # Null =>
          /\ h.level[q][d] \in L /\ h.level[h.level[q][d]].parent = q
          /\ sp[h.level[q][d]][d] = sp[q][d] /\ sp[h.level[q][d]][Opposite(d)] = q
          /\ d = SideOf(h.level[q][d], q)
  BY ChildIsBetween
<1>11. \A q \in L, d \in Sides : h.level[q][d] = p => q = u /\ d = t
  <2>1. \A q \in L, d \in Sides : h.level[q][d] = p => q = u /\ d = SideOf(p, q)
    BY <1>1, <1>3, <1>10
  <2> QED
    BY <1>3, <2>1
<1>12. \A q \in L, d \in Sides : h.level[q][d] = s => q = above /\ (above # p => d = "left")
  <2>1. \A q \in L, d \in Sides : h.level[q][d] = s => q = above /\ d = SideOf(s, q)
    BY <1>1, <1>3, <1>10
  <2> QED
    BY <1>1, <1>2, <1>3, <1>10, <2>1
<1>13. \A q \in K : Within(q, sq[q])
  <2> SUFFICES ASSUME NEW q \in K PROVE Within(q, sq[q])
    OBVIOUS
  <2>1. CASE q = s
    BY <1>3, <1>4, <1>6, <2>1, <1>9 DEF Within
  <2>2. CASE q # s
    <3>1. q \in L /\ q # p /\ ~(p < q /\ q < s)
      BY <1>8 DEF K
    <3>2. /\ sq[q].left = IF sp[q].left = p THEN s ELSE sp[q].left
          /\ sq[q].right = IF sp[q].right = p THEN s ELSE sp[q].right
      BY <1>2, <1>4, <2>2
    <3> QED
      BY <1>3, <1>6, <1>9, <2>2, <3>1, <3>2 DEF Within
  <2> QED
    BY <2>1, <2>2
<1>14. ASSUME NEW q \in K, NEW d \in Sides PROVE ChildLink(k, K, sq, q, d)
  <2>0. q \in L /\ q # p /\ q # Null
    BY <1>1 DEF K
  <2>1. CASE q = u /\ d = t
    <3>1. k.level[q][d] = s /\ k.level[s].parent = q /\ s \in K /\ s # Null
      BY <1>1, <1>3, <1>5, <1>7, <2>1
    <3>2. sq[q][d] = sp[u][t]
      BY <1>3, <1>4, <1>9, <2>1
    <3>3. sq[s][d] = sq[q][d] /\ sq[s][Opposite(d)] = q
      BY <1>3, <1>4, <2>1, <3>2
    <3> QED
      BY <3>1, <3>3 DEF ChildLink
  <2>2. CASE q = s /\ d = "left"
    <3>1. k.level[q][d] = l /\ k.level[l].parent = q /\ l \in K /\ l # Null
      BY <1>1, <1>3, <1>5, <1>7, <2>2
    <3>2. sq[l].left = sp[p].left /\ sq[l].right = s
      BY <1>2, <1>3, <1>4, <1>7, <1>9
    <3> QED
      BY <1>2, <1>4, <2>2, <3>1, <3>2 DEF ChildLink
  <2>3. CASE above # p /\ q = above /\ d = "left"
    <3>1. k.level[q][d] = w
      BY <1>3, <1>5, <2>3
    <3>2. sq[q].left = s
      BY <1>2, <1>3, <1>4, <2>3
    <3>3. CASE w # Null
      <4>1. w \in K /\ k.level[w].parent = q
        BY <1>1, <1>3, <1>5, <1>7, <2>3, <3>3
      <4>2. sq[w].left = s /\ sq[w].right = above
        <5>1. sp[w].left = s /\ sp[w].right = above /\ w # s
          BY <1>3, <2>3, <3>3
        <5> QED
          BY <1>2, <1>3, <1>4, <2>3, <4>1, <5>1
      <4> QED
        BY <1>2, <2>3, <3>1, <3>2, <3>3, <4>1, <4>2 DEF ChildLink
    <3>4. CASE w = Null
      <4>1. ChildLink(h, L, sp, s, "right")
        BY <1>2, <1>3 DEF Tree
      <4>2. \A x \in L : ~Between(x, s, above)
        BY <1>3, <2>3, <3>4, <4>1 DEF ChildLink
      <4>3. \A x \in K : ~Between(x, q, sq[q].left)
        BY <2>3, <3>2, <4>2 DEF Between, K
      <4> QED
        BY <2>3, <3>1, <3>4, <4>3 DEF ChildLink
    <3> QED
      BY <3>3, <3>4
  <2>4. CASE above # p /\ q = s /\ d = "right"
    <3>1. k.level[q][d] = r /\ k.level[r].parent = q /\ r \in K /\ r # Null
      BY <1>1, <1>2, <1>3, <1>5, <1>7, <2>4, <1>9, <1>6
    <3>2. sq[r].left = s /\ sq[r].right = sp[p].right
      BY <1>2, <1>3, <1>4, <1>7, <1>9, <2>4
    <3> QED
      BY <1>2, <1>4, <2>4, <3>1, <3>2 DEF ChildLink
  <2>5. CASE above = p /\ q = s /\ d = "right"
    <3>1. k.level[q][d] = w /\ sq[q].right = sp[s].right
      BY <1>2, <1>3, <1>4, <1>5, <1>7, <2>5
    <3>2. ChildLink(h, L, sp, s, "right")
      BY <1>2, <1>3 DEF Tree
    <3>3. CASE w # Null
      <4>1. w \in K /\ k.level[w].parent = q
        BY <1>1, <1>3, <1>5, <1>7, <2>5, <3>3
      <4>2. sp[w].left = s /\ sp[w].right = sp[p].right /\ w # s
        BY <1>3, <2>5, <3>3
      <4>3. sq[w].left = s /\ sq[w].right = sp[p].right
        BY <1>2, <1>3, <1>4, <1>9, <4>1, <4>2
      <4> QED
        BY <1>2, <1>3, <2>5, <3>1, <3>3, <4>1, <4>3 DEF ChildLink
    <3>4. CASE w = Null
      <4>1. \A x \in L : ~Between(x, s, sp[s].right)
        BY <1>3, <3>2, <3>4 DEF ChildLink
      <4>2. \A x \in K : ~Between(x, q, sq[q].right)
        BY <2>5, <3>1, <4>1 DEF K
      <4> QED
        BY <2>5, <3>1, <3>4, <4>2 DEF ChildLink
    <3> QED
      BY <3>3, <3>4
  <2>6. CASE q # s /\ ~(q = u /\ d = t) /\ ~(above # p /\ q = above /\ d = "left")
    <3> DEFINE y == h.level[q][d]
    <3>1. k.level[q][d] = y /\ y # p /\ y # s
      BY <1>5, <1>11, <1>12, <2>0, <2>6
    <3>2. ChildLink(h, L, sp, q, d)
      BY <2>0 DEF Tree
    <3>3. CASE y # Null
      <4>1. y \in L /\ h.level[y].parent = q /\ sp[y][d] = sp[q][d] /\ sp[y][Opposite(d)] = q
        BY <3>2, <3>3 DEF ChildLink
      <4>2. y \in K /\ k.level[y].parent = q
        BY <1>3, <1>5, <1>7, <2>0, <2>6, <3>1, <3>3, <4>1
      <4> HIDE DEF y
      <4>3. sq[y][d] = sq[q][d]
        BY <1>4, <2>6, <3>1, <4>1, <4>2
      <4>4. sq[y][Opposite(d)] = q
        BY <1>2, <1>4, <2>0, <3>1, <4>1, <4>2
      <4> QED
        BY <3>1, <3>3, <4>2, <4>3, <4>4 DEF ChildLink
    <3>4. CASE y = Null
      <4>1. \A x \in L : ~Between(x, q, sp[q][d])
        BY <3>2, <3>4 DEF ChildLink
      <4>2. \A x \in K : ~Between(x, q, sq[q][d])
        <5>1. CASE sp[q][d] = p
          <6>1. sq[q][d] = s
            BY <1>4, <2>6, <5>1
          <6>2. ~(p < q /\ q < s)
            BY <1>8, <2>0
          <6> SUFFICES ASSUME NEW x \in K, Between(x, q, s) PROVE FALSE
            BY <6>1
          <6>3. x \in L /\ x # p /\ ~(p < x /\ x < s) /\ ~Between(x, q, p)
            BY <1>8, <4>1, <5>1 DEF K
          <6> QED
            BY <1>3, <1>6, <1>9, <2>0, <6>2, <6>3 DEF Between
        <5>2. CASE sp[q][d] # p
          <6>1. sq[q][d] = sp[q][d]
            BY <1>4, <2>6, <5>2
          <6> QED
            BY <4>1, <6>1 DEF K
        <5> QED
          BY <5>1, <5>2
      <4> QED
        BY <3>1, <3>4, <4>2 DEF ChildLink
    <3> QED
      BY <3>3, <3>4
  <2> QED
    BY <1>2, <2>1, <2>2, <2>3, <2>4, <2>5, <2>6
<1>15. s # h.root /\ p # h.root
  BY <1>1, <1>3 DEF Tree, ParentLink
<1>16. ASSUME NEW q \in K PROVE ParentLink(k, K, q)
  <2>1. ParentLink(h, L, q) /\ q \in L /\ q # p /\ q # Null
    BY <1>1 DEF Tree, K
  <2>2. CASE q = s
    <3>1. k.level[q].parent = u /\ u \in K /\ u # Null /\ k.level[u][t] = q
      BY <1>1, <1>3, <1>5, <1>7, <2>2
    <3> QED
      BY <1>3, <1>5, <1>15, <2>2, <3>1 DEF ParentLink
  <2>3. CASE q = l
    <3>1. k.level[q].parent = s /\ s \in K /\ s # Null /\ k.level[s].left = q
      BY <1>1, <1>2, <1>3, <1>5, <1>7, <2>3
    <3>2. q # h.root
      BY <1>1, <1>3, <2>1, <2>3 DEF ParentLink
    <3> QED
      BY <1>2, <1>5, <3>1, <3>2 DEF ParentLink
  <2>4. CASE above # p /\ q = w
    <3>1. k.level[q].parent = above /\ above \in K /\ above # Null /\ k.level[above].left = q
      BY <1>1, <1>2, <1>3, <1>5, <1>7, <2>1, <2>4
    <3>2. q # h.root
      BY <1>1, <1>3, <2>1, <2>4 DEF ParentLink
    <3> QED
      BY <1>2, <1>5, <3>1, <3>2 DEF ParentLink
  <2>5. CASE above # p /\ q = r
    <3>1. k.level[q].parent = s /\ s \in K /\ s # Null /\ k.level[s].right = q
      BY <1>1, <1>2, <1>3, <1>5, <1>6, <1>7, <1>9, <2>1, <2>5
    <3>2. q # h.root
      BY <1>1, <1>3, <2>1, <2>5 DEF ParentLink
    <3> QED
      BY <1>2, <1>5, <3>1, <3>2 DEF ParentLink
  <2>6. CASE q # s /\ q # l /\ ~(above # p /\ q = w) /\ ~(above # p /\ q = r)
    <3> DEFINE a == h.level[q].parent
    <3>1. k.level[q].parent = a /\ k.root = h.root
      BY <1>5, <2>6
    <3>2. a = Null <=> q = h.root
      BY <2>1 DEF ParentLink
    <3>3. ASSUME a # Null PROVE a \in K /\ \E d \in Sides : k.level[a][d] = q
      <4>1. a \in L
        BY <2>1, <3>3 DEF ParentLink
      <4>2. PICK d \in Sides : h.level[a][d] = q
        BY <2>1, <3>3 DEF ParentLink
      <4>3. a # p
        <5> SUFFICES ASSUME a = p PROVE FALSE
          OBVIOUS
        <5>1. q = l \/ q = r
          BY <1>2, <1>3, <4>2
        <5> QED
          BY <1>3, <2>6, <5>1
      <4>4. a \in K
        BY <4>1, <4>3 DEF K
      <4>5. /\ ~(a = u /\ d = t) /\ ~(a = s /\ d = "left")
            /\ ~(above # p /\ a = above /\ d = "left")
            /\ ~(above # p /\ a = s /\ d = "right")
        BY <1>1, <1>3, <2>1, <2>6, <4>2
      <4> HIDE DEF a
      <4>6. k.level[a][d] = q
        BY <1>5, <4>2, <4>4, <4>5
      <4> QED
        BY <4>4, <4>6
    <3> QED
      BY <3>1, <3>2, <3>3 DEF ParentLink
  <2> QED
    BY <2>2, <2>3, <2>4, <2>5, <2>6
<1>17. RootLink(k, K, sq)
  <2>1. h.root \in L /\ sp[h.root].left = 0 /\ sp[h.root].right = MaxPrice + 1 /\ h.root # Null
    BY <1>1, <1>3 DEF Tree, RootLink
  <2>2. h.root \in K
    BY <1>7, <1>15, <2>1
  <2>3. p # 0 /\ p # MaxPrice + 1
    BY <1>1, <1>3, MaxPriceIsNatural DEF Prices
  <2>4. sq[h.root].left = 0 /\ sq[h.root].right = MaxPrice + 1
    BY <1>2, <1>4, <1>15, <2>1, <2>2, <2>3
  <2> QED
    BY <1>5, <2>1, <2>2, <2>4 DEF RootLink
<1>18. K \in SUBSET Prices
  BY <1>1 DEF K
<1>19. Tree(k, K, sq)
  BY <1>4, <1>5, <1>13, <1>14, <1>16, <1>17, <1>18 DEF Tree
<1> QED
  BY <1>19 DEF K, sq

-----------------------------------------------------------------------------
(* deleteLimit.                                                            *)

\* p is disconnected and destroyed.
Detached(h, p) == Freed(Disconnect(h, p), p)

\* A level is taken out of the tree, before the climb.
TakenOut(h, k, L, p) ==
    LET u == h.level[p].parent
    IN  /\ k.edge = h.edge
        /\ u \in (L \ {p}) \cup {Null}
        /\ \E sq : Tree(k, L \ {p}, sq) /\ (u # Null => Within(p, sq[u]))
        /\ AllStand(h, L) /\ Null \in {h.level[p].left, h.level[p].right}
               => Even(k, L \ {p}, u)

\* A level with a parent and at most one child.
LEMMA SpliceTakesOut ==
    ASSUME NEW L, NEW h, NEW sp, Tree(h, L, sp), NEW p \in L, h.level[p].parent # Null,
           Null \in {h.level[p].left, h.level[p].right}
    PROVE  TakenOut(h, Detached(h, p), L, p)
<1> DEFINE u == h.level[p].parent
           e == IF h.level[p].left = Null THEN "left" ELSE "right"
           c == h.level[p][Opposite(e)]
           k == Detached(h, p)
           sq == SplicedSpans(sp, L, p, e)
<1>1. L \in SUBSET Prices /\ sp \in Spans(L) /\ h \in Heap(L) /\ Null \notin L
  BY Pointers DEF Tree
<1>2. /\ e \in Sides /\ h.level[p][e] = Null
      /\ c = IF h.level[p].left = Null THEN h.level[p].right ELSE h.level[p].left
  BY SidesAreTwo
<1>3. Within(p, sp[p]) /\ p \in Int
  BY LevelsAreIntegers
<1>4. u \in L /\ u # p /\ Within(p, sp[u])
  BY <1>3, ParentSlot
<1>5. c \in L \cup {Null} /\ c # p
  <2>1. Opposite(e) \in Sides
    BY <1>2, SidesAreTwo
  <2>2. c # Null => c \in L /\ c # p
    BY <2>1, ChildIsBetween
  <2> QED
    BY <1>1, <2>2
<1>6. k = Freed(SpliceOut(h, p), p)
  BY DEF Detached, Disconnect
<1> HIDE DEF k, e
<1>7. SplicesTo(h, k, L, p, u, SideOf(p, u), c)
  <2>1. \A x \in L \ {p}, y \in (L \cup {Null}) \ {p} :
            x = h.level[p].parent /\ y = (IF h.level[p].left = Null THEN h.level[p].right ELSE h.level[p].left)
              => SplicesTo(h, Freed(SpliceOut(h, p), p), L, p, x, SideOf(p, x), y)
    BY <1>1, SpliceFields
  <2> HIDE DEF u, c
  <2> QED
    BY <1>2, <1>4, <1>5, <1>6, <2>1 DEF u
<1>8. Tree(k, L \ {p}, sq)
  <2> HIDE DEF sq
  <2> QED
    BY <1>2, <1>7, SpliceKeepsTree DEF sq
<1>9. AllStand(h, L) => Even(k, L \ {p}, u)
  BY <1>2, <1>7, SpliceIsEven
<1>10. Within(p, sq[u])
  <2>1. SpansSplice(sp, sq, L, p, e)
    BY <1>1, <1>2, SplicedSpansFields
  <2>2. sp[u][e] # p
    BY <1>1, <1>2, <1>3, <1>4, SpansAreIntegers DEF Within, Sides
  <2>3. sq[u] = sp[u]
    <3> HIDE DEF sq, u
    <3> QED
      BY <1>4, <2>1, <2>2 DEF SpansSplice
  <2> QED
    BY <1>4, <2>3
<1>11. k.edge = h.edge
  BY <1>7 DEF SplicesTo
<1> HIDE DEF sq
<1> QED
  BY <1>4, <1>8, <1>9, <1>10, <1>11 DEF TakenOut, k

\* A level with a parent and two children.
LEMMA SuccessorTakesOut ==
    ASSUME NEW L, NEW h, NEW sp, Tree(h, L, sp), NEW p \in L, h.level[p].parent # Null,
           Null \notin {h.level[p].left, h.level[p].right}
    PROVE  TakenOut(h, Detached(h, p), L, p)
<1> DEFINE u == h.level[p].parent
           l == h.level[p].left
           r == h.level[p].right
           s == Leftmost(h, r)
           above == h.level[s].parent
           w == h.level[s].right
           k == Detached(h, p)
           sq == ReplacedSpans(sp, L, p, s)
<1>1. L \in SUBSET Prices /\ sp \in Spans(L) /\ h \in Heap(L) /\ Null \notin L
  BY Pointers DEF Tree
<1>2. Succession(h, L, sp, p, u, SideOf(p, u), s, above, w, l, r)
  BY SuccessorIsFound
<1>3. Within(p, sp[p]) /\ p \in Int
  BY LevelsAreIntegers
<1>4. u \in L /\ u # p /\ Within(p, sp[u])
  BY <1>3, ParentSlot
<1>5. /\ {l, r, s, above} \subseteq L /\ w \in L \cup {Null}
      /\ s # p /\ s # u
  <2> HIDE DEF u, l, r, s, above, w
  <2> QED
    BY <1>2 DEF Succession
<1>6. k = Freed(ReplaceBySuccessor(h, p), p)
  BY DEF Detached, Disconnect
<1> HIDE DEF k
<1>7. ReplacesTo(h, k, L, p, s, u, SideOf(p, u), above, w, l, r)
  <2>1. ReplacesTo(h, Freed(ReplaceBySuccessor(h, p), p), L, p, s, u, SideOf(p, u), above, w, l, r)
    BY <1>1, <1>4, <1>5, ReplaceFields
  <2> QED
    BY <1>6, <2>1, Zenon
<1>8. Tree(k, L \ {p}, sq)
  <2> HIDE DEF u, l, r, s, above, w, sq
  <2> QED
    BY <1>2, <1>7, ReplaceKeepsTree DEF sq
<1>9. Within(p, sq[u])
  <2> HIDE DEF s
  <2>1. SpansReplace(sp, sq, L, p, s)
    BY <1>1, <1>5, ReplacedSpansFields
  <2>2. sp[u].left # p /\ sp[u].right # p
    BY <1>1, <1>3, <1>4, SpansAreIntegers DEF Within
  <2>3. sq[u].left = sp[u].left /\ sq[u].right = sp[u].right
    <3> HIDE DEF sq, u
    <3> QED
      BY <1>4, <1>5, <2>1, <2>2, SidesAreTwo DEF SpansReplace
  <2> QED
    BY <1>4, <2>3 DEF Within
<1>10. k.edge = h.edge
  BY <1>7 DEF ReplacesTo
<1> HIDE DEF sq, k
<1> QED
  BY <1>4, <1>8, <1>9, <1>10 DEF TakenOut, k

\* The last level.
LEMMA LastTakesOut ==
    ASSUME NEW L, NEW h, NEW sp, Tree(h, L, sp), NEW p \in L, h.level[p].parent = Null,
           h.level[p].left = Null, h.level[p].right = Null
    PROVE  TakenOut(h, Detached(h, p), L, p)
<1> DEFINE k == Detached(h, p)
           g == [h EXCEPT !.root = Null]
           sq == [q \in {} |-> [left |-> 0, right |-> MaxPrice + 1]]
<1>1. L \in SUBSET Prices /\ sp \in Spans(L) /\ h \in Heap(L) /\ Null \notin L
  BY Pointers DEF Tree
<1>2. p = h.root /\ sp[p].left = 0 /\ sp[p].right = MaxPrice + 1
  <2>1. p = h.root
    BY DEF Tree, ParentLink
  <2> QED
    BY <1>1, <2>1 DEF Tree, RootLink
<1>3. L \ {p} = {}
  <2>1. \A x \in L : ~Between(x, p, sp[p].left) /\ ~Between(x, p, sp[p].right)
    <3>1. ChildLink(h, L, sp, p, "left") /\ ChildLink(h, L, sp, p, "right")
      BY SidesAreTwo DEF Tree
    <3> QED
      BY <3>1 DEF ChildLink
  <2>2. \A x \in L : x \in Int /\ 0 < x /\ x < MaxPrice + 1
    BY <1>1, MaxPriceIsNatural DEF Prices
  <2> QED
    BY <1>2, <2>1, <2>2 DEF Between
<1>4. k = Freed(g, p)
  BY <1>2 DEF Detached, Disconnect, changeBookRoots
<1>5. g \in Heap(L) /\ g.root = Null /\ g.edge = h.edge
  BY <1>1 DEF Heap, Pointer
<1> HIDE DEF k, g
<1>6. FreesTo(g, k, L, p)
  BY <1>1, <1>4, <1>5, FreedFields
<1>7. k \in Heap({}) /\ k.root = Null /\ k.edge = h.edge
  BY <1>3, <1>5, <1>6 DEF FreesTo
<1>8. sq \in Spans({})
  BY DEF Spans
<1> HIDE DEF sq
<1>9. Tree(k, {}, sq)
  BY <1>7, <1>8 DEF Tree, RootLink
<1>10. Even(k, {}, Null)
  BY DEF Even
<1> QED
  BY <1>3, <1>7, <1>9, <1>10 DEF TakenOut, k

\* Disconnect takes a level out of the tree, unless it is a root with children.
LEMMA LevelIsTakenOut ==
    ASSUME NEW L, NEW h, NEW sp, Tree(h, L, sp), NEW p \in L,
           h.level[p].parent = Null => h.level[p].left = Null /\ h.level[p].right = Null
    PROVE  TakenOut(h, Detached(h, p), L, p)
  BY SpliceTakesOut, SuccessorTakesOut, LastTakesOut

\* After n rounds of the climb from the parent of p.
ClimbedTo(at, K, e, p, n) ==
    /\ at.top \in K \cup {Null}
    /\ at.heap.edge = e
    /\ \E sq : /\ Tree(at.heap, K, sq)
               /\ at.top # Null => /\ Within(p, sq[at.top])
                                   /\ sq[at.top].right - sq[at.top].left >= n + 2

\* The span of the parent is wider, and the parent is not in that of the child.
LEMMA ParentSpan ==
    ASSUME NEW L, NEW h, NEW sp, Tree(h, L, sp), NEW q \in L, NEW x \in Int,
           Within(x, sp[q]), h.level[q].parent # Null
    PROVE  LET a == h.level[q].parent
           IN  /\ a \in L /\ Within(x, sp[a]) /\ ~Within(a, sp[q])
               /\ sp[a].right - sp[a].left >= (sp[q].right - sp[q].left) + 1
<1> DEFINE a == h.level[q].parent
           s == SideOf(x, a)
<1>1. a \in L /\ h.level[a][s] = q /\ s \in Sides /\ Within(x, sp[a])
  BY ParentSlot
<1>2. L \in SUBSET Prices /\ sp \in Spans(L) /\ q # Null
  BY Pointers DEF Tree
<1>3. sp[q][Opposite(s)] = a
  BY <1>1, <1>2, ChildIsBetween
<1>4. /\ sp[q].right - sp[q].left < sp[a].right - sp[a].left
      /\ sp[q].left \in Int /\ sp[q].right \in Int /\ sp[a].left \in Int /\ sp[a].right \in Int
  BY <1>1, <1>2, WidthsOfSpans, SpansAreIntegers
<1>5. Opposite(s) \in Sides /\ a \in Int
  BY <1>1, <1>2, SidesAreTwo, SpansAreIntegers
<1> HIDE DEF s, a
<1>6. ~Within(a, sp[q])
  BY <1>3, <1>4, <1>5 DEF Within, Sides
<1> QED
  BY <1>1, <1>4, <1>6 DEF a

\* A round of the climb keeps the tree, comes to a wider span, and leaves only the
\* level above uneven if only the level it came to was.
LEMMA ClimbClimbs ==
    ASSUME NEW K, NEW at, NEW e, NEW p \in Int, NEW n \in Nat, ClimbedTo(at, K, e, p, n)
    PROVE  /\ ClimbedTo(Climb(p, at), K, e, p, n + 1)
           /\ Even(at.heap, K, at.top) => Even(Climb(p, at).heap, K, Climb(p, at).top)
<1>1. CASE at.top = Null
  <2>1. Climb(p, at) = at
    BY <1>1 DEF Climb
  <2>2. ClimbedTo(at, K, e, p, n + 1)
    BY <1>1 DEF ClimbedTo
  <2> QED
    BY <2>1, <2>2
<1>2. CASE at.top # Null
  <2> DEFINE h == at.heap
             a == at.top
             above == h.level[a].parent
             done == Settle(h, a)
             k == Join(done.heap, p, above, done.top)
  <2>1. a \in K /\ h.edge = e
    BY <1>2 DEF ClimbedTo
  <2>2. PICK sp : /\ Tree(h, K, sp) /\ Within(p, sp[a])
                  /\ sp[a].right - sp[a].left >= n + 2
    BY <1>2 DEF ClimbedTo
  <2>3. /\ \E sq : Rebuilt(h, k, K, sp, sq, a, done.top)
        /\ done.heap.level[done.top].parent = above
    BY <2>1, <2>2, SettleRebuilds
  <2>4. above \in K \cup {Null}
    BY <2>1, <2>2 DEF Tree, ParentLink
  <2>5. Climb(p, at) = [heap |-> k, top |-> above]
    <3>1. K \subseteq Int
      BY <2>2, LevelsAreIntegers
    <3>2. above # Null => SideOf(p, above) = IF above > p THEN "left" ELSE "right"
      BY <2>4, <3>1 DEF SideOf
    <3>3. Climb(p, at) = [heap |-> IF above = Null THEN done.heap
                                   ELSE [done.heap EXCEPT !.level[above][IF above > p THEN "left" ELSE "right"]
                                             = done.top],
                          top |-> above]
      BY <1>2, <2>3 DEF Climb, Settle
    <3> HIDE DEF done, above
    <3> QED
      BY <3>2, <3>3 DEF Join
  <2>6. Even(h, K, a) => Even(k, K, above)
    BY <2>1, <2>2, SettleKeepsEven
  <2>7. above # Null => /\ Within(p, sp[above]) /\ ~Within(above, sp[a])
                        /\ sp[above].right - sp[above].left >= (sp[a].right - sp[a].left) + 1
    BY <2>1, <2>2, ParentSpan
  <2> HIDE DEF k, above, done, h, a
  <2>8. PICK sq : Rebuilt(h, k, K, sp, sq, a, done.top)
    BY <2>3
  <2>9. /\ Tree(k, K, sq) /\ k.edge = e
        /\ above # Null => sq[above] = sp[above]
    BY <2>1, <2>4, <2>7, <2>8 DEF Rebuilt
  <2>10. above # Null => sq[above].right - sq[above].left >= (n + 1) + 2
    <3> SUFFICES ASSUME above # Null PROVE sq[above].right - sq[above].left >= (n + 1) + 2
      OBVIOUS
    <3>1. sp[a].right - sp[a].left \in Nat /\ sp[above].right - sp[above].left \in Nat
      BY <2>1, <2>2, <2>4, WidthsOfSpans
    <3> QED
      BY <2>2, <2>7, <2>9, <3>1
  <2>11. ClimbedTo([heap |-> k, top |-> above], K, e, p, n + 1)
    BY <2>4, <2>7, <2>9, <2>10 DEF ClimbedTo
  <2> QED
    BY <2>5, <2>6, <2>11 DEF h, a
<1> QED
  BY <1>1, <1>2

\* climb of the operator deleteLimit is such a function.
ClimbStep(start, p, f, n) == IF n = 0 THEN start ELSE Climb(p, f[n - 1])

\* The whole climb is such a function of the number of rounds.
IsClimb(f, start, p) == f = [n \in 0..MaxPrice |-> ClimbStep(start, p, f, n)]

\* The function itself.
TheClimb(start, p) == CHOOSE f : IsClimb(f, start, p)

\* deleteLimit is a value of that function.
LEMMA DeleteLimitClimbs ==
    ASSUME NEW h, NEW p
    PROVE  deleteLimit(h, p) =
              TheClimb([heap |-> Detached(updateBookEdgeRemove(h, p), p),
                        top |-> h.level[p].parent], p)[MaxPrice].heap
  BY DEF deleteLimit, TheClimb, IsClimb, ClimbStep, Detached, Freed

\* There is one: the recursion goes down to 0.
LEMMA ClimbExists ==
    ASSUME NEW start, NEW p
    PROVE  IsClimb(TheClimb(start, p), start, p)
<1> DEFINE Upto(f, n) == \A i \in 0..n : f[i] = ClimbStep(start, p, f, i)
           P == {n \in Nat : \E f : Upto(f, n)}
<1>1. 0 \in P
  <2> DEFINE f == [i \in {0} |-> start]
  <2>1. f[0] = ClimbStep(start, p, f, 0)
    BY DEF ClimbStep
  <2> HIDE DEF f
  <2> QED
    BY <2>1
<1>2. \A n \in P : n + 1 \in P
  <2> SUFFICES ASSUME NEW n \in Nat, NEW f, Upto(f, n)
               PROVE  \E g : Upto(g, n + 1)
    OBVIOUS
  <2> DEFINE g == [i \in 0..(n + 1) |-> ClimbStep(start, p, f, i)]
  <2>1. ASSUME NEW i \in 0..(n + 1)
        PROVE  g[i] = ClimbStep(start, p, g, i)
    <3>1. CASE i = 0
      BY <3>1 DEF ClimbStep
    <3>2. CASE i # 0
      <4>1. i - 1 \in 0..n /\ i - 1 \in 0..(n + 1)
        BY <3>2
      <4>2. g[i - 1] = f[i - 1] /\ g[i] = ClimbStep(start, p, f, i)
        BY <4>1
      <4> HIDE DEF g
      <4> QED
        BY <3>2, <4>2 DEF ClimbStep
    <3> QED
      BY <3>1, <3>2
  <2> HIDE DEF g
  <2> QED
    BY <2>1
<1>3. P = Nat
  <2> HIDE DEF P
  <2>1. P \in SUBSET Nat
    BY DEF P
  <2> QED
    BY <1>1, <1>2, <2>1, NaturalInduction
<1>4. MaxPrice \in P
  <2> HIDE DEF P
  <2> QED
    BY <1>3, MaxPriceIsNatural
<1>5. PICK f : Upto(f, MaxPrice)
  BY <1>4
<1> DEFINE g == [i \in 0..MaxPrice |-> f[i]]
<1>6. \A i \in 0..MaxPrice : g[i] = ClimbStep(start, p, g, i)
  <2> SUFFICES ASSUME NEW i \in 0..MaxPrice PROVE g[i] = ClimbStep(start, p, g, i)
    OBVIOUS
  <2>1. g[i] = ClimbStep(start, p, f, i)
    BY <1>5
  <2>2. i # 0 => g[i - 1] = f[i - 1]
    BY MaxPriceIsNatural
  <2> HIDE DEF g
  <2> QED
    BY <2>1, <2>2 DEF ClimbStep
<1>7. g = [i \in 0..MaxPrice |-> ClimbStep(start, p, g, i)]
  <2>1. g = [i \in 0..MaxPrice |-> g[i]]
    OBVIOUS
  <2> HIDE DEF g
  <2> QED
    BY <1>6, <2>1
<1> HIDE DEF g
<1>8. IsClimb(g, start, p)
  BY <1>7 DEF IsClimb
<1> QED
  BY <1>8 DEF TheClimb

\* The climb comes to the top.
LEMMA ClimbComesToTop ==
    ASSUME NEW K, NEW start, NEW e, NEW p \in Int, ClimbedTo(start, K, e, p, 0)
    PROVE  LET k == TheClimb(start, p)[MaxPrice].heap
           IN  /\ \E sq : Tree(k, K, sq)
               /\ k.edge = e
               /\ Even(start.heap, K, start.top) => Even(k, K, Null)
<1> DEFINE f == TheClimb(start, p)
           InStep(at) == Even(start.heap, K, start.top) => Even(at.heap, K, at.top)
           P == {n \in Nat : n <= MaxPrice => ClimbedTo(f[n], K, e, p, n) /\ InStep(f[n])}
<1>1. IsClimb(f, start, p)
  BY ClimbExists
<1> HIDE DEF f
<1>2. f[0] = start /\ \A n \in Nat : n + 1 <= MaxPrice => f[n + 1] = Climb(p, f[n])
  <2>1. \A n \in 0..MaxPrice : f[n] = ClimbStep(start, p, f, n)
    BY <1>1 DEF IsClimb
  <2>2. 0 \in 0..MaxPrice /\ \A n \in Nat : n + 1 <= MaxPrice => n + 1 \in 0..MaxPrice /\ n + 1 # 0 /\ (n + 1) - 1 = n
    BY MaxPriceIsNatural
  <2> QED
    BY <2>1, <2>2 DEF ClimbStep
<1>3. 0 \in P
  BY <1>2
<1>4. \A n \in P : n + 1 \in P
  <2> SUFFICES ASSUME NEW n \in P, n + 1 <= MaxPrice
               PROVE  ClimbedTo(f[n + 1], K, e, p, n + 1) /\ InStep(f[n + 1])
    OBVIOUS
  <2>1. n \in Nat /\ n <= MaxPrice
    BY MaxPriceIsNatural
  <2>2. ClimbedTo(f[n], K, e, p, n) /\ InStep(f[n])
    BY <2>1
  <2>3. f[n + 1] = Climb(p, f[n])
    BY <1>2, <2>1
  <2>4. /\ ClimbedTo(Climb(p, f[n]), K, e, p, n + 1)
        /\ Even(f[n].heap, K, f[n].top) => Even(Climb(p, f[n]).heap, K, Climb(p, f[n]).top)
    BY <2>1, <2>2, ClimbClimbs
  <2> QED
    BY <2>2, <2>3, <2>4
<1>5. ClimbedTo(f[MaxPrice], K, e, p, MaxPrice) /\ InStep(f[MaxPrice])
  <2> HIDE DEF P
  <2>1. P \in SUBSET Nat
    BY DEF P
  <2>2. MaxPrice \in P
    BY <1>3, <1>4, <2>1, NaturalInduction, MaxPriceIsNatural
  <2> QED
    BY <2>2, MaxPriceIsNatural DEF P
<1>6. f[MaxPrice].top = Null
  <2> SUFFICES ASSUME f[MaxPrice].top # Null PROVE FALSE
    OBVIOUS
  <2> DEFINE a == f[MaxPrice].top
  <2>1. a \in K
    BY <1>5 DEF ClimbedTo
  <2>2. PICK sq : Tree(f[MaxPrice].heap, K, sq) /\ sq[a].right - sq[a].left >= MaxPrice + 2
    BY <1>5 DEF ClimbedTo
  <2>3. sq[a].right - sq[a].left \in Nat /\ sq[a].right - sq[a].left <= MaxPrice + 1
    BY <2>1, <2>2, WidthsOfSpans
  <2> QED
    BY <2>2, <2>3, MaxPriceIsNatural
<1> QED
  BY <1>5, <1>6 DEF f, ClimbedTo

\* A level that goes.
Removes(h, k, L, p) ==
    /\ \E sq : Tree(k, L \ {p}, sq)
    /\ k.edge = updateBookEdgeRemove(h, p).edge
    /\ AllStand(h, L) /\ Null \in {h.level[p].left, h.level[p].right}
           => AllStand(k, L \ {p})

\* deleteLimit makes a tree without the level, unless that is a root with children,
\* and keeps it an AVL tree if it was one and the level had at most one child.
LEMMA DeleteLimitRemoves ==
    ASSUME NEW L, NEW h, NEW sp, Tree(h, L, sp), NEW p \in L,
           h.level[p].parent = Null => h.level[p].left = Null /\ h.level[p].right = Null
    PROVE  Removes(h, deleteLimit(h, p), L, p)
<1> DEFINE K == L \ {p}
           g == updateBookEdgeRemove(h, p)
           d == Detached(g, p)
           u == h.level[p].parent
           start == [heap |-> d, top |-> u]
           k == deleteLimit(h, p)
<1>1. /\ L \in SUBSET Prices /\ h \in Heap(L) /\ Null \notin L /\ p \in Int
      /\ h.level[p].left \in Pointer /\ h.level[p].right \in Pointer /\ u \in Pointer
      /\ h.edge \in Pointer /\ Null \in Pointer
  BY Pointers DEF Tree
<1>2. /\ g = [level |-> h.level, root |-> h.root, edge |-> g.edge]
      /\ g.edge \in Pointer
  <2>1. CASE p # h.edge
    BY <1>1, <2>1 DEF updateBookEdgeRemove, Heap
  <2>2. CASE p = h.edge
    <3> DEFINE inner == h.level[p][IF highestFirst THEN "left" ELSE "right"]
               e == IF inner # Null THEN inner ELSE IF p # h.root THEN h.level[p].parent ELSE Null
    <3>1. g = [h EXCEPT !.edge = e]
      BY <2>2 DEF updateBookEdgeRemove
    <3>2. e \in Pointer
      BY <1>1
    <3> HIDE DEF g, e
    <3> QED
      BY <1>1, <3>1, <3>2 DEF Heap
  <2> QED
    BY <2>1, <2>2
<1> HIDE DEF g
<1>3. Tree(g, L, sp) /\ (AllStand(h, L) => AllStand(g, L))
  BY <1>2, TreeHasNoEdge
<1>4. g.level = h.level
  BY <1>2
<1>5. TakenOut(g, d, L, p)
  BY <1>3, <1>4, LevelIsTakenOut
<1> HIDE DEF d
<1>6. /\ d.edge = g.edge /\ u \in K \cup {Null}
      /\ \E sq : Tree(d, K, sq) /\ (u # Null => Within(p, sq[u]))
      /\ AllStand(h, L) /\ Null \in {h.level[p].left, h.level[p].right} => Even(d, K, u)
  BY <1>3, <1>4, <1>5 DEF TakenOut
<1>7. start.heap = d /\ start.top = u
  OBVIOUS
<1>8. k = TheClimb(start, p)[MaxPrice].heap
  BY DeleteLimitClimbs DEF d, g
<1> HIDE DEF k, start, u, K
<1>9. ClimbedTo(start, K, g.edge, p, 0)
  <2>1. PICK sq : Tree(d, K, sq) /\ (u # Null => Within(p, sq[u]))
    BY <1>6
  <2>2. u # Null => sq[u].right - sq[u].left >= 0 + 2
    BY <1>6, <2>1, WidthsOfSpans
  <2> QED
    BY <1>6, <1>7, <2>1, <2>2 DEF ClimbedTo
<1>10. /\ \E sq : Tree(k, K, sq)
       /\ k.edge = g.edge
       /\ Even(start.heap, K, start.top) => Even(k, K, Null)
  BY <1>1, <1>8, <1>9, ClimbComesToTop
<1>11. Even(k, K, Null) => AllStand(k, K)
  <2>1. Null \notin K
    BY <1>1 DEF K
  <2> QED
    BY <2>1 DEF Even, AllStand
<1> QED
  BY <1>6, <1>7, <1>10, <1>11 DEF Removes, k, K, g

-----------------------------------------------------------------------------
(* The edge.                                                               *)

\* The edge is the level that precedes all others.
IsBest(L, b) ==
    IF L = {} THEN b = Null ELSE b \in L /\ \A q \in L \ {b} : Precedes(b, q)

\* Precedes is a strict order of the prices.
LEMMA OrderOfLevels ==
    /\ \A x, y \in Int : x # y /\ ~Precedes(x, y) => Precedes(y, x)
    /\ \A x, y \in Int : Precedes(x, y) => ~Precedes(y, x)
    /\ \A x, y, z \in Int : Precedes(x, y) /\ Precedes(y, z) => Precedes(x, z)
  BY DEF Precedes

\* updateBookEdgeRemove does not leave the edge on the level that goes.
LEMMA EdgeStaysLive ==
    ASSUME NEW L, NEW h, NEW sp, Tree(h, L, sp), NEW p \in L, h.edge \in L \cup {Null}
    PROVE  updateBookEdgeRemove(h, p).edge \in (L \ {p}) \cup {Null}
<1>1. L \in SUBSET Prices /\ h \in Heap(L) /\ Null \notin L
  BY Pointers DEF Tree
<1>2. \A s \in Sides : h.level[p][s] # Null => h.level[p][s] \in L \ {p}
  BY ChildIsBetween
<1>3. p # h.root => h.level[p].parent \in L \ {p}
  <2>1. h.level[p].parent = Null <=> p = h.root
    BY DEF Tree, ParentLink
  <2>2. Within(p, sp[p]) /\ p \in Int
    BY LevelsAreIntegers
  <2>3. h.level[p].parent # Null => h.level[p].parent \in L /\ h.level[p].parent # p
    BY <2>2, ParentSlot
  <2> QED
    BY <2>1, <2>3
<1>4. CASE p # h.edge
  BY <1>4 DEF updateBookEdgeRemove
<1>5. CASE p = h.edge
  <2> DEFINE inner == h.level[p][IF highestFirst THEN "left" ELSE "right"]
             e == IF inner # Null THEN inner ELSE IF p # h.root THEN h.level[p].parent ELSE Null
  <2>1. updateBookEdgeRemove(h, p) = [h EXCEPT !.edge = e]
    BY <1>5 DEF updateBookEdgeRemove
  <2>2. e \in (L \ {p}) \cup {Null}
    <3>1. inner # Null => inner \in L \ {p}
      BY <1>2, SidesAreTwo
    <3> QED
      BY <1>3, <3>1
  <2> HIDE DEF e
  <2>3. [h EXCEPT !.edge = e].edge = e
    BY <1>1 DEF Heap
  <2> QED
    BY <2>1, <2>2, <2>3
<1> QED
  BY <1>4, <1>5

\* The side of the levels that come after the edge.
Inner == IF highestFirst THEN "left" ELSE "right"

\* The levels after p are on its inner side.
LEMMA InnerIsAfter ==
    /\ Inner \in Sides
    /\ \A x, y \in Int : x # y => (Precedes(x, y) <=> SideOf(y, x) = Inner)
  BY DEF Inner, Sides, SideOf, Precedes

\* What is next to the best level in a balanced tree.
LEMMA EdgeMovesToBest ==
    ASSUME NEW L, NEW h, NEW sp, Tree(h, L, sp), AllStand(h, L), NEW p \in L, IsBest(L, h.edge)
    PROVE  IsBest(L \ {p}, updateBookEdgeRemove(h, p).edge)
<1>1. L \in SUBSET Prices /\ h \in Heap(L) /\ Null \notin L /\ sp \in Spans(L)
  BY Pointers DEF Tree
<1>2. h.edge \in L /\ \A q \in L \ {h.edge} : Precedes(h.edge, q)
  BY DEF IsBest
<1>3. \A q \in L : q \in Int
  BY <1>1, SpansAreIntegers
<1>4. CASE p # h.edge
  <2>1. updateBookEdgeRemove(h, p) = h
    BY <1>4 DEF updateBookEdgeRemove
  <2> QED
    BY <1>2, <1>4, <2>1 DEF IsBest
<1>5. CASE p = h.edge
  <2> DEFINE i == Inner
             o == Opposite(Inner)
             c == h.level[p][i]
             u == h.level[p].parent
             e == IF c # Null THEN c ELSE IF p # h.root THEN u ELSE Null
  <2>1. updateBookEdgeRemove(h, p).edge = e
    <3>1. updateBookEdgeRemove(h, p) = [h EXCEPT !.edge = e]
      BY <1>5 DEF updateBookEdgeRemove, Inner
    <3> HIDE DEF e
    <3> QED
      BY <1>1, <3>1 DEF Heap
  <2>2. i \in Sides /\ o \in Sides /\ i # o /\ Opposite(o) = i
    BY InnerIsAfter, SidesAreTwo
  <2>3. \A q \in L : q # p => Precedes(p, q) /\ SideOf(q, p) = i
    BY <1>2, <1>3, <1>5, InnerIsAfter
  <2>4. h.level[p][o] = Null
    <3> SUFFICES ASSUME h.level[p][o] # Null PROVE FALSE
      OBVIOUS
    <3>1. h.level[p][o] \in L /\ h.level[p][o] # p /\ o = SideOf(h.level[p][o], p)
      BY <2>2, ChildIsBetween
    <3> QED
      BY <2>2, <2>3, <3>1
  <2>5. CASE c # Null
    <3>1. c \in L /\ c # p /\ sp[c][o] = p
      BY <2>2, <2>5, ChildIsBetween
    <3>2. h.level[c][o] = Null
      <4>1. Stands(h, p) /\ Stands(h, c)
        BY <3>1 DEF AllStand
      <4>2. HeightAt(h, p, i) - HeightAt(h, p, o) \in -1..1
        BY <2>2, <4>1, StandsOnSides
      <4>3. HeightAt(h, p, o) = 0 /\ HeightAt(h, p, i) = h.level[c].height
        BY <2>4, <2>5 DEF HeightAt, Height
      <4>4. h.level[c].height = 1 + Max2(HeightAt(h, c, o), HeightAt(h, c, i))
        BY <2>2, <3>1, <4>1, StandsOnSides
      <4>5. /\ HeightAt(h, c, o) \in Nat /\ HeightAt(h, c, i) \in Nat
            /\ HeightAt(h, c, o) = 0
        <5>1. HeightAt(h, c, o) \in Nat /\ HeightAt(h, c, i) \in Nat /\ h.level[c].height \in Nat
          BY <2>2, <3>1, HeightsAreNaturals
        <5>2. h.level[c].height <= 1
          BY <4>2, <4>3, <5>1
        <5> QED
          BY <4>4, <5>1, <5>2 DEF Max2
      <4>6. h.level[c][o] # Null => h.level[c][o] \in L /\ HeightAt(h, c, o) = h.level[h.level[c][o]].height
        BY <2>2, <3>1, HeightsAreNaturals, ChildrenAreLevels
      <4>7. \A q \in L : h.level[q].height \in Nat \ {0}
        BY HeightsAreNaturals
      <4> QED
        BY <4>5, <4>6, <4>7
    <3>3. \A x \in L : ~Between(x, c, p)
      <4>1. ChildLink(h, L, sp, c, o)
        BY <2>2, <3>1 DEF Tree
      <4> HIDE DEF o, c
      <4> QED
        BY <3>1, <3>2, <4>1 DEF ChildLink
    <3>4. \A q \in (L \ {p}) \ {c} : Precedes(c, q)
      <4> SUFFICES ASSUME NEW q \in L, q # p, q # c PROVE Precedes(c, q)
        OBVIOUS
      <4>1. Precedes(p, q) /\ Precedes(p, c) /\ ~Between(q, c, p) /\ q \in Int /\ c \in Int /\ p \in Int
        BY <1>3, <2>3, <3>1, <3>3
      <4> HIDE DEF c
      <4> QED
        BY <4>1 DEF Precedes, Between
    <3> HIDE DEF c
    <3> QED
      BY <2>1, <2>5, <3>1, <3>4 DEF IsBest
  <2>6. CASE c = Null /\ p # h.root
    <3>1. u # Null
      BY <2>6 DEF Tree, ParentLink
    <3>2. Within(p, sp[p])
      BY LevelsAreIntegers
    <3>3. u \in L /\ u # p /\ h.level[u][SideOf(p, u)] = p /\ SideOf(p, u) \in Sides
      BY <1>3, <3>1, <3>2, ParentSlot
    <3>4. sp[p][Opposite(SideOf(p, u))] = u
      BY <1>1, <3>3, ChildIsBetween
    <3>5. SideOf(u, p) = i /\ Opposite(SideOf(p, u)) = i
      <4>1. SideOf(u, p) = i /\ u \in Int /\ p \in Int /\ u # p
        BY <1>3, <2>3, <3>3
      <4> HIDE DEF u, i
      <4> QED
        BY <4>1 DEF SideOf, Opposite
    <3>6. \A x \in L : ~Between(x, p, u)
      <4>1. ChildLink(h, L, sp, p, i)
        BY <2>2 DEF Tree
      <4> HIDE DEF i, u
      <4> QED
        BY <2>6, <3>4, <3>5, <4>1 DEF ChildLink
    <3>7. \A q \in (L \ {p}) \ {u} : Precedes(u, q)
      <4> SUFFICES ASSUME NEW q \in L, q # p, q # u PROVE Precedes(u, q)
        OBVIOUS
      <4>1. Precedes(p, q) /\ Precedes(p, u) /\ ~Between(q, p, u) /\ q \in Int /\ u \in Int /\ p \in Int
        BY <1>3, <2>3, <3>3, <3>6
      <4> HIDE DEF u
      <4> QED
        BY <4>1 DEF Precedes, Between
    <3> HIDE DEF u, c
    <3> QED
      BY <2>1, <2>6, <3>3, <3>7 DEF IsBest
  <2>7. CASE c = Null /\ p = h.root
    <3>1. sp[p].left = 0 /\ sp[p].right = MaxPrice + 1
      BY <1>1, <2>7 DEF Tree, RootLink
    <3>2. h.level[p].left = Null /\ h.level[p].right = Null
      BY <2>2, <2>4, <2>7 DEF Sides
    <3>3. \A x \in L : ~Between(x, p, 0) /\ ~Between(x, p, MaxPrice + 1)
      <4>1. ChildLink(h, L, sp, p, "left") /\ ChildLink(h, L, sp, p, "right")
        BY SidesAreTwo DEF Tree
      <4> QED
        BY <3>1, <3>2, <4>1 DEF ChildLink
    <3>4. \A x \in L : x \in Int /\ 0 < x /\ x < MaxPrice + 1
      BY <1>1, MaxPriceIsNatural DEF Prices
    <3>5. L \ {p} = {}
      BY <3>3, <3>4 DEF Between
    <3>6. e = Null
      BY <2>7
    <3> HIDE DEF e
    <3> QED
      BY <2>1, <3>5, <3>6 DEF IsBest
  <2> QED
    BY <2>5, <2>6, <2>7
<1> QED
  BY <1>4, <1>5

\* addLimit moves the edge to the new level exactly if that is better.
LEMMA EdgeStaysBest ==
    ASSUME NEW L, L \subseteq Int, NEW b, IsBest(L, b), NEW new \in Int, new \notin L, NEW e,
           L = {} => e = new,
           L # {} => e = IF Precedes(new, b) THEN new ELSE b
    PROVE  IsBest(L \cup {new}, e)
<1>1. CASE L = {}
  BY <1>1 DEF IsBest
<1>2. CASE L # {}
  <2>1. b \in L /\ b \in Int /\ new # b /\ \A q \in L \ {b} : q \in Int /\ Precedes(b, q)
    BY <1>2 DEF IsBest
  <2>2. CASE Precedes(new, b)
    <3>1. \A q \in L : Precedes(new, q)
      BY <2>1, <2>2, OrderOfLevels
    <3> QED
      BY <1>2, <2>2, <3>1 DEF IsBest
  <2>3. CASE ~Precedes(new, b)
    <3>1. Precedes(b, new)
      BY <2>1, <2>3, OrderOfLevels
    <3> QED
      BY <1>2, <2>1, <2>3, <3>1 DEF IsBest
  <2> QED
    BY <2>2, <2>3
<1> QED
  BY <1>1, <1>2

-----------------------------------------------------------------------------
(* The traversal.                                                          *)

\* subtree of inOrderTreeTraversal is such a function.
TraversalStep(h, S, f, n) ==
    [p \in S |->
        IF p = Null \/ n = 0
        THEN <<>>
        ELSE f[n - 1][h.level[p].left] \o <<p>> \o f[n - 1][h.level[p].right]]

\* All of it, for every depth and level.
IsTraversal(f, h, S) == f = [n \in 0..MaxPrice |-> TraversalStep(h, S, f, n)]

\* The function itself.
Traversal(h, S) == CHOOSE f : IsTraversal(f, h, S)

\* inOrderTreeTraversal is a value of that function.
LEMMA TraversalIsOne ==
    inOrderTreeTraversal = Traversal(heap, Levels \cup {Null})[MaxPrice][heap.root]
  BY DEF inOrderTreeTraversal, Traversal, IsTraversal, TraversalStep

\* There is one: the recursion goes down to 0.
LEMMA TraversalExists ==
    ASSUME NEW h, NEW S
    PROVE  IsTraversal(Traversal(h, S), h, S)
<1> DEFINE Upto(f, n) == \A i \in 0..n : f[i] = TraversalStep(h, S, f, i)
           P == {n \in Nat : \E f : Upto(f, n)}
<1>1. 0 \in P
  <2> DEFINE f == [i \in {0} |-> [p \in S |-> <<>>]]
  <2>1. f[0] = TraversalStep(h, S, f, 0)
    BY DEF TraversalStep
  <2> HIDE DEF f
  <2> QED
    BY <2>1
<1>2. \A n \in P : n + 1 \in P
  <2> SUFFICES ASSUME NEW n \in Nat, NEW f, Upto(f, n)
               PROVE  \E g : Upto(g, n + 1)
    OBVIOUS
  <2> DEFINE g == [i \in 0..(n + 1) |-> TraversalStep(h, S, f, i)]
  <2>1. ASSUME NEW i \in 0..(n + 1)
        PROVE  g[i] = TraversalStep(h, S, g, i)
    <3>1. CASE i = 0
      BY <3>1 DEF TraversalStep
    <3>2. CASE i # 0
      <4>1. i - 1 \in 0..n /\ i - 1 \in 0..(n + 1)
        BY <3>2
      <4>2. g[i - 1] = f[i - 1] /\ g[i] = TraversalStep(h, S, f, i)
        BY <4>1
      <4> HIDE DEF g
      <4> QED
        BY <3>2, <4>2 DEF TraversalStep
    <3> QED
      BY <3>1, <3>2
  <2> HIDE DEF g
  <2> QED
    BY <2>1
<1>3. P = Nat
  <2> HIDE DEF P
  <2>1. P \in SUBSET Nat
    BY DEF P
  <2> QED
    BY <1>1, <1>2, <2>1, NaturalInduction
<1>4. MaxPrice \in P
  <2> HIDE DEF P
  <2> QED
    BY <1>3, MaxPriceIsNatural
<1>5. PICK f : Upto(f, MaxPrice)
  BY <1>4
<1> DEFINE g == [i \in 0..MaxPrice |-> f[i]]
<1>6. \A i \in 0..MaxPrice : g[i] = TraversalStep(h, S, g, i)
  <2> SUFFICES ASSUME NEW i \in 0..MaxPrice PROVE g[i] = TraversalStep(h, S, g, i)
    OBVIOUS
  <2>1. g[i] = TraversalStep(h, S, f, i)
    BY <1>5
  <2>2. i # 0 => g[i - 1] = f[i - 1]
    BY MaxPriceIsNatural
  <2> HIDE DEF g
  <2> QED
    BY <2>1, <2>2 DEF TraversalStep
<1>7. g = [i \in 0..MaxPrice |-> TraversalStep(h, S, g, i)]
  <2>1. g = [i \in 0..MaxPrice |-> g[i]]
    OBVIOUS
  <2> HIDE DEF g
  <2> QED
    BY <1>6, <2>1
<1> HIDE DEF g
<1>8. IsTraversal(g, h, S)
  BY <1>7 DEF IsTraversal
<1> QED
  BY <1>8 DEF Traversal

\* subtree of Reached is such a function.
ReachStep(h, S, f, n) ==
    [p \in S |->
        IF p = Null \/ n = 0
        THEN {}
        ELSE {p} \cup f[n - 1][h.level[p].left] \cup f[n - 1][h.level[p].right]]

\* All of it, for every depth and level.
IsReach(f, h, S) == f = [n \in 0..MaxPrice |-> ReachStep(h, S, f, n)]

\* The function itself.
Reach(h, S) == CHOOSE f : IsReach(f, h, S)

\* Reached is a value of that function.
LEMMA ReachIsOne ==
    Reached = Reach(heap, Levels \cup {Null})[MaxPrice][heap.root]
  BY DEF Reached, Reach, IsReach, ReachStep

\* There is one: the recursion goes down to 0.
LEMMA ReachExists ==
    ASSUME NEW h, NEW S
    PROVE  IsReach(Reach(h, S), h, S)
<1> DEFINE Upto(f, n) == \A i \in 0..n : f[i] = ReachStep(h, S, f, i)
           P == {n \in Nat : \E f : Upto(f, n)}
<1>1. 0 \in P
  <2> DEFINE f == [i \in {0} |-> [p \in S |-> {}]]
  <2>1. f[0] = ReachStep(h, S, f, 0)
    BY DEF ReachStep
  <2> HIDE DEF f
  <2> QED
    BY <2>1
<1>2. \A n \in P : n + 1 \in P
  <2> SUFFICES ASSUME NEW n \in Nat, NEW f, Upto(f, n)
               PROVE  \E g : Upto(g, n + 1)
    OBVIOUS
  <2> DEFINE g == [i \in 0..(n + 1) |-> ReachStep(h, S, f, i)]
  <2>1. ASSUME NEW i \in 0..(n + 1)
        PROVE  g[i] = ReachStep(h, S, g, i)
    <3>1. CASE i = 0
      BY <3>1 DEF ReachStep
    <3>2. CASE i # 0
      <4>1. i - 1 \in 0..n /\ i - 1 \in 0..(n + 1)
        BY <3>2
      <4>2. g[i - 1] = f[i - 1] /\ g[i] = ReachStep(h, S, f, i)
        BY <4>1
      <4> HIDE DEF g
      <4> QED
        BY <3>2, <4>2 DEF ReachStep
    <3> QED
      BY <3>1, <3>2
  <2> HIDE DEF g
  <2> QED
    BY <2>1
<1>3. P = Nat
  <2> HIDE DEF P
  <2>1. P \in SUBSET Nat
    BY DEF P
  <2> QED
    BY <1>1, <1>2, <2>1, NaturalInduction
<1>4. MaxPrice \in P
  <2> HIDE DEF P
  <2> QED
    BY <1>3, MaxPriceIsNatural
<1>5. PICK f : Upto(f, MaxPrice)
  BY <1>4
<1> DEFINE g == [i \in 0..MaxPrice |-> f[i]]
<1>6. \A i \in 0..MaxPrice : g[i] = ReachStep(h, S, g, i)
  <2> SUFFICES ASSUME NEW i \in 0..MaxPrice PROVE g[i] = ReachStep(h, S, g, i)
    OBVIOUS
  <2>1. g[i] = ReachStep(h, S, f, i)
    BY <1>5
  <2>2. i # 0 => g[i - 1] = f[i - 1]
    BY MaxPriceIsNatural
  <2> HIDE DEF g
  <2> QED
    BY <2>1, <2>2 DEF ReachStep
<1>7. g = [i \in 0..MaxPrice |-> ReachStep(h, S, g, i)]
  <2>1. g = [i \in 0..MaxPrice |-> g[i]]
    OBVIOUS
  <2> HIDE DEF g
  <2> QED
    BY <1>6, <2>1
<1> HIDE DEF g
<1>8. IsReach(g, h, S)
  BY <1>7 DEF IsReach
<1> QED
  BY <1>8 DEF Reach

\* A sequence of levels in rising order.
Rising(s, X) ==
    /\ s \in Seq(Int)
    /\ Range(s) = X
    /\ \A i, j \in 1..Len(s) : i < j => s[i] < s[j]

\* Rising sequences, one below the other, make a rising sequence.
LEMMA RisingJoined ==
    ASSUME NEW s, NEW t, NEW X, NEW Y, Rising(s, X), Rising(t, Y), \A x \in X, y \in Y : x < y
    PROVE  Rising(s \o t, X \cup Y)
<1> DEFINE r == s \o t
<1>1. /\ s \in Seq(Int) /\ t \in Seq(Int) /\ Range(s) = X /\ Range(t) = Y
      /\ \A i, j \in 1..Len(s) : i < j => s[i] < s[j]
      /\ \A i, j \in 1..Len(t) : i < j => t[i] < t[j]
  BY DEF Rising
<1>2. /\ r \in Seq(Int) /\ Len(r) = Len(s) + Len(t)
      /\ Len(s) \in Nat /\ Len(t) \in Nat
      /\ \A i \in 1..Len(r) : r[i] = IF i <= Len(s) THEN s[i] ELSE t[i - Len(s)]
  <2>1. r \in Seq(Int) /\ Len(r) = Len(s) + Len(t) /\ Len(s) \in Nat /\ Len(t) \in Nat
    BY <1>1
  <2>2. ASSUME NEW i \in 1..Len(r) PROVE r[i] = IF i <= Len(s) THEN s[i] ELSE t[i - Len(s)]
    BY <1>1, <2>1
  <2> QED
    BY <2>1, <2>2
<1>3. /\ DOMAIN s = 1..Len(s) /\ DOMAIN t = 1..Len(t) /\ DOMAIN r = 1..Len(r)
  BY <1>1, <1>2
<1> HIDE DEF r
<1>4. /\ \A i \in 1..Len(s) : s[i] \in X /\ s[i] \in Int
      /\ \A i \in 1..Len(t) : t[i] \in Y /\ t[i] \in Int
  <2>1. (\A i \in 1..Len(s) : s[i] \in X) /\ (\A i \in 1..Len(t) : t[i] \in Y)
    BY <1>1, <1>3 DEF Range
  <2>2. \A i \in 1..Len(s) : s[i] \in Int
    BY <1>1
  <2>3. \A i \in 1..Len(t) : t[i] \in Int
    BY <1>1
  <2> QED
    BY <2>1, <2>2, <2>3
<1>5. ASSUME NEW i \in 1..Len(r), NEW j \in 1..Len(r), i < j PROVE r[i] < r[j]
  <2>1. CASE j <= Len(s)
    <3>1. i \in 1..Len(s) /\ j \in 1..Len(s)
      BY <1>2, <1>5, <2>1
    <3>2. r[i] = s[i] /\ r[j] = s[j]
      <4>1. i <= Len(s)
        BY <1>2, <3>1
      <4> QED
        BY <1>2, <2>1, <4>1
    <3> QED
      BY <1>1, <1>5, <3>1, <3>2
  <2>2. CASE i > Len(s)
    <3>1. i - Len(s) \in 1..Len(t) /\ j - Len(s) \in 1..Len(t) /\ i - Len(s) < j - Len(s)
      BY <1>2, <1>5, <2>2
    <3>2. r[i] = t[i - Len(s)] /\ r[j] = t[j - Len(s)]
      BY <1>2, <1>5, <2>2
    <3> QED
      BY <1>1, <3>1, <3>2
  <2>3. CASE i <= Len(s) /\ j > Len(s)
    <3>1. i \in 1..Len(s) /\ j - Len(s) \in 1..Len(t)
      BY <1>2, <1>5, <2>3
    <3>2. r[i] = s[i] /\ r[j] = t[j - Len(s)]
      <4>1. ~(j <= Len(s))
        BY <1>2, <2>3
      <4> QED
        BY <1>2, <2>3, <4>1
    <3> QED
      BY <1>4, <3>1, <3>2
  <2> QED
    BY <1>2, <2>1, <2>2, <2>3
<1>6. Range(r) = X \cup Y
  <2>1. ASSUME NEW i \in 1..Len(r) PROVE r[i] \in X \cup Y
    <3>1. i > Len(s) => i - Len(s) \in 1..Len(t)
      BY <1>2
    <3>2. i <= Len(s) => i \in 1..Len(s)
      BY <1>2
    <3>3. r[i] = IF i <= Len(s) THEN s[i] ELSE t[i - Len(s)]
      BY <1>2
    <3>4. i <= Len(s) \/ i > Len(s)
      BY <1>2
    <3>5. CASE i <= Len(s)
      BY <1>4, <3>2, <3>3, <3>5
    <3>6. CASE i > Len(s)
      <4>1. ~(i <= Len(s))
        BY <1>2, <3>6
      <4> QED
        BY <1>4, <3>1, <3>3, <3>6, <4>1
    <3> QED
      BY <3>4, <3>5, <3>6
  <2>2. ASSUME NEW x \in X PROVE \E i \in 1..Len(r) : r[i] = x
    <3>1. PICK i \in 1..Len(s) : s[i] = x
      BY <1>1, <1>3 DEF Range
    <3>2. i \in 1..Len(r) /\ r[i] = s[i]
      BY <1>2
    <3> QED
      BY <3>1, <3>2
  <2>3. ASSUME NEW y \in Y PROVE \E i \in 1..Len(r) : r[i] = y
    <3>1. PICK i \in 1..Len(t) : t[i] = y
      BY <1>1, <1>3 DEF Range
    <3>2. i + Len(s) \in 1..Len(r) /\ r[i + Len(s)] = t[i]
      <4>1. i + Len(s) \in 1..Len(r) /\ ~(i + Len(s) <= Len(s)) /\ (i + Len(s)) - Len(s) = i
        BY <1>2
      <4> QED
        BY <1>2, <4>1
    <3> QED
      BY <3>1, <3>2
  <2> QED
    BY <1>3, <2>1, <2>2, <2>3 DEF Range
<1>7. Rising(r, X \cup Y)
  BY <1>2, <1>5, <1>6 DEF Rising
<1> QED
  BY <1>7 DEF r

\* The shortest rising sequences.
LEMMA RisingAlone ==
    /\ Rising(<<>>, {})
    /\ \A x \in Int : Rising(<<x>>, {x})
  BY DEF Rising, Range

\* The levels on one side of q, below it.
Beside(L, sp, q, s) == {x \in L : Between(x, q, sp[q][s])}
\* The levels in the span of q.
Below(L, sp, q) == {x \in L : Within(x, sp[q])}

\* The levels in the span of q are q, those of its left and those of its right child.
LEMMA LevelsBelow ==
    ASSUME NEW L, NEW h, NEW sp, Tree(h, L, sp), NEW q \in L
    PROVE  /\ Below(L, sp, q) = Beside(L, sp, q, "left") \cup {q} \cup Beside(L, sp, q, "right")
           /\ \A x \in Beside(L, sp, q, "left") : x < q
           /\ \A x \in Beside(L, sp, q, "right") : q < x
           /\ q \in Int /\ Beside(L, sp, q, "left") \subseteq Int
           /\ \A s \in Sides :
                 IF h.level[q][s] = Null
                 THEN Beside(L, sp, q, s) = {}
                 ELSE h.level[q][s] \in L /\ Beside(L, sp, q, s) = Below(L, sp, h.level[q][s])
<1>1. L \in SUBSET Prices /\ sp \in Spans(L)
  BY DEF Tree
<1>2. \A x \in L : /\ x \in Int /\ sp[x].left \in Int /\ sp[x].right \in Int
                   /\ sp[x].left < x /\ x < sp[x].right
  BY <1>1, SpansAreIntegers DEF Tree, Within
<1>3. ASSUME NEW s \in Sides
      PROVE  IF h.level[q][s] = Null
             THEN Beside(L, sp, q, s) = {}
             ELSE h.level[q][s] \in L /\ Beside(L, sp, q, s) = Below(L, sp, h.level[q][s])
  <2> DEFINE c == h.level[q][s]
  <2>1. CASE c = Null
    <3>1. \A x \in L : ~Between(x, q, sp[q][s])
      BY <2>1 DEF Tree, ChildLink
    <3> QED
      BY <2>1, <3>1 DEF Beside
  <2>2. CASE c # Null
    <3>1. c \in L /\ sp[c][s] = sp[q][s] /\ sp[c][Opposite(s)] = q
      BY <2>2, ChildIsBetween
    <3> HIDE DEF c
    <3>2. \A x \in L : Between(x, q, sp[q][s]) <=> Within(x, sp[c])
      <4>1. s = "left" => sp[c].left = sp[q].left /\ sp[c].right = q /\ sp[q][s] = sp[q].left
        BY <3>1, SidesAreTwo
      <4>2. s = "right" => sp[c].right = sp[q].right /\ sp[c].left = q /\ sp[q][s] = sp[q].right
        BY <3>1, SidesAreTwo
      <4> QED
        BY <1>2, <4>1, <4>2 DEF Between, Within, Sides
    <3>3. Beside(L, sp, q, s) = Below(L, sp, c)
      BY <3>2 DEF Beside, Below
    <3> QED
      BY <2>2, <3>1, <3>3 DEF c
  <2> QED
    BY <2>1, <2>2
<1>4. /\ \A x \in Beside(L, sp, q, "left") : x < q /\ x \in Int
      /\ \A x \in Beside(L, sp, q, "right") : q < x
  BY <1>2 DEF Beside, Between
<1>5. Below(L, sp, q) = Beside(L, sp, q, "left") \cup {q} \cup Beside(L, sp, q, "right")
  BY <1>2 DEF Below, Beside, Between, Within
<1> QED
  BY <1>2, <1>3, <1>4, <1>5

\* The traversal of a subtree comes to the levels of its span, in rising order, if its
\* depth is enough for the width of the span.
LEMMA TraversalRises ==
    ASSUME NEW L, NEW h, NEW sp, Tree(h, L, sp)
    PROVE  LET f == Traversal(h, L \cup {Null})
           IN  /\ f[MaxPrice][Null] = <<>>
               /\ \A q \in L : sp[q].right - sp[q].left <= MaxPrice + 1
                                  => Rising(f[MaxPrice][q], Below(L, sp, q))
<1> DEFINE S == L \cup {Null}
           f == Traversal(h, S)
           P == {n \in Nat : n <= MaxPrice =>
                    \A q \in L : sp[q].right - sp[q].left <= n + 1
                                  => Rising(f[n][q], Below(L, sp, q))}
<1>1. \A n \in 0..MaxPrice : f[n] = TraversalStep(h, S, f, n)
  <2>1. IsTraversal(f, h, S)
    BY TraversalExists
  <2> HIDE DEF f
  <2> QED
    BY <2>1 DEF IsTraversal
<1> HIDE DEF f
<1>2. \A n \in 0..MaxPrice : f[n][Null] = <<>>
  BY <1>1 DEF TraversalStep
<1>3. Null \notin L
  BY LevelsAreIntegers
<1>7. ASSUME NEW n \in Nat, n + 1 <= MaxPrice, NEW q \in L
      PROVE  f[n + 1][q] = f[n][h.level[q].left] \o <<q>> \o f[n][h.level[q].right]
  <2>1. n + 1 \in 0..MaxPrice /\ n + 1 # 0 /\ (n + 1) - 1 = n
    BY <1>7, MaxPriceIsNatural
  <2>2. f[n + 1] = TraversalStep(h, S, f, n + 1)
    BY <1>1, <2>1
  <2>3. q # Null /\ q \in S
    BY <1>3
  <2> HIDE DEF P, S
  <2> QED
    BY <2>1, <2>2, <2>3 DEF TraversalStep
<1>4. 0 \in P
  <2>1. \A q \in L : ~(sp[q].right - sp[q].left <= 0 + 1)
    BY WidthsOfSpans
  <2> QED
    BY <2>1
<1>5. \A n \in P : n + 1 \in P
  <2> SUFFICES ASSUME NEW n \in P, n + 1 <= MaxPrice, NEW q \in L,
                      sp[q].right - sp[q].left <= (n + 1) + 1
               PROVE  Rising(f[n + 1][q], Below(L, sp, q))
    OBVIOUS
  <2>1. n \in 0..MaxPrice /\ n + 1 \in 0..MaxPrice /\ n + 1 # 0 /\ (n + 1) - 1 = n /\ n \in Nat
    BY MaxPriceIsNatural
  <2>2. \A x \in L : sp[x].right - sp[x].left <= n + 1 => Rising(f[n][x], Below(L, sp, x))
    BY <2>1
  <2> DEFINE l == h.level[q].left
             r == h.level[q].right
             A == Beside(L, sp, q, "left")
             B == Beside(L, sp, q, "right")
  <2>3. f[n + 1][q] = f[n][l] \o <<q>> \o f[n][r]
    BY <1>7, <2>1
  <2>4. \A s \in Sides : Rising(f[n][h.level[q][s]], Beside(L, sp, q, s))
    <3> SUFFICES ASSUME NEW s \in Sides PROVE Rising(f[n][h.level[q][s]], Beside(L, sp, q, s))
      OBVIOUS
    <3>1. CASE h.level[q][s] = Null
      <4>1. Beside(L, sp, q, s) = {}
        BY <3>1, LevelsBelow
      <4> QED
        BY <1>2, <2>1, <3>1, <4>1, RisingAlone
    <3>2. CASE h.level[q][s] # Null
      <4> DEFINE c == h.level[q][s]
      <4>1. c \in L /\ Beside(L, sp, q, s) = Below(L, sp, c)
        BY <3>2, LevelsBelow
      <4>2. /\ sp[c].right - sp[c].left < sp[q].right - sp[q].left
            /\ sp[c].right - sp[c].left \in Nat /\ sp[q].right - sp[q].left \in Nat
        BY <3>2, <4>1, WidthsOfSpans
      <4>3. sp[c].right - sp[c].left <= n + 1
        BY <2>1, <4>2
      <4> QED
        BY <2>2, <4>1, <4>3
    <3> QED
      BY <3>1, <3>2
  <2>5. Rising(f[n][l], A) /\ Rising(f[n][r], B)
    BY <2>4, SidesAreTwo
  <2>6. /\ Below(L, sp, q) = A \cup {q} \cup B /\ q \in Int
        /\ \A x \in A : x < q /\ x \in Int
        /\ \A x \in B : q < x
    BY LevelsBelow
  <2>7. B \subseteq Int
    BY LevelsAreIntegers DEF Beside
  <2> HIDE DEF A, B, l, r
  <2>8. Rising(<<q>>, {q})
    BY <2>6, RisingAlone
  <2>9. Rising(f[n][l] \o <<q>>, A \cup {q})
    BY <2>5, <2>6, <2>8, RisingJoined
  <2>10. \A x \in A \cup {q}, y \in B : x < y
    BY <2>6, <2>7
  <2>11. Rising((f[n][l] \o <<q>>) \o f[n][r], (A \cup {q}) \cup B)
    BY <2>5, <2>9, <2>10, RisingJoined
  <2> QED
    BY <2>3, <2>6, <2>11
<1>6. MaxPrice \in P
  <2> HIDE DEF P
  <2>1. P \in SUBSET Nat
    BY DEF P
  <2> QED
    BY <1>4, <1>5, <2>1, NaturalInduction, MaxPriceIsNatural
<1>8. \A q \in L : sp[q].right - sp[q].left <= MaxPrice + 1
                       => Rising(f[MaxPrice][q], Below(L, sp, q))
  BY <1>6, MaxPriceIsNatural
<1>9. f[MaxPrice][Null] = <<>>
  BY <1>2, MaxPriceIsNatural
<1> HIDE DEF P
<1> QED
  BY <1>8, <1>9 DEF f, S

\* A search below q comes to the levels of its span.
LEMMA ReachGoesDown ==
    ASSUME NEW L, NEW h, NEW sp, Tree(h, L, sp)
    PROVE  LET f == Reach(h, L \cup {Null})
           IN  /\ f[MaxPrice][Null] = {}
               /\ \A q \in L : sp[q].right - sp[q].left <= MaxPrice + 1
                                  => f[MaxPrice][q] = Below(L, sp, q)
<1> DEFINE S == L \cup {Null}
           f == Reach(h, S)
           P == {n \in Nat : n <= MaxPrice =>
                    \A q \in L : sp[q].right - sp[q].left <= n + 1
                                  => f[n][q] = Below(L, sp, q)}
<1>1. \A n \in 0..MaxPrice : f[n] = ReachStep(h, S, f, n)
  <2>1. IsReach(f, h, S)
    BY ReachExists
  <2> HIDE DEF f
  <2> QED
    BY <2>1 DEF IsReach
<1> HIDE DEF f
<1>2. \A n \in 0..MaxPrice : f[n][Null] = {}
  BY <1>1 DEF ReachStep
<1>3. Null \notin L
  BY LevelsAreIntegers
<1>7. ASSUME NEW n \in Nat, n + 1 <= MaxPrice, NEW q \in L
      PROVE  f[n + 1][q] = {q} \cup f[n][h.level[q].left] \cup f[n][h.level[q].right]
  <2>1. n + 1 \in 0..MaxPrice /\ n + 1 # 0 /\ (n + 1) - 1 = n
    BY <1>7, MaxPriceIsNatural
  <2>2. f[n + 1] = ReachStep(h, S, f, n + 1)
    BY <1>1, <2>1
  <2>3. q # Null /\ q \in S
    BY <1>3
  <2> HIDE DEF P, S
  <2> QED
    BY <2>1, <2>2, <2>3 DEF ReachStep
<1>4. 0 \in P
  <2>1. \A q \in L : ~(sp[q].right - sp[q].left <= 0 + 1)
    BY WidthsOfSpans
  <2> QED
    BY <2>1
<1>5. \A n \in P : n + 1 \in P
  <2> SUFFICES ASSUME NEW n \in P, n + 1 <= MaxPrice, NEW q \in L,
                      sp[q].right - sp[q].left <= (n + 1) + 1
               PROVE  f[n + 1][q] = Below(L, sp, q)
    OBVIOUS
  <2>1. n \in 0..MaxPrice /\ n + 1 \in 0..MaxPrice /\ n + 1 # 0 /\ (n + 1) - 1 = n /\ n \in Nat
    BY MaxPriceIsNatural
  <2>2. \A x \in L : sp[x].right - sp[x].left <= n + 1 => f[n][x] = Below(L, sp, x)
    BY <2>1
  <2>3. f[n + 1][q] = {q} \cup f[n][h.level[q].left] \cup f[n][h.level[q].right]
    BY <1>7, <2>1
  <2>4. \A s \in Sides : f[n][h.level[q][s]] = Beside(L, sp, q, s)
    <3> SUFFICES ASSUME NEW s \in Sides PROVE f[n][h.level[q][s]] = Beside(L, sp, q, s)
      OBVIOUS
    <3>1. CASE h.level[q][s] = Null
      <4>1. Beside(L, sp, q, s) = {}
        BY <3>1, LevelsBelow
      <4> QED
        BY <1>2, <2>1, <3>1, <4>1
    <3>2. CASE h.level[q][s] # Null
      <4> DEFINE c == h.level[q][s]
      <4>1. c \in L /\ Beside(L, sp, q, s) = Below(L, sp, c)
        BY <3>2, LevelsBelow
      <4>2. /\ sp[c].right - sp[c].left < sp[q].right - sp[q].left
            /\ sp[c].right - sp[c].left \in Nat /\ sp[q].right - sp[q].left \in Nat
        BY <3>2, <4>1, WidthsOfSpans
      <4>3. sp[c].right - sp[c].left <= n + 1
        BY <2>1, <4>2
      <4> QED
        BY <2>2, <4>1, <4>3
    <3> QED
      BY <3>1, <3>2
  <2>5. /\ f[n][h.level[q].left] = Beside(L, sp, q, "left")
        /\ f[n][h.level[q].right] = Beside(L, sp, q, "right")
    BY <2>4, SidesAreTwo
  <2>6. Below(L, sp, q) = Beside(L, sp, q, "left") \cup {q} \cup Beside(L, sp, q, "right")
    BY LevelsBelow
  <2> QED
    BY <2>3, <2>5, <2>6
<1>6. MaxPrice \in P
  <2> HIDE DEF P
  <2>1. P \in SUBSET Nat
    BY DEF P
  <2> QED
    BY <1>4, <1>5, <2>1, NaturalInduction, MaxPriceIsNatural
<1>8. \A q \in L : sp[q].right - sp[q].left <= MaxPrice + 1
                       => f[MaxPrice][q] = Below(L, sp, q)
  BY <1>6, MaxPriceIsNatural
<1>9. f[MaxPrice][Null] = {}
  BY <1>2, MaxPriceIsNatural
<1> HIDE DEF P
<1> QED
  BY <1>8, <1>9 DEF f, S

\* From the root both come to every level.
LEMMA RootIsAbove ==
    ASSUME NEW L, NEW h, NEW sp, Tree(h, L, sp)
    PROVE  /\ Rising(Traversal(h, L \cup {Null})[MaxPrice][h.root], L)
           /\ Reach(h, L \cup {Null})[MaxPrice][h.root] = L
<1>1. L \in SUBSET Prices /\ RootLink(h, L, sp)
  BY DEF Tree
<1>2. CASE h.root = Null
  <2>1. L = {}
    BY <1>1, <1>2 DEF RootLink
  <2>2. Traversal(h, L \cup {Null})[MaxPrice][Null] = <<>> /\ Reach(h, L \cup {Null})[MaxPrice][Null] = {}
    BY TraversalRises, ReachGoesDown
  <2>3. Rising(<<>>, {})
    BY RisingAlone
  <2> QED
    BY <1>2, <2>1, <2>2, <2>3
<1>3. CASE h.root # Null
  <2>1. h.root \in L /\ sp[h.root].left = 0 /\ sp[h.root].right = MaxPrice + 1
    BY <1>1, <1>3 DEF RootLink
  <2>2. sp[h.root].right - sp[h.root].left <= MaxPrice + 1
    BY <2>1, WidthsOfSpans
  <2>3. Below(L, sp, h.root) = L
    BY <1>1, <2>1, MaxPriceIsNatural DEF Below, Within, Prices
  <2>4. /\ Rising(Traversal(h, L \cup {Null})[MaxPrice][h.root], Below(L, sp, h.root))
        /\ Reach(h, L \cup {Null})[MaxPrice][h.root] = Below(L, sp, h.root)
    <3> HIDE DEF Tree
    <3>1. \A q \in L : sp[q].right - sp[q].left <= MaxPrice + 1
              => Rising(Traversal(h, L \cup {Null})[MaxPrice][q], Below(L, sp, q))
      BY TraversalRises
    <3>2. \A q \in L : sp[q].right - sp[q].left <= MaxPrice + 1
              => Reach(h, L \cup {Null})[MaxPrice][q] = Below(L, sp, q)
      BY ReachGoesDown
    <3> QED
      BY <2>1, <2>2, <3>1, <3>2
  <2> QED
    BY <2>3, <2>4
<1> QED
  BY <1>2, <1>3

-----------------------------------------------------------------------------
(* The invariants.                                                         *)

\* The steps of WholeSpec and of SplicedSpec.
WholeNext == \E p \in Prices : AddLevel(p) \/ RemoveBelowRoot(p)
SplicedNext == \E p \in Prices : AddLevel(p) \/ RemoveSpliced(p)

\* The inductive invariant of WholeSpec.  WellLinked says by a traversal of the whole
\* tree that every level is found, but a step rewires a few levels deep in the tree.
\* The spans say level by level what that does to a search.  And nothing in
\* WellLinked is about the edge, which a step may read.
LinkInv ==
    /\ \E sp : Tree(heap, Levels, sp)
    /\ heap.edge \in Levels \cup {Null}
    /\ highestFirst \in BOOLEAN

\* The inductive invariant of SplicedSpec.  The edge can be followed from one removal
\* to the next only because every level stands: if the level at the edge has a
\* child, then that child is a leaf, and so the next level in the order.
BalanceInv ==
    /\ LinkInv
    /\ AllStand(heap, Levels)
    /\ IsBest(Levels, heap.edge)

\* The empty tree is a tree.
LEMMA EmptyTreeHasLinks == Init => BalanceInv
<1> SUFFICES ASSUME Init PROVE BalanceInv
  OBVIOUS
<1> DEFINE none == [p \in {} |-> NewNode]
           sp == [q \in {} |-> [left |-> 0, right |-> MaxPrice + 1]]
<1>1. /\ heap = [level |-> none, root |-> Null, edge |-> Null]
      /\ highestFirst \in BOOLEAN
  BY DEF Init
<1>2. none \in [{} -> Node] /\ sp \in Spans({}) /\ DOMAIN none = {}
  BY DEF Spans
<1> HIDE DEF none, sp
<1>3. heap.level = none /\ heap.root = Null /\ heap.edge = Null
  BY <1>1
<1>4. heap \in Heap({}) /\ Levels = {}
  BY <1>1, <1>2, <1>3 DEF Heap, Pointer, Levels
<1>5. Tree(heap, {}, sp)
  BY <1>2, <1>3, <1>4 DEF Tree, RootLink
<1> QED
  BY <1>1, <1>3, <1>4, <1>5 DEF BalanceInv, LinkInv, AllStand, IsBest

\* The step of a level that comes.
LEMMA AddLevelKeepsLinks ==
    ASSUME LinkInv, NEW p \in Prices, AddLevel(p)
    PROVE  /\ LinkInv'
           /\ Levels' = Levels \cup {p}
           /\ Adds(heap, heap', Levels, p)
           /\ Levels \subseteq Int /\ p \in Int
<1> DEFINE L == Levels
<1>1. PICK sp : Tree(heap, L, sp)
  BY DEF LinkInv
<1>2. p \notin L /\ heap' = addLimit(heap, p) /\ highestFirst' = highestFirst
  BY DEF AddLevel
<1> HIDE DEF L
<1>3. Adds(heap, heap', L, p)
  BY <1>1, <1>2, AddLimitAdds
<1>4. PICK sq : Tree(heap', L \cup {p}, sq)
  BY <1>3 DEF Adds
<1>5. Levels' = L \cup {p}
  BY <1>4 DEF Tree, Heap, Levels
<1>6. heap'.edge \in L \cup {p, Null}
  <2>1. L # {} => heap.edge \in L \cup {Null}
    BY DEF LinkInv, L
  <2> QED
    BY <1>3, <2>1 DEF Adds, LinkInv, L
<1>7. \E sr : Tree(heap', Levels', sr)
  BY <1>4, <1>5
<1>8. heap'.edge \in Levels' \cup {Null}
  BY <1>5, <1>6
<1>9. LinkInv'
  BY <1>2, <1>7, <1>8 DEF LinkInv
<1>10. L \subseteq Int /\ p \in Int
  BY <1>1, LevelsAreIntegers DEF Prices
<1> QED
  BY <1>3, <1>5, <1>9, <1>10 DEF L

\* The step of a level that goes.
LEMMA RemoveLevelKeepsLinks ==
    ASSUME LinkInv, NEW p \in Prices, RemoveBelowRoot(p)
    PROVE  /\ LinkInv'
           /\ p \in Levels
           /\ Levels' = Levels \ {p}
           /\ Removes(heap, heap', Levels, p)
<1> DEFINE L == Levels
<1>1. PICK sp : Tree(heap, L, sp)
  BY DEF LinkInv
<1>2. p \in L /\ heap' = deleteLimit(heap, p) /\ highestFirst' = highestFirst
  BY DEF RemoveBelowRoot, RemoveLevel
<1>3. heap.level[p].parent = Null => heap.level[p].left = Null /\ heap.level[p].right = Null
  BY DEF RemoveBelowRoot, HasNoParent, Children
<1> HIDE DEF L
<1>4. Removes(heap, heap', L, p)
  BY <1>1, <1>2, <1>3, DeleteLimitRemoves
<1>5. PICK sq : Tree(heap', L \ {p}, sq)
  BY <1>4 DEF Removes
<1>6. Levels' = L \ {p}
  BY <1>5 DEF Tree, Heap, Levels
<1>7. heap'.edge \in (L \ {p}) \cup {Null}
  <2>1. heap.edge \in L \cup {Null}
    BY DEF LinkInv, L
  <2>2. heap'.edge = updateBookEdgeRemove(heap, p).edge
    BY <1>4 DEF Removes
  <2> QED
    BY <1>1, <1>2, <2>1, <2>2, EdgeStaysLive
<1>8. \E sr : Tree(heap', Levels', sr)
  BY <1>5, <1>6
<1>9. LinkInv'
  BY <1>2, <1>6, <1>7, <1>8 DEF LinkInv
<1> QED
  BY <1>2, <1>4, <1>6, <1>9 DEF L

\* Every step of WholeSpec keeps the tree.
LEMMA WholeStepKeepsLinks == LinkInv /\ [WholeNext]_vars => LinkInv'
<1> SUFFICES ASSUME LinkInv, [WholeNext]_vars PROVE LinkInv'
  OBVIOUS
<1>1. CASE UNCHANGED vars
  BY <1>1 DEF LinkInv, vars, Levels
<1>2. CASE WholeNext
  BY <1>2, AddLevelKeepsLinks, RemoveLevelKeepsLinks DEF WholeNext
<1> QED
  BY <1>1, <1>2

\* Two children that differ are two.
LEMMA FewChildren ==
    ASSUME NEW a, NEW b, NEW c, a # b, Cardinality({a, b} \ {c}) < 2
    PROVE  c \in {a, b}
<1> SUFFICES ASSUME c \notin {a, b} PROVE FALSE
  OBVIOUS
<1>1. IsFiniteSet({a}) /\ Cardinality({a}) = 1
  BY FS_Singleton
<1>2. Cardinality({a} \cup {b}) = 1 + 1
  BY <1>1, FS_AddElement
<1>3. {a, b} \ {c} = {a} \cup {b}
  OBVIOUS
<1> QED
  BY <1>2, <1>3

\* A level with at most one child leaves an AVL tree with its best level at the edge.
LEMMA RemoveSplicedKeepsBalance ==
    ASSUME BalanceInv, NEW p \in Prices, RemoveSpliced(p)
    PROVE  /\ LinkInv' /\ p \in Levels /\ Levels' = Levels \ {p}
           /\ AllStand(heap', Levels')
           /\ IsBest(Levels', heap'.edge)
<1> DEFINE L == Levels
<1>1. LinkInv /\ AllStand(heap, L) /\ IsBest(L, heap.edge)
  BY DEF BalanceInv
<1>2. RemoveBelowRoot(p) /\ Cardinality(Children(p)) < 2
  BY DEF RemoveSpliced
<1>3. LinkInv' /\ p \in L /\ Levels' = L \ {p} /\ Removes(heap, heap', L, p)
  BY <1>1, <1>2, RemoveLevelKeepsLinks
<1>4. PICK sp : Tree(heap, L, sp)
  BY <1>1 DEF LinkInv
<1> HIDE DEF L
<1>5. Null \in {heap.level[p].left, heap.level[p].right}
  <2> DEFINE l == heap.level[p].left
             r == heap.level[p].right
  <2>1. l # Null => l = heap.level[p]["left"] /\ SideOf(l, p) = "left"
    BY <1>3, <1>4, SidesAreTwo, ChildIsBetween
  <2>2. r # Null => SideOf(r, p) = "right"
    BY <1>3, <1>4, SidesAreTwo, ChildIsBetween
  <2>3. Cardinality({l, r} \ {Null}) < 2
    BY <1>2 DEF Children
  <2> HIDE DEF l, r
  <2>4. l = r => l = Null
    BY <2>1, <2>2
  <2>5. l # r => Null \in {l, r}
    BY <2>3, FewChildren
  <2> QED
    BY <2>4, <2>5 DEF l, r
<1>6. AllStand(heap', L \ {p})
  BY <1>1, <1>3, <1>5 DEF Removes
<1>7. IsBest(L \ {p}, heap'.edge)
  <2>1. heap'.edge = updateBookEdgeRemove(heap, p).edge
    BY <1>3 DEF Removes
  <2>2. IsBest(L \ {p}, updateBookEdgeRemove(heap, p).edge)
    BY <1>1, <1>3, <1>4, EdgeMovesToBest
  <2> QED
    BY <2>1, <2>2
<1> QED
  BY <1>3, <1>6, <1>7 DEF L

\* A new level leaves an AVL tree with its best level at the edge.
LEMMA AddLevelKeepsBalance ==
    ASSUME BalanceInv, NEW p \in Prices, AddLevel(p)
    PROVE  /\ LinkInv' /\ p \notin Levels /\ Levels' = Levels \cup {p}
           /\ AllStand(heap', Levels')
           /\ IsBest(Levels', heap'.edge)
<1> DEFINE L == Levels
<1>1. LinkInv /\ AllStand(heap, L) /\ IsBest(L, heap.edge)
  BY DEF BalanceInv
<1>2. /\ LinkInv' /\ Levels' = L \cup {p} /\ Adds(heap, heap', L, p)
      /\ L \subseteq Int /\ p \in Int
  BY <1>1, AddLevelKeepsLinks
<1>3. p \notin L
  BY DEF AddLevel
<1> HIDE DEF L
<1>4. /\ AllStand(heap', L \cup {p})
      /\ L = {} => heap'.edge = p
      /\ L # {} => heap'.edge = IF Precedes(p, heap.edge) THEN p ELSE heap.edge
  BY <1>1, <1>2 DEF Adds
<1>5. IsBest(L \cup {p}, heap'.edge)
  BY <1>1, <1>2, <1>3, <1>4, EdgeStaysBest
<1> QED
  BY <1>2, <1>3, <1>4, <1>5 DEF L

\* BalanceInv in the next state, from its parts.
LEMMA BalanceInvNext ==
    ASSUME LinkInv', AllStand(heap', Levels'), IsBest(Levels', heap'.edge), highestFirst' = highestFirst
    PROVE  BalanceInv'
<1>1. (AllStand(heap, Levels))'
  BY DEF AllStand, Stands, HeightAt, Height
<1>2. (IsBest(Levels, heap.edge))'
  BY DEF IsBest, Precedes
<1> QED
  BY <1>1, <1>2 DEF BalanceInv

\* Every step of SplicedSpec keeps the AVL tree and its edge.
LEMMA SplicedStepKeepsBalance == BalanceInv /\ [SplicedNext]_vars => BalanceInv'
<1> SUFFICES ASSUME BalanceInv, [SplicedNext]_vars PROVE BalanceInv'
  OBVIOUS
<1>1. CASE UNCHANGED vars
  <2>1. heap' = heap /\ highestFirst' = highestFirst /\ Levels' = Levels
    BY <1>1 DEF vars, Levels
  <2>2. LinkInv'
    BY <2>1 DEF BalanceInv, LinkInv
  <2>3. AllStand(heap', Levels') /\ IsBest(Levels', heap'.edge)
    BY <2>1 DEF BalanceInv
  <2> QED
    BY <2>1, <2>2, <2>3, BalanceInvNext
<1>2. CASE SplicedNext
  <2>1. PICK p \in Prices : AddLevel(p) \/ RemoveSpliced(p)
    BY <1>2 DEF SplicedNext
  <2>2. highestFirst' = highestFirst
    BY <2>1 DEF AddLevel, RemoveSpliced, RemoveBelowRoot, RemoveLevel
  <2>3. LinkInv' /\ AllStand(heap', Levels') /\ IsBest(Levels', heap'.edge)
    BY <2>1, AddLevelKeepsBalance, RemoveSplicedKeepsBalance
  <2> QED
    BY <2>2, <2>3, BalanceInvNext
<1> QED
  BY <1>1, <1>2

-----------------------------------------------------------------------------
\* A tree is of its type.
LEMMA LinksAreTyped == LinkInv => TypeOK
<1> SUFFICES ASSUME LinkInv PROVE TypeOK
  OBVIOUS
<1>1. PICK sp : Tree(heap, Levels, sp)
  BY DEF LinkInv
<1>2. heap \in Heap(Levels) /\ Levels \in SUBSET Prices
  BY <1>1 DEF Tree
<1> QED
  BY <1>2 DEF LinkInv, TypeOK, Heap

\* No pointer of a tree dangles.
LEMMA LinksDoNotDangle == LinkInv => NoDanglingPointer
<1> SUFFICES ASSUME LinkInv PROVE NoDanglingPointer
  OBVIOUS
<1> DEFINE L == Levels
<1>1. PICK sp : Tree(heap, L, sp)
  BY DEF LinkInv
<1>2. heap.root \in L \cup {Null}
  BY <1>1 DEF Tree, RootLink
<1>3. \A p \in L : heap.level[p].parent \in L \cup {Null}
  BY <1>1 DEF Tree, ParentLink
<1>4. \A p \in L : heap.level[p].left \in L \cup {Null} /\ heap.level[p].right \in L \cup {Null}
  BY <1>1, ChildrenAreLevels
<1> QED
  BY <1>2, <1>3, <1>4 DEF LinkInv, NoDanglingPointer

\* A tree is well linked, and its traversal finds its levels in order.
LEMMA LinksAreWell == LinkInv => WellLinked
<1> SUFFICES ASSUME LinkInv PROVE WellLinked
  OBVIOUS
<1> DEFINE L == Levels
           s == inOrderTreeTraversal
<1>1. PICK sp : Tree(heap, L, sp)
  BY DEF LinkInv
<1>2. \A p \in L, d \in {"left", "right"} :
         LET child == heap.level[p][d]
         IN  child # Null => heap.level[child].parent = p
  BY <1>1 DEF Tree, ChildLink, Sides
<1>3. \A p \in L : HasNoParent(p) <=> p = heap.root
  BY <1>1 DEF Tree, ParentLink, HasNoParent
<1>4. Rising(s, L)
  BY <1>1, RootIsAbove, TraversalIsOne
<1> HIDE DEF s
<1>5. /\ Range(s) = L
      /\ \A i \in 2..Len(s) : s[i - 1] < s[i]
  <2>1. s \in Seq(Int) /\ Range(s) = L /\ \A i, j \in 1..Len(s) : i < j => s[i] < s[j]
    BY <1>4 DEF Rising
  <2>2. \A i \in 2..Len(s) : i \in 1..Len(s) /\ i - 1 \in 1..Len(s) /\ i - 1 < i
    BY <2>1
  <2> QED
    BY <2>1, <2>2
<1> QED
  BY <1>2, <1>3, <1>5 DEF WellLinked, s

\* A search of a tree comes to its levels and no other.
LEMMA LinksAreReached == LinkInv => Reached = Levels
  BY RootIsAbove, ReachIsOne DEF LinkInv

\* If every level stands then the tree is balanced.
LEMMA BalanceIsBalanced == BalanceInv => Balanced
<1> SUFFICES ASSUME BalanceInv, NEW p \in Levels
             PROVE  /\ heap.level[p] = updateLimitHeight(heap, p).level[p]
                    /\ BalancedAt(heap, p)
  BY DEF Balanced
<1> DEFINE L == Levels
           l == Height(heap, heap.level[p].left)
           r == Height(heap, heap.level[p].right)
<1>1. PICK sp : Tree(heap, L, sp)
  BY DEF BalanceInv, LinkInv
<1>2. Stands(heap, p)
  BY DEF BalanceInv, AllStand
<1>3. l \in Nat /\ r \in Nat
  <2>1. HeightAt(heap, p, "left") \in Nat /\ HeightAt(heap, p, "right") \in Nat
    BY <1>1, SidesAreTwo, HeightsAreNaturals
  <2> QED
    BY <2>1 DEF HeightAt
<1>4. heap.level[p].height = 1 + Max2(l, r) /\ l - r \in -1..1
  BY <1>2 DEF Stands, HeightAt
<1>5. Max({l, r}) = Max2(l, r)
  BY <1>3, MaxOfTwo
<1>6. heap \in Heap(L)
  BY <1>1 DEF Tree
<1>7. updateLimitHeight(heap, p) = [heap EXCEPT !.level[p].height = heap.level[p].height]
  BY <1>4, <1>5 DEF updateLimitHeight
<1>8. updateLimitHeight(heap, p).level[p] = heap.level[p]
  <2>1. heap.level[p] \in Node
    BY <1>6 DEF Heap
  <2>2. [heap EXCEPT !.level[p].height = heap.level[p].height].level[p]
           = [heap.level[p] EXCEPT !.height = heap.level[p].height]
    BY <1>6 DEF Heap
  <2>3. [heap.level[p] EXCEPT !.height = heap.level[p].height] = heap.level[p]
    BY <2>1 DEF Node
  <2> QED
    BY <1>7, <2>2, <2>3
<1>9. BalancedAt(heap, p)
  BY <1>4 DEF BalancedAt, limitHeightDifference
<1> QED
  BY <1>8, <1>9

\* The level that precedes all others is the best of the set.
LEMMA BestIsEdge ==
    ASSUME NEW L, L \subseteq Int, NEW b, IsBest(L, b)
    PROVE  b = Book!Best(L)
<1>1. CASE L = {}
  BY <1>1 DEF IsBest, Book!Best
<1>2. CASE L # {}
  <2>1. b \in L /\ b \in Int /\ \A q \in L : q \in Int /\ (q # b => Precedes(b, q))
    BY <1>2 DEF IsBest
  <2>2. CASE highestFirst
    <3>1. \A q \in L : b >= q
      BY <2>1, <2>2 DEF Precedes
    <3>2. \A x \in L : (\A q \in L : x >= q) => x = b
      BY <2>1, <3>1
    <3>3. b = CHOOSE x \in L : \A q \in L : x >= q
      BY <2>1, <3>1, <3>2
    <3>4. b = Book!Max(L)
      BY <3>3 DEF Book!Max
    <3>5. Book!Best(L) = Book!Max(L)
      BY <1>2, <2>2, Zenon DEF Book!Best
    <3> QED
      BY <3>4, <3>5
  <2>3. CASE ~highestFirst
    <3>1. \A q \in L : b <= q
      BY <2>1, <2>3 DEF Precedes
    <3>2. \A x \in L : (\A q \in L : x <= q) => x = b
      BY <2>1, <3>1
    <3>3. b = CHOOSE x \in L : \A q \in L : x <= q
      BY <2>1, <3>1, <3>2
    <3>4. b = Book!Min(L)
      BY <3>3 DEF Book!Min
    <3>5. Book!Best(L) = Book!Min(L)
      BY <1>2, <2>3, Zenon DEF Book!Best
    <3> QED
      BY <3>4, <3>5
  <2> QED
    BY <2>2, <2>3
<1> QED
  BY <1>1, <1>2

-----------------------------------------------------------------------------
\* The tree is a search tree in every state, as long as no root with children is
\* removed: rotations, splices and successors all keep the spans.
THEOREM TreeKeepsLinks == WholeSpec => []LinkInv
<1>1. Init => LinkInv
  BY EmptyTreeHasLinks DEF BalanceInv
<1>2. LinkInv /\ [WholeNext]_vars => LinkInv'
  BY WholeStepKeepsLinks
<1> QED
  BY <1>1, <1>2, PTL DEF WholeSpec, WholeNext

\* In every state the heap is a table of the live levels, with pointers to prices and
\* positive heights.
THEOREM TreeIsTyped == WholeSpec => []TypeOK
  BY TreeKeepsLinks, LinksAreTyped, PTL

\* In every state a child knows its parent, the root is the one level without one, and
\* the traversal comes to each live level once, in rising order: whatever rotations
\* a long run of insertions and removals goes through, in trees of any size.
THEOREM TreeIsWellLinked == WholeSpec => []WellLinked
  BY TreeKeepsLinks, LinksAreWell, PTL

\* No pointer to a freed level is left anywhere in the tree.  The guard of the steps is
\* therefore always true: the removal of a root with children is the only operation
\* that leaves a dangling pointer.
THEOREM TreeDoesNotDangle == WholeSpec => []NoDanglingPointer
  BY TreeKeepsLinks, LinksDoNotDangle, PTL

\* Every level stands, and the edge is the best level, in every state, if besides no
\* level with two children is removed.
THEOREM TreeKeepsBalance == SplicedSpec => []BalanceInv
<1>1. Init => BalanceInv
  BY EmptyTreeHasLinks
<1>2. BalanceInv /\ [SplicedNext]_vars => BalanceInv'
  BY SplicedStepKeepsBalance
<1> QED
  BY <1>1, <1>2, PTL DEF SplicedSpec, SplicedNext

\* The stored heights are right and the tree is an AVL tree in every state: one rotation
\* a level, with the comparisons of balance, is enough on the way up from an
\* insertion and from a removal.
THEOREM TreeIsBalanced == SplicedSpec => []Balanced
  BY TreeKeepsBalance, BalanceIsBalanced, PTL

\* A step of the tree is a step of the sorted set: one price comes or goes, and the edge
\* goes to the best price that is left.
LEMMA TreeStepIsBookStep ==
    ASSUME BalanceInv, BalanceInv', [SplicedNext]_vars
    PROVE  [Book!LevelsNext]_Book!levelVars
<1>1. Reached = Levels
  BY LinksAreReached DEF BalanceInv
<1>2. Reached' = Levels'
  <2>1. (LinkInv => Reached = Levels)'
    BY LinksAreReached, PTL
  <2> QED
    BY <2>1 DEF BalanceInv
<1>3. CASE UNCHANGED vars
  <2>1. Levels' = Levels /\ heap' = heap /\ highestFirst' = highestFirst
    BY <1>3 DEF Levels, vars
  <2> QED
    BY <1>1, <1>2, <2>1 DEF Book!levelVars
<1>4. CASE SplicedNext
  <2>1. PICK p \in Prices : AddLevel(p) \/ RemoveSpliced(p)
    BY <1>4 DEF SplicedNext
  <2>2. highestFirst' = highestFirst
    BY <2>1 DEF AddLevel, RemoveSpliced, RemoveBelowRoot, RemoveLevel
  <2>3. /\ \/ p \notin Levels /\ Levels' = Levels \cup {p}
           \/ p \in Levels /\ Levels' = Levels \ {p}
        /\ IsBest(Levels', heap'.edge)
    BY <2>1, AddLevelKeepsBalance, RemoveSplicedKeepsBalance
  <2>4. Levels' \subseteq Int
    <3>1. PICK sq : Tree(heap', Levels', sq)
      BY DEF BalanceInv, LinkInv
    <3> QED
      BY <3>1, LevelsAreIntegers
  <2>5. heap'.edge = Book!Best(Levels')
    BY <2>3, <2>4, BestIsEdge
  <2>6. Book!Add(p) \/ Book!Drop(p)
    BY <1>1, <1>2, <2>3 DEF Book!Add, Book!Drop
  <2> QED
    BY <1>2, <2>2, <2>5, <2>6 DEF Book!LevelsNext
<1> QED
  BY <1>3, <1>4

\* The tree is a sorted set of prices whose cached edge is always its best price, although
\* a removal moves it by one pointer and never searches.
THEOREM TreeImplementsSortedLevels == SplicedSpec => ImplementsSortedLevels
<1>1. Init => Book!LevelsInit
  <2> SUFFICES ASSUME Init PROVE Book!LevelsInit
    OBVIOUS
  <2>1. Reached = Levels /\ highestFirst \in BOOLEAN
    BY EmptyTreeHasLinks, LinksAreReached DEF BalanceInv, LinkInv
  <2>2. Levels = {} /\ heap.edge = Null
    BY DEF Init, Levels
  <2> QED
    BY <2>1, <2>2 DEF Book!LevelsInit
<1>2. BalanceInv /\ BalanceInv' /\ [SplicedNext]_vars => [Book!LevelsNext]_Book!levelVars
  BY TreeStepIsBookStep
<1>3. SplicedSpec => []BalanceInv
  BY TreeKeepsBalance
<1> QED
  BY <1>1, <1>2, <1>3, PTL DEF SplicedSpec, SplicedNext, ImplementsSortedLevels, Book!LevelsSpec

=============================================================================
