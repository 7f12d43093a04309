--------------------------- MODULE PriceLevelTree ---------------------------
(***************************************************************************)
(* One of the four AVL trees of src/src/MatchingEngine.cpp, pointer by     *)
(* pointer: insertion, removal, rotations, and the cached edge.            *)
(*                                                                         *)
(* The code for limit levels (insert, deleteLimit, balance, ...) and for   *)
(* stop levels (insertStop, deleteStopLevel, balanceStop, ...) is the same *)
(* up to the direction of the edge, so one module stands for both.         *)
(*                                                                         *)
(* A PriceLevel object is named by its price, which is unique in its tree. *)
(* A level that has been freed is gone from heap.level, and a pointer that *)
(* still leads to it dangles.  To follow it is undefined behaviour in C++, *)
(* so no operation starts from a heap with a dangling pointer.             *)
(***************************************************************************)
EXTENDS Integers, Sequences, SequencesExt

CONSTANT MaxPrice
ASSUME MaxPriceIsNatural == MaxPrice \in Nat

VARIABLES
    heap,          \* the levels, the root and the edge of the tree
    highestFirst   \* which end is the edge: the highest bid and sell stop,
                   \* or the lowest ask and buy stop

vars == <<heap, highestFirst>>

Prices == 1..MaxPrice
Null == 0
Pointer == Prices \cup {Null}

Node == [left : Pointer, right : Pointer, parent : Pointer, height : Nat \ {0}]
NewNode == [left |-> Null, right |-> Null, parent |-> Null, height |-> 1]

Opposite(side) == IF side = "left" THEN "right" ELSE "left"
SideOf(p, parent) == IF p < parent THEN "left" ELSE "right"

\* setParent of a child that may not exist.
Adopt(h, child, parent) ==
    IF child = Null THEN h ELSE [h EXCEPT !.level[child].parent = parent]

\* The walk to the left end of a subtree, in the removals and root changes.
Leftmost(h, p) ==
    LET walk[q \in DOMAIN h.level] ==
            IF h.level[q].left = Null THEN q ELSE walk[h.level[q].left]
    IN  walk[p]

-----------------------------------------------------------------------------
(* Heights and rotations.                                                  *)

\* A slip: the other convention for the height of no level.
HeightFromZero(h, p) == IF p = Null THEN -1 ELSE h.level[p].height

Height(h, p) == IF p = Null THEN 0 ELSE h.level[p].height

updateLimitHeight(h, p) ==
    [h EXCEPT !.level[p].height =
        1 + Max({Height(h, h.level[p].left), Height(h, h.level[p].right)})]

limitHeightDifference(h, p) ==
    Height(h, h.level[p].left) - Height(h, h.level[p].right)

\* rr_rotate (side = "right") and ll_rotate (side = "left"): the child on that
\* side takes the place of p.
Rotate(h, p, side) ==
    LET up == h.level[p][side]
        across == h.level[up][Opposite(side)]
        turned == [h EXCEPT !.level[p][side] = across,
                            !.level[p].parent = up,
                            !.level[up][Opposite(side)] = p,
                            !.level[up].parent = h.level[p].parent,
                            !.root = IF h.level[p].parent = Null THEN up ELSE @]
    IN  updateLimitHeight(updateLimitHeight(Adopt(turned, across, p), p), up)

\* lr_rotate (side = "left") and rl_rotate (side = "right").
RotateTwice(h, p, side) ==
    LET child == h.level[p][side]
        up == h.level[child][Opposite(side)]
    IN  Rotate([Rotate(h, child, Opposite(side)) EXCEPT !.level[p][side] = up], p, side)

\* A slip: a tree is left alone until it leans by three.
balanceLate(h, p) ==
    LET factor == limitHeightDifference(h, p)
        side == IF factor > 0 THEN "left" ELSE "right"
    IN  IF factor \in -2..2
        THEN [heap |-> h, top |-> p]
        ELSE [heap |-> Rotate(h, p, side), top |-> h.level[p][side]]

\* balance: the heap and the new top of the subtree of p.
balance(h, p) ==
    LET factor == limitHeightDifference(h, p)
        side == IF factor > 0 THEN "left" ELSE "right"
        child == h.level[p][side]
        lean == limitHeightDifference(h, child)
    IN  IF factor \in -1..1
        THEN [heap |-> h, top |-> p]
        ELSE IF IF side = "left" THEN lean >= 0 ELSE lean <= 0
        THEN [heap |-> Rotate(h, p, side), top |-> child]
        ELSE [heap |-> RotateTwice(h, p, side),
              top |-> h.level[child][Opposite(side)]]

-----------------------------------------------------------------------------
(* addLimit and addStop.                                                   *)

\* insert: the recursion goes down from r to the place of the new level, which is
\* below the last parent, and balances on its way up.
insert(h, new) ==
    LET below[r \in DOMAIN h.level] ==
            LET side == SideOf(new, r)
                child == h.level[r][side]
                sub == IF child = Null
                       THEN [heap |-> [h EXCEPT !.level[new].parent = r], top |-> new]
                       ELSE below[child]
                linked == [sub.heap EXCEPT !.level[r][side] = sub.top]
            IN  balance(updateLimitHeight(linked, r), r)
    IN  below[h.root]

Precedes(p, q) == IF highestFirst THEN p > q ELSE p < q

addLimit(h, p) ==
    LET h1 == [h EXCEPT !.level = [q \in DOMAIN h.level \cup {p} |->
                                      IF q = p THEN NewNode ELSE h.level[q]]]
        inserted == insert(h1, p)
    IN  IF h.root = Null
        THEN [h1 EXCEPT !.root = p, !.edge = p]
        ELSE [inserted.heap EXCEPT !.root = inserted.top,
                                   !.edge = IF Precedes(p, @) THEN p ELSE @]

-----------------------------------------------------------------------------
(* deleteLimit and deleteStopLevel.                                        *)

\* A slip: the edge has no child of its own.
EdgeToParent(h, p) ==
    IF p # h.edge
    THEN h
    ELSE [h EXCEPT !.edge = h.level[p].parent]

\* A slip: the case of the root is forgotten.
EdgeStaysAtRoot(h, p) ==
    LET inner == h.level[p][IF highestFirst THEN "left" ELSE "right"]
    IN  IF p # h.edge \/ p = h.root
        THEN h
        ELSE [h EXCEPT !.edge = IF inner # Null THEN inner ELSE h.level[p].parent]

\* The edge moves to the child that is not beyond it, else to the parent.
updateBookEdgeRemove(h, p) ==
    LET inner == h.level[p][IF highestFirst THEN "left" ELSE "right"]
    IN  IF p # h.edge
        THEN h
        ELSE [h EXCEPT !.edge = IF inner # Null THEN inner
                                ELSE IF p # h.root THEN h.level[p].parent
                                ELSE Null]

\* Nothing but the root pointer changes.
changeBookRoots(h, p) ==
    LET n == h.level[p]
    IN  IF p # h.root
        THEN h
        ELSE [h EXCEPT !.root = IF n.right # Null THEN Leftmost(h, n.right) ELSE n.left]

\* A slip: the child does not learn of its new parent.
SpliceOutOneWay(h, p) ==
    LET n == h.level[p]
    IN  [h EXCEPT !.level[n.parent][SideOf(p, n.parent)] =
                      IF n.left = Null THEN n.right ELSE n.left]

\* A level with a parent and at most one child.
SpliceOut(h, p) ==
    LET n == h.level[p]
        child == IF n.left = Null THEN n.right ELSE n.left
    IN  Adopt([h EXCEPT !.level[n.parent][SideOf(p, n.parent)] = child],
              child, n.parent)

\* A level with a parent and two children: its successor takes its place.
ReplaceBySuccessor(h, p) ==
    LET n == h.level[p]
        s == Leftmost(h, n.right)
        above == h.level[s].parent
        freed == IF above = p
                 THEN h
                 ELSE Adopt([h EXCEPT !.level[above].left = h.level[s].right,
                                      !.level[s].right = n.right,
                                      !.level[n.right].parent = s],
                            h.level[s].right, above)
    IN  [freed EXCEPT !.level[s].left = n.left,
                      !.level[n.left].parent = s,
                      !.level[s].parent = n.parent,
                      !.level[n.parent][SideOf(p, n.parent)] = s]

Disconnect(h, p) ==
    LET n == h.level[p]
    IN  IF n.parent = Null THEN changeBookRoots(h, p)
        ELSE IF n.left # Null /\ n.right # Null THEN ReplaceBySuccessor(h, p)
        ELSE SpliceOut(h, p)

\* One round of the loop that climbs from the parent of the removed level.
Climb(price, at) ==
    IF at.top = Null
    THEN at
    ELSE LET done == balance(updateLimitHeight(at.heap, at.top), at.top)
             above == done.heap.level[done.top].parent
         IN  [heap |-> IF above = Null
                       THEN done.heap
                       ELSE [done.heap EXCEPT
                                !.level[above][IF above > price THEN "left" ELSE "right"]
                                    = done.top],
              top |-> above]

deleteLimit(h, p) ==
    LET parent == h.level[p].parent
        out == Disconnect(updateBookEdgeRemove(h, p), p)
        freed == [out EXCEPT !.level = Restrict(@, DOMAIN @ \ {p})]
        climb[n \in 0..MaxPrice] ==
            IF n = 0 THEN [heap |-> freed, top |-> parent] ELSE Climb(p, climb[n - 1])
    IN  climb[MaxPrice].heap

-----------------------------------------------------------------------------
Levels == DOMAIN heap.level

\* limit maps and stop map lead to live levels by construction.  The pointers
\* between the levels, the root and the edge have to.
NoDanglingPointer ==
    /\ {heap.root, heap.edge} \subseteq Levels \cup {Null}
    /\ \A p \in Levels :
          {heap.level[p].left, heap.level[p].right, heap.level[p].parent}
              \subseteq Levels \cup {Null}

Init ==
    /\ heap = [level |-> [p \in {} |-> NewNode], root |-> Null, edge |-> Null]
    /\ highestFirst \in BOOLEAN

\* A first ticket comes to a price, or the last one of a price goes: any of
\* them, for tickets are cancelled at every price.
AddLevel(p) ==
    /\ NoDanglingPointer
    /\ p \notin Levels
    /\ heap' = addLimit(heap, p)
    /\ UNCHANGED highestFirst

RemoveLevel(p) ==
    /\ NoDanglingPointer
    /\ p \in Levels
    /\ heap' = deleteLimit(heap, p)
    /\ UNCHANGED highestFirst

Next == \E p \in Prices : AddLevel(p) \/ RemoveLevel(p)

Spec == Init /\ [][Next]_vars

\* The removals that deleteLimit reconnects: all but that of a root with
\* children, which changeBookRoots leaves to nobody (NoDanglingPointer).
HasNoParent(p) == heap.level[p].parent = Null
Children(p) == {heap.level[p].left, heap.level[p].right} \ {Null}

RemoveBelowRoot(p) ==
    /\ p \in Levels
    /\ HasNoParent(p) => Children(p) = {}
    /\ RemoveLevel(p)

WholeSpec == Init /\ [][\E p \in Prices : AddLevel(p) \/ RemoveBelowRoot(p)]_vars

\* Those, of them, after which the heights are right and the tree is balanced.
RemoveSpliced(p) ==
    /\ p \in Levels
    /\ Cardinality(Children(p)) < 2
    /\ RemoveBelowRoot(p)

SplicedSpec == Init /\ [][\E p \in Prices : AddLevel(p) \/ RemoveSpliced(p)]_vars

-----------------------------------------------------------------------------
(* What the trees promise.                                                 *)

TypeOK ==
    /\ heap = [level |-> heap.level, root |-> heap.root, edge |-> heap.edge]
    /\ Levels \subseteq Prices
    /\ \A p \in Levels : heap.level[p] \in Node
    /\ {heap.root, heap.edge} \subseteq Pointer
    /\ highestFirst \in BOOLEAN

\* The prices of the tree from left to right; MaxPrice bounds the depth of the
\* recursion, which the code does not.
inOrderTreeTraversal ==
    LET subtree[n \in 0..MaxPrice] ==
            [p \in Levels \cup {Null} |->
                IF p = Null \/ n = 0
                THEN <<>>
                ELSE subtree[n - 1][heap.level[p].left] \o <<p>>
                         \o subtree[n - 1][heap.level[p].right]]
    IN  subtree[MaxPrice][heap.root]

\* Every child knows its parent, the root is the one level without a parent, and
\* the traversal comes to each mapped level and no other, in rising order: no
\* level with resting tickets drops out of the tree or gets on the wrong side of
\* another one.  displayEngineState throws when the order is wrong.
WellLinked ==
    /\ \A p \in Levels, side \in {"left", "right"} :
          LET child == heap.level[p][side]
          IN  child # Null => heap.level[child].parent = p
    /\ \A p \in Levels : HasNoParent(p) <=> p = heap.root
    /\ Range(inOrderTreeTraversal) = Levels
    /\ \A i \in 2..Len(inOrderTreeTraversal) :
          inOrderTreeTraversal[i - 1] < inOrderTreeTraversal[i]

BalancedAt(h, p) == limitHeightDifference(h, p) \in -1..1

\* README.md:61 calls the trees self-balancing AVL trees: the stored heights
\* are right, and the subtrees of a level differ by at most one.
Balanced ==
    \A p \in Levels :
        /\ heap.level[p] = updateLimitHeight(heap, p).level[p]
        /\ BalancedAt(heap, p)

\* The prices that a search from the root can come to.
Reached ==
    LET subtree[n \in 0..MaxPrice] ==
            [p \in Levels \cup {Null} |->
                IF p = Null \/ n = 0
                THEN {}
                ELSE {p} \cup subtree[n - 1][heap.level[p].left]
                         \cup subtree[n - 1][heap.level[p].right]]
    IN  subtree[MaxPrice][heap.root]

Book == INSTANCE SortedLevels WITH
    LevelPrices <- Prices, NoPrice <- Null, prices <- Reached, best <- heap.edge

\* The tree is a sorted set of prices, and the cached edge, which is moved by
\* one pointer at each removal and never looked up, is its best price.
ImplementsSortedLevels == Book!LevelsSpec

=============================================================================
