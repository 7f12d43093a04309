----------------------------- MODULE TicketStore ----------------------------
(***************************************************************************)
(* How src/src/TradeTicket.cpp, src/src/PriceLevel.cpp and                 *)
(* include/MemoryArena.hpp keep the tickets: cells of two arenas, linked   *)
(* to a doubly linked list per price level, found through orderMap.        *)
(*                                                                         *)
(* The operations are those that MatchingEngine.cpp puts together from     *)
(* them.  When it fills, moves or triggers which ticket is the subject of  *)
(* module MatchingEngine; here every order of these operations that the    *)
(* types of the calls allow is taken.  The trees that index the levels are *)
(* the subject of PriceLevelTree.                                          *)
(*                                                                         *)
(* Ids may be submitted again while they are in use: nothing in the engine *)
(* keeps a client from it, and OrderGenerator does so when it is asked for *)
(* more than 10000 initial orders.                                         *)
(***************************************************************************)
EXTENDS MemoryArena, FiniteSetsExt

CONSTANTS
    Ids,         \* ticket ids
    LimitKeys,   \* keys of limitBuyMap and limitSellMap: side and price
    StopKeys,    \* keys of stopMap: prices
    Quantities,  \* shares of submitted and modified tickets
    IntMax,      \* INT_MAX
    MaxTickets   \* bound of the model: tickets at a time

ASSUME QuantitiesArePositive == Quantities \subseteq 1..IntMax
ASSUME IntMaxIsNatural == IntMax \in Nat
ASSUME MaxTicketsIsNatural == MaxTickets \in Nat

VARIABLES
    mem,        \* the arenas, what is in their cells, and the maps
    converting  \* headOrder of stopLimitOrderToLimitOrder, or Null

vars == <<mem, converting>>

Null == 0
Keys == LimitKeys \cup StopKeys

\* int arithmetic that does not trap.
Wrap(n) == ((n + IntMax + 1) % (2 * (IntMax + 1))) - (IntMax + 1)
Ints == (-IntMax - 1)..IntMax

TradeTicket == [idNumber : Ids, quantity : 1..IntMax,
                nextOrder : Nat, prevOrder : Nat, parentLevel : Nat]

PriceLevel == [levelPrice : Keys, size : Nat, totalVolume : Ints,
               headOrder : Nat, tailOrder : Nat]

NewTicket(id, shares) ==
    [idNumber |-> id, quantity |-> shares,
     nextOrder |-> Null, prevOrder |-> Null, parentLevel |-> Null]

NewLevel(key) ==
    [levelPrice |-> key, size |-> 0, totalVolume |-> 0,
     headOrder |-> Null, tailOrder |-> Null]

With(f, k, v) == [x \in DOMAIN f \cup {k} |-> IF x = k THEN v ELSE f[x]]
Without(f, k) == Restrict(f, DOMAIN f \ {k})

-----------------------------------------------------------------------------
(* TradeTicket and PriceLevel.  m is the memory, t a ticket's cell and l a *)
(* level's.                                                                *)

\* A slip: the list is linked in one direction only.
appendOneWay(m, l, t) ==
    LET tail == m.level[l].tailOrder
        linked == IF m.level[l].headOrder = Null
                  THEN [m EXCEPT !.level[l].headOrder = t]
                  ELSE [m EXCEPT !.ticket[tail].nextOrder = t]
    IN  [linked EXCEPT !.level[l].tailOrder = t,
                       !.level[l].size = @ + 1,
                       !.level[l].totalVolume = Wrap(@ + m.ticket[t].quantity),
                       !.ticket[t].parentLevel = l]

\* The first ticket of a level keeps the links it comes with.
append(m, l, t) ==
    LET tail == m.level[l].tailOrder
        linked == IF m.level[l].headOrder = Null
                  THEN [m EXCEPT !.level[l].headOrder = t]
                  ELSE [m EXCEPT !.ticket[tail].nextOrder = t,
                                 !.ticket[t].prevOrder = tail,
                                 !.ticket[t].nextOrder = Null]
    IN  [linked EXCEPT !.level[l].tailOrder = t,
                       !.level[l].size = @ + 1,
                       !.level[l].totalVolume = Wrap(@ + m.ticket[t].quantity),
                       !.ticket[t].parentLevel = l]

\* The level no longer counts the ticket t.
Discount(m, t) ==
    LET l == m.ticket[t].parentLevel
    IN  [m EXCEPT !.level[l].totalVolume = Wrap(@ - m.ticket[t].quantity),
                  !.level[l].size = @ - 1]

\* A slip: the new head still knows the old one.
executeKeepsPrev(m, t) ==
    LET next == m.ticket[t].nextOrder
        l == m.ticket[t].parentLevel
        beheaded == [m EXCEPT !.level[l].headOrder = next,
                              !.level[l].tailOrder = IF next = Null THEN Null ELSE @]
    IN  Discount([beheaded EXCEPT !.ticket[t].nextOrder = Null,
                                  !.ticket[t].prevOrder = Null], t)

\* For the head of a level.
execute(m, t) ==
    LET next == m.ticket[t].nextOrder
        l == m.ticket[t].parentLevel
        beheaded == IF next = Null
                    THEN [m EXCEPT !.level[l].headOrder = Null,
                                   !.level[l].tailOrder = Null]
                    ELSE [m EXCEPT !.level[l].headOrder = next,
                                   !.ticket[next].prevOrder = Null]
    IN  Discount([beheaded EXCEPT !.ticket[t].nextOrder = Null,
                                  !.ticket[t].prevOrder = Null], t)

\* A slip: any ticket is taken out as the head is.
cancelAsHead(m, t) == execute(m, t)

\* The ticket t keeps its own links.
cancel(m, t) ==
    LET next == m.ticket[t].nextOrder
        prev == m.ticket[t].prevOrder
        l == m.ticket[t].parentLevel
        forward == IF prev = Null
                   THEN [m EXCEPT !.level[l].headOrder = next]
                   ELSE [m EXCEPT !.ticket[prev].nextOrder = next]
    IN  Discount(IF next = Null
                 THEN [forward EXCEPT !.level[l].tailOrder = prev]
                 ELSE [forward EXCEPT !.ticket[next].prevOrder = prev], t)

modifyOrder(m, t, newShares) ==
    [m EXCEPT !.ticket[t] = NewTicket(@.idNumber, newShares)]

setShares(m, t, newShares) == [m EXCEPT !.ticket[t].quantity = newShares]

\* A slip: the level is not told.
partiallyFillQuietly(m, t, orderedShares) ==
    [m EXCEPT !.ticket[t].quantity = @ - orderedShares]

partiallyFillOrder(m, t, orderedShares) ==
    [m EXCEPT !.ticket[t].quantity = @ - orderedShares,
              !.level[m.ticket[t].parentLevel].totalVolume = Wrap(@ - orderedShares)]

-----------------------------------------------------------------------------
(* What MatchingEngine.cpp makes of them.                                  *)

\* addLimit and addStop, as far as the arena and the map are concerned.
addLevel(m, key) ==
    LET l == NextCell(m.limitPool)
    IN  [m EXCEPT !.limitPool = alloc(@),
                  !.level = With(@, l, NewLevel(key)),
                  !.levelMap = With(@, key, l)]

\* Find or add the level, then append.
appendAt(m, key, t) ==
    LET found == IF key \in DOMAIN m.levelMap THEN m ELSE addLevel(m, key)
    IN  append(found, found.levelMap[key], t)

\* A slip: the cell is not given back.
deleteAndLeak(m, l) ==
    IF m.level[l].size # 0
    THEN m
    ELSE [m EXCEPT !.levelMap = Without(@, m.level[l].levelPrice),
                   !.level = Without(@, l)]

\* deleteLimit and deleteStopLevel, for a level without tickets.  A freed cell
\* holds nothing: no operation may look into it.
deleteIfEmpty(m, l) ==
    IF m.level[l].size # 0
    THEN m
    ELSE [m EXCEPT !.levelMap = Without(@, m.level[l].levelPrice),
                   !.level = Without(@, l),
                   !.limitPool = free(@, l)]

deleteFromOrderMap(m, id) == [m EXCEPT !.orderMap = Without(@, id)]

freeTicket(m, t) == [m EXCEPT !.ticket = Without(@, t), !.orderPool = free(@, t)]

\* A slip: the map keeps the ticket of that id.
discardMapped(m, t) == freeTicket(m, t)

\* deleteFromOrderMap goes by the id of the ticket, free by its cell.
discard(m, t) == freeTicket(deleteFromOrderMap(m, m.ticket[t].idNumber), t)

HeadAt(key) == mem.level[mem.levelMap[key]].headOrder

-----------------------------------------------------------------------------
Idle == converting = Null

\* emplace does not replace the ticket of an id in use.
submit(id, shares, key) ==
    LET t == NextCell(mem.orderPool)
        m == [mem EXCEPT !.orderPool = alloc(@),
                         !.ticket = With(@, t, NewTicket(id, shares)),
                         !.orderMap = IF id \in DOMAIN @ THEN @ ELSE With(@, id, t)]
    IN  /\ Idle
        /\ Cardinality(DOMAIN mem.ticket) < MaxTickets
        /\ mem' = appendAt(m, key, t)
        /\ UNCHANGED converting

cancelTicket(id) ==
    LET t == mem.orderMap[id]
        m == cancel(mem, t)
    IN  /\ Idle
        /\ mem' = discard(deleteIfEmpty(m, m.ticket[t].parentLevel), t)
        /\ UNCHANGED converting

\* A limit ticket stays in its map of levels, and so does a stop ticket.
SameMap(t, key) ==
    LET from == mem.level[mem.ticket[t].parentLevel].levelPrice
    IN  from \in LimitKeys <=> key \in LimitKeys

modifyTicket(id, newShares, key) ==
    LET t == mem.orderMap[id]
        m == cancel(mem, t)
        out == deleteIfEmpty(m, m.ticket[t].parentLevel)
    IN  /\ Idle
        /\ SameMap(t, key)
        /\ mem' = appendAt(modifyOrder(out, t, newShares), key, t)
        /\ UNCHANGED converting

\* A round of a matching loop, and of executeStopOrders for a stop ticket.
executeHead(key) ==
    LET t == HeadAt(key)
        m == execute(mem, t)
    IN  /\ ~Idle => key \in LimitKeys
        /\ mem' = discard(deleteIfEmpty(m, m.ticket[t].parentLevel), t)
        /\ UNCHANGED converting

partiallyFillHead(key, shares) ==
    /\ key \in LimitKeys
    /\ shares < mem.ticket[HeadAt(key)].quantity
    /\ mem' = partiallyFillOrder(mem, HeadAt(key), shares)
    /\ UNCHANGED converting

\* stopLimitOrderToLimitOrder: first out of the stop book ...
TriggerStopLimit(key) ==
    LET m == execute(mem, HeadAt(key))
    IN  /\ Idle
        /\ mem' = deleteIfEmpty(m, mem.levelMap[key])
        /\ converting' = HeadAt(key)

\* ... then, while the loop sweeps levels of the other side, still in orderMap,
\* and in the end freed before the last sweep,
ConvertedIsFilled ==
    /\ ~Idle
    /\ mem' = discard(mem, converting)
    /\ converting' = Null

\* ... or in a limit book, with the shares that are left.
ConvertedRests(key, shares) ==
    /\ ~Idle
    /\ shares <= mem.ticket[converting].quantity
    /\ mem' = appendAt(setShares(mem, converting, shares), key, converting)
    /\ converting' = Null

-----------------------------------------------------------------------------
Init ==
    /\ mem = [orderPool |-> NewArena, limitPool |-> NewArena,
              ticket |-> <<>>, level |-> <<>>,
              orderMap |-> <<>>, levelMap |-> <<>>]
    /\ converting = Null

Client ==
    \/ \E id \in Ids, shares \in Quantities, key \in Keys : submit(id, shares, key)
    \/ \E id \in DOMAIN mem.orderMap :
          \/ cancelTicket(id)
          \/ \E shares \in Quantities, key \in Keys : modifyTicket(id, shares, key)

Matching ==
    \E key \in DOMAIN mem.levelMap :
        \/ executeHead(key)
        \/ \E shares \in Quantities : partiallyFillHead(key, shares)

Converting ==
    \/ \E key \in StopKeys \cap DOMAIN mem.levelMap : TriggerStopLimit(key)
    \/ ConvertedIsFilled
    \/ \E key \in LimitKeys, shares \in Quantities : ConvertedRests(key, shares)

Next == Client \/ Matching \/ Converting

Spec == Init /\ [][Next]_vars

-----------------------------------------------------------------------------
Tickets == DOMAIN mem.ticket
Levels == DOMAIN mem.level

\* printForward and printBackward: the tickets one comes to from an end of the
\* list, one more at most than there are.
Walk(first, link) ==
    LET walk[n \in 0..(MaxTickets + 1)] ==
            [t \in Nat |->
                IF t \notin Tickets \/ n = 0
                THEN <<>>
                ELSE <<t>> \o walk[n - 1][mem.ticket[t][link]]]
    IN  walk[MaxTickets + 1][first]

Forward(l) == Walk(mem.level[l].headOrder, "nextOrder")
Backward(l) == Walk(mem.level[l].tailOrder, "prevOrder")

Queued == UNION {Range(Forward(l)) : l \in Levels}

\* Objects have the fields of their classes, and no pointer leads to a freed
\* cell: not head, tail, next or prev of anything, nor the parentLevel of a
\* queued ticket.  (That of a converting ticket may.)
TypeOK ==
    /\ mem.orderPool \in Arena /\ mem.limitPool \in Arena
    /\ converting \in Tickets \cup {Null}
    /\ \A t \in Tickets :
          /\ mem.ticket[t] \in TradeTicket
          /\ {mem.ticket[t].nextOrder, mem.ticket[t].prevOrder} \subseteq Tickets \cup {Null}
          /\ t # converting => mem.ticket[t].parentLevel \in Levels
    /\ \A l \in Levels :
          /\ mem.level[l] \in PriceLevel
          /\ {mem.level[l].headOrder, mem.level[l].tailOrder} \subseteq Tickets

\* No cell is handed out twice, freed twice or lost: a ticket's cell is in a
\* list, being converted or on the free list, and a level's is in one of the
\* three maps or on the free list of the pool that all books share.
CellsAreAccounted ==
    /\ Queued \cup ({converting} \ {Null}) = Tickets
    /\ Range(mem.levelMap) = Levels /\ IsInjective(mem.levelMap)
    /\ Accounts(mem.orderPool, Tickets)
    /\ Accounts(mem.limitPool, Levels)

\* searchOrderMap never returns a freed ticket or one of another id, though two
\* tickets of one id may be alive and the end of either one erases the entry.
FoundTicketsAreLive ==
    \A id \in DOMAIN mem.orderMap :
        LET t == mem.orderMap[id] IN t \in Tickets /\ mem.ticket[t].idNumber = id

\* The list read backward is the list read forward, size is its length, and its
\* tickets know their level: an unlink in the middle, at an end or of the only
\* ticket, and an append of a ticket that was in another list, leave no link.
ListsAreLinked ==
    \A l \in Levels :
        /\ Backward(l) = Reverse(Forward(l))
        /\ mem.level[l].size = Len(Forward(l))
        /\ \A t \in Range(Forward(l)) : mem.ticket[t].parentLevel = l

\* totalVolume is kept by differences in an int that may overflow.  It is the
\* sum of the shares modulo the width, hence the sum itself as soon as that
\* fits again: an overflow leaves no error behind.
VolumeUpToWidth ==
    \A l \in Levels :
        mem.level[l].totalVolume =
            Wrap(MapThenSumSet(LAMBDA t : mem.ticket[t].quantity, Range(Forward(l))))

LineOf ==
    [l \in Levels |->
        LET tickets == Forward(l)
        IN  [i \in DOMAIN tickets |->
                [ticket |-> tickets[i], shares |-> mem.ticket[tickets[i]].quantity]]]

Lines ==
    [key \in Keys |->
        IF key \in DOMAIN mem.levelMap THEN LineOf[mem.levelMap[key]] ELSE <<>>]

Queues == INSTANCE TicketQueues WITH LevelKeys <- Keys, line <- Lines

\* The pointers implement lines of tickets: a new or modified ticket, and a
\* converted one, comes behind all others of its level, and whoever leaves, from
\* any place, does not change the order of those who stay.
ImplementsTicketQueues == Queues!QueuesSpec

=============================================================================
