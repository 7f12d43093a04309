--------------------------- MODULE MatchingEngine ---------------------------
(***************************************************************************)
(* The order matching core of src/src/MatchingEngine.cpp: the four ticket  *)
(* types, their cancel and modify calls, and the matching loops.           *)
(*                                                                         *)
(* The program is single threaded, so a public call runs to completion     *)
(* before the next.  A call that can match is modelled as the sequence of  *)
(* its loop iterations: pc says in which loop control is, taker holds the  *)
(* local variables of the call, and calls are only accepted at "idle".     *)
(*                                                                         *)
(* The AVL trees that index the price levels are the subject of module     *)
(* PriceLevelTree.  Here a book is the set of prices that have a level,    *)
(* and its edge the best of them, which is what the trees promise.         *)
(***************************************************************************)
EXTENDS Integers, Sequences, SequencesExt

CONSTANTS Ids,         \* ticket ids a client may use
          MaxPrice,    \* the largest price, INT_MAX for the program
          Quantities   \* quantities of submitted and modified tickets

(***************************************************************************)
(* 0 is no price: TradeTicket::limit = 0 marks a stop (market) ticket.     *)
(* 0 is no id: executeStopOrders passes it on for a triggered stop.        *)
(***************************************************************************)
ASSUME MaxPriceIsNatural == MaxPrice \in Nat
ASSUME ZeroIsNoId == 0 \notin Ids
ASSUME QuantitiesAreNatural == Quantities \subseteq Nat

VARIABLES
    levels,    \* limitBuyMap, limitSellMap and stopMap: <<book, price>> -> level
    orderMap,  \* id -> ticket
    pc,        \* the loop the running call is in, or "idle"
    taker      \* the running call's local variables

\* Prices of limits and stops, in the smallest currency unit.
Prices == 1..MaxPrice

vars == <<levels, orderMap, pc, taker>>

Books == {"buy", "sell", "stop"}
LimitBooks == {"buy", "sell"}

Ticket == [isBid : BOOLEAN, quantity : Nat, limit : Prices \cup {0},
           parentLevel : Books \X Prices]

Level == [isBid : BOOLEAN, orders : Seq(Ids), totalVolume : Int]

Loops == {"sweep", "limit", "convert", "stops"}

(***************************************************************************)
(* The locals of a call.  sweep is marketOrderHelper's quantity, rest the  *)
(* quantity its caller still holds, then the loop that called it.  size    *)
(* and executed are history: the quantity the taker came with, and what    *)
(* resting tickets have lost to it.                                        *)
(***************************************************************************)
Taker == [id : Ids \cup {0}, isBid : BOOLEAN, limit : Prices \cup {0},
          rest : Nat, sweep : Int, then : Loops \ {"sweep"},
          size : Nat, executed : Int]

\* No call is running.  The code has no such value: the locals of a call are gone.
NoTaker == [id |-> 0, isBid |-> TRUE, limit |-> 0, rest |-> 0, sweep |-> 0,
            then |-> "stops", size |-> 0, executed |-> 0]

StopsOf(isBid) == [NoTaker EXCEPT !.isBid = isBid]

MarketTaker(isBid, quantity) ==
    [NoTaker EXCEPT !.isBid = isBid, !.sweep = quantity, !.size = quantity]

LimitTaker(id, isBid, quantity, levelPrice) ==
    [NoTaker EXCEPT !.id = id, !.isBid = isBid, !.limit = levelPrice,
                    !.rest = quantity, !.size = quantity]

-----------------------------------------------------------------------------
(* The books and their edges.                                              *)

With(f, k, v) == [x \in DOMAIN f \cup {k} |-> IF x = k THEN v ELSE f[x]]
Without(f, k) == Restrict(f, DOMAIN f \ {k})

LimitBook(isBid) == IF isBid THEN "buy" ELSE "sell"
MakerBook(isBid) == LimitBook(~isBid)

StopLevel(isBid, price) == <<"stop", price>>
LimitLevel(isBid, price) == <<LimitBook(isBid), price>>

BookPrices(book) == {p \in Prices : <<book, p>> \in DOMAIN levels}

\* bestAsk for a buyer, topBid for a seller: the level a taker trades with.
IsEdge(isBid, p) ==
    /\ p \in BookPrices(MakerBook(isBid))
    /\ \A q \in BookPrices(MakerBook(isBid)) : IF isBid THEN p <= q ELSE p >= q

StopPrices(isBid) ==
    {p \in BookPrices("stop") : levels[<<"stop", p>>].isBid = isBid}

\* lowestStopBuy or highestStopSell.
IsStopEdge(isBid, p) ==
    /\ p \in StopPrices(isBid)
    /\ \A q \in StopPrices(isBid) : IF isBid THEN p <= q ELSE p >= q

\* A limit of a taker accepts a price of the opposite book.
Accepts(isBid, limit, p) == IF isBid THEN p <= limit ELSE p >= limit

\* A stop at stopPrice is reached by the price p of the opposite edge.
Reached(isBid, stopPrice, p) == IF isBid THEN stopPrice <= p ELSE stopPrice >= p

-----------------------------------------------------------------------------
(* Tickets in and out of a price level.                                    *)

\* Slips of append: shares are not added, or the ticket goes to the head.
EnqueueWithoutVolume(ls, k, isBid, id, quantity) ==
    LET level == IF k \in DOMAIN ls
                 THEN ls[k]
                 ELSE [isBid |-> isBid, orders |-> <<>>, totalVolume |-> quantity]
    IN  With(ls, k, [level EXCEPT !.orders = Append(@, id)])

EnqueueAtHead(ls, k, isBid, id, quantity) ==
    LET level == IF k \in DOMAIN ls
                 THEN ls[k]
                 ELSE [isBid |-> isBid, orders |-> <<>>, totalVolume |-> 0]
    IN  With(ls, k, [level EXCEPT !.orders = <<id>> \o @,
                                  !.totalVolume = @ + quantity])

(***************************************************************************)
(* find or add the level, then PriceLevel::append.  The key of a stop      *)
(* level is its price alone: isBid is used only when the level is new.     *)
(***************************************************************************)
Enqueue(ls, k, isBid, id, quantity) ==
    LET level == IF k \in DOMAIN ls
                 THEN ls[k]
                 ELSE [isBid |-> isBid, orders |-> <<>>, totalVolume |-> 0]
    IN  With(ls, k, [level EXCEPT !.orders = Append(@, id),
                                  !.totalVolume = @ + quantity])

\* A slip: the emptied level is not removed.
UnlinkKeepsLevel(ls, k, i) ==
    [ls EXCEPT ![k].orders = RemoveAt(@, i),
               ![k].totalVolume = @ - orderMap[ls[k].orders[i]].quantity]

(***************************************************************************)
(* TradeTicket::cancel (any i) and TradeTicket::execute (i = 1), followed  *)
(* by the removal of the level when it has become empty.                   *)
(***************************************************************************)
Unlink(ls, k, i) ==
    LET left == [ls[k] EXCEPT !.orders = RemoveAt(@, i),
                              !.totalVolume = @ - orderMap[ls[k].orders[i]].quantity]
    IN  IF left.orders = <<>> THEN Without(ls, k) ELSE [ls EXCEPT ![k] = left]

\* TradeTicket::cancel of the ticket id, found through its parentLevel.
Cancelled(id) ==
    LET k == orderMap[id].parentLevel
    IN  Unlink(levels, k, CHOOSE i \in DOMAIN levels[k].orders :
                              levels[k].orders[i] = id)

NewTicket(isBid, quantity, limit, k) ==
    [isBid |-> isBid, quantity |-> quantity, limit |-> limit, parentLevel |-> k]

\* Allocate a ticket, map it, and append it to the level k.
Rest(id, isBid, quantity, limit, k) ==
    /\ levels' = Enqueue(levels, k, isBid, id, quantity)
    /\ orderMap' = With(orderMap, id, NewTicket(isBid, quantity, limit, k))

\* Give control to a loop of the engine.
Run(loop, t) == pc' = loop /\ taker' = t
Return == pc' = "idle" /\ taker' = NoTaker

-----------------------------------------------------------------------------
(* The public calls.  A client that has no ticket of that id changes       *)
(* nothing, so the cancel and modify calls are stated for known tickets.   *)

Idle == pc = "idle"

\* What the engine's client sees to, for the engine checks neither: it numbers
\* its tickets, and it calls each function on tickets of its kind.  TicketStore
\* has the calls with an id in use.
Fresh(id) == id \in Ids \ DOMAIN orderMap

IsLimit(id) == orderMap[id].parentLevel[1] \in LimitBooks
IsStop(id) == ~IsLimit(id) /\ orderMap[id].limit = 0
IsStopLimit(id) == ~IsLimit(id) /\ orderMap[id].limit # 0

submitMarketTicket(isBid, quantity) ==
    /\ Idle
    /\ Run("sweep", MarketTaker(isBid, quantity))
    /\ UNCHANGED <<levels, orderMap>>

submitLimitTicket(id, isBid, quantity, levelPrice) ==
    /\ Idle /\ Fresh(id)
    /\ Run("limit", LimitTaker(id, isBid, quantity, levelPrice))
    /\ UNCHANGED <<levels, orderMap>>

\* A stop is executed at once if the opposite edge exists and has reached it.
TriggersAtOnce(isBid, stopPrice) ==
    \E p \in Prices : IsEdge(isBid, p) /\ Reached(isBid, stopPrice, p)

submitStopTicket(id, isBid, quantity, stopPrice) ==
    /\ Idle /\ Fresh(id)
    /\ \/ /\ TriggersAtOnce(isBid, stopPrice)
          /\ Run("sweep", MarketTaker(isBid, quantity))
          /\ UNCHANGED <<levels, orderMap>>
       \/ /\ ~TriggersAtOnce(isBid, stopPrice)
          /\ quantity # 0
          /\ Rest(id, isBid, quantity, 0, StopLevel(isBid, stopPrice))
          /\ UNCHANGED <<pc, taker>>

submitStopLimitTicket(id, isBid, quantity, levelPrice, stopPrice) ==
    /\ Idle /\ Fresh(id)
    /\ \/ /\ TriggersAtOnce(isBid, stopPrice)
          /\ Run("limit", LimitTaker(id, isBid, quantity, levelPrice))
          /\ UNCHANGED <<levels, orderMap>>
       \/ /\ ~TriggersAtOnce(isBid, stopPrice)
          /\ quantity # 0
          /\ Rest(id, isBid, quantity, levelPrice, StopLevel(isBid, stopPrice))
          /\ UNCHANGED <<pc, taker>>

\* The cancel calls differ only in the index the empty level is removed from.
Cancel(id) ==
    /\ levels' = Cancelled(id)
    /\ orderMap' = Without(orderMap, id)
    /\ UNCHANGED <<pc, taker>>

cancelLimitTicket(id) == Idle /\ IsLimit(id) /\ Cancel(id)
cancelStopTicket(id) == Idle /\ IsStop(id) /\ Cancel(id)
cancelStopLimitTicket(id) == Idle /\ IsStopLimit(id) /\ Cancel(id)

\* cancel, modifyOrder, append: the ticket keeps its side and goes to the tail.
Move(id, quantity, limit, k) ==
    LET isBid == orderMap[id].isBid
    IN  /\ levels' = Enqueue(Cancelled(id), k, isBid, id, quantity)
        /\ orderMap' = [orderMap EXCEPT ![id] = NewTicket(isBid, quantity, limit, k)]
        /\ UNCHANGED <<pc, taker>>

\* The new price is not matched against the opposite book.
modifyLimitTicket(id, newShares, newLimit) ==
    /\ Idle /\ IsLimit(id)
    /\ Move(id, newShares, newLimit, LimitLevel(orderMap[id].isBid, newLimit))

modifyStopTicket(id, newShares, newStopPrice) ==
    /\ Idle /\ IsStop(id)
    /\ Move(id, newShares, 0, StopLevel(orderMap[id].isBid, newStopPrice))

modifyStopLimitTicket(id, newShares, newLimitPrice, newStopPrice) ==
    /\ Idle /\ IsStopLimit(id)
    /\ Move(id, newShares, newLimitPrice, StopLevel(orderMap[id].isBid, newStopPrice))

-----------------------------------------------------------------------------
(* marketOrderHelper: fill the head of the edge while it fits, then take   *)
(* what is left from the head that does not.                               *)

Maker(p) == <<MakerBook(taker.isBid), p>>
Head1(k) == levels[k].orders[1]

Fits(p) ==
    /\ IsEdge(taker.isBid, p)
    /\ orderMap[Head1(Maker(p))].quantity <= taker.sweep

FillHead ==
    /\ pc = "sweep"
    /\ \E p \in Prices :
          /\ Fits(p)
          /\ LET head == Head1(Maker(p))
                 shares == orderMap[head].quantity
             IN  /\ levels' = Unlink(levels, Maker(p), 1)
                 /\ orderMap' = Without(orderMap, head)
                 /\ taker' = [taker EXCEPT !.sweep = @ - shares,
                                           !.executed = @ + shares]
    /\ UNCHANGED pc

\* Back to the loop that called marketOrderHelper.
SweepReturns(executed) ==
    Run(taker.then,
        IF taker.then = "stops"
        THEN StopsOf(taker.isBid)
        ELSE [taker EXCEPT !.sweep = 0, !.executed = @ + executed])

\* TradeTicket::partiallyFillOrder on the head.
PartiallyFillHead ==
    /\ pc = "sweep"
    /\ taker.sweep # 0
    /\ \E p \in Prices :
          /\ IsEdge(taker.isBid, p)
          /\ ~Fits(p)
          /\ orderMap' = [orderMap EXCEPT
                 ![Head1(Maker(p))].quantity = @ - taker.sweep]
          /\ levels' = [levels EXCEPT ![Maker(p)].totalVolume = @ - taker.sweep]
    /\ SweepReturns(taker.sweep)

\* Nothing left to take, or no level left: what is left is forgotten.
EndSweep ==
    /\ pc = "sweep"
    /\ \A p \in Prices : IsEdge(taker.isBid, p) => taker.sweep = 0 /\ ~Fits(p)
    /\ SweepReturns(0)
    /\ UNCHANGED <<levels, orderMap>>

-----------------------------------------------------------------------------
(* limitOrderAsMarketOrder and existingOrderAsMarketOrder: take the edge   *)
(* levels within the limit, one marketOrderHelper call per level.          *)

\* A slip: a price equal to the limit is not accepted.
AcceptsBetterEdge(p) ==
    IsEdge(taker.isBid, p) /\ Accepts(taker.isBid, taker.limit, p) /\ p # taker.limit

AcceptsEdge(p) == IsEdge(taker.isBid, p) /\ Accepts(taker.isBid, taker.limit, p)

\* Slips: a level that is too small is taken for enough, or rest is not cleared.
SweepRestAnyway(p) ==
    Run("sweep", [taker EXCEPT !.sweep = taker.rest, !.rest = 0, !.then = "stops"])

SweepRestTwice(p) ==
    /\ taker.rest <= levels[Maker(p)].totalVolume
    /\ Run("sweep", [taker EXCEPT !.sweep = taker.rest, !.then = "stops"])

\* A slip: the last sweep comes back to the loop, which in existingOrderAsMarketOrder
\* has no test of the quantity.
SweepRestAndBack(p) ==
    /\ taker.rest <= levels[Maker(p)].totalVolume
    /\ Run("sweep", [taker EXCEPT !.sweep = taker.rest, !.rest = 0, !.then = pc])

\* The level covers the taker: the last sweep, after which the taker is done.
SweepRest(p) ==
    /\ taker.rest <= levels[Maker(p)].totalVolume
    /\ Run("sweep", [taker EXCEPT !.sweep = taker.rest, !.rest = 0, !.then = "stops"])

\* A slip: a level that covers the taker is taken as a whole.
SweepLevelAnyway(p) ==
    Run("sweep", [taker EXCEPT !.sweep = levels[Maker(p)].totalVolume,
                               !.rest = @ - levels[Maker(p)].totalVolume,
                               !.then = pc])

\* The level is smaller than the taker: take its total volume and come back.
SweepLevel(p) ==
    /\ taker.rest > levels[Maker(p)].totalVolume
    /\ Run("sweep", [taker EXCEPT !.sweep = levels[Maker(p)].totalVolume,
                                  !.rest = @ - levels[Maker(p)].totalVolume,
                                  !.then = pc])

limitOrderAsMarketOrder ==
    /\ pc = "limit"
    /\ taker.rest # 0
    /\ \E p \in Prices : AcceptsEdge(p) /\ (SweepRest(p) \/ SweepLevel(p))
    /\ UNCHANGED <<levels, orderMap>>

\* submitLimitTicket after the loop: rest in the book, or execute the stops.
LimitLoopEnds ==
    /\ pc = "limit"
    /\ taker.rest # 0 => \A p \in Prices : ~AcceptsEdge(p)
    /\ IF taker.rest # 0
       THEN /\ Rest(taker.id, taker.isBid, taker.rest, taker.limit,
                    LimitLevel(taker.isBid, taker.limit))
            /\ Return
       ELSE /\ Run("stops", StopsOf(taker.isBid))
            /\ UNCHANGED <<levels, orderMap>>

existingOrderAsMarketOrder ==
    /\ pc = "convert"
    /\ \E p \in Prices :
          /\ AcceptsEdge(p)
          /\ \/ SweepRest(p) /\ orderMap' = Without(orderMap, taker.id)
             \/ SweepLevel(p) /\ UNCHANGED orderMap
    /\ UNCHANGED levels

\* stopLimitOrderToLimitOrder after the loop: the ticket becomes a limit ticket.
ConvertLoopEnds ==
    /\ pc = "convert"
    /\ \A p \in Prices : ~AcceptsEdge(p)
    /\ IF taker.rest # 0
       THEN LET k == LimitLevel(taker.isBid, taker.limit)
            IN  /\ levels' = Enqueue(levels, k, taker.isBid, taker.id, taker.rest)
                /\ orderMap' = [orderMap EXCEPT ![taker.id].quantity = taker.rest,
                                                ![taker.id].parentLevel = k]
       ELSE UNCHANGED <<levels, orderMap>>
    /\ Run("stops", StopsOf(taker.isBid))

-----------------------------------------------------------------------------
(* executeStopOrders: while the stop edge is reached, or the opposite book *)
(* is empty, its head ticket becomes a market or a limit order.            *)

Triggered(p) ==
    /\ IsStopEdge(taker.isBid, p)
    /\ \A q \in Prices : IsEdge(taker.isBid, q) => Reached(taker.isBid, p, q)

TriggerStop ==
    /\ pc = "stops"
    /\ \E p \in Prices :
          /\ Triggered(p)
          /\ LET head == Head1(<<"stop", p>>)
             IN  /\ orderMap[head].limit = 0
                 /\ levels' = Unlink(levels, <<"stop", p>>, 1)
                 /\ orderMap' = Without(orderMap, head)
                 /\ Run("sweep", MarketTaker(taker.isBid, orderMap[head].quantity))

TriggerStopLimit ==
    /\ pc = "stops"
    /\ \E p \in Prices :
          /\ Triggered(p)
          /\ LET head == Head1(<<"stop", p>>)
                 ticket == orderMap[head]
             IN  /\ ticket.limit # 0
                 /\ levels' = Unlink(levels, <<"stop", p>>, 1)
                 /\ Run("convert", LimitTaker(head, taker.isBid, ticket.quantity, ticket.limit))
    /\ UNCHANGED orderMap

StopsDone ==
    /\ pc = "stops"
    /\ \A p \in Prices : ~Triggered(p)
    /\ Return
    /\ UNCHANGED <<levels, orderMap>>

-----------------------------------------------------------------------------
Init ==
    /\ levels = [k \in {} |-> NoTaker]
    /\ orderMap = [id \in {} |-> NoTaker]
    /\ pc = "idle"
    /\ taker = NoTaker

Submit ==
    \E isBid \in BOOLEAN, quantity \in Quantities :
        \/ submitMarketTicket(isBid, quantity)
        \/ \E id \in Ids, price \in Prices :
              \/ submitLimitTicket(id, isBid, quantity, price)
              \/ submitStopTicket(id, isBid, quantity, price)
              \/ \E stopPrice \in Prices :
                    submitStopLimitTicket(id, isBid, quantity, price, stopPrice)

Cancels ==
    \E id \in DOMAIN orderMap :
        \/ cancelLimitTicket(id)
        \/ cancelStopTicket(id)
        \/ cancelStopLimitTicket(id)

ModifyLimit ==
    \E id \in DOMAIN orderMap, newShares \in Quantities, newLimit \in Prices :
        modifyLimitTicket(id, newShares, newLimit)

ModifyStop ==
    \E id \in DOMAIN orderMap, newShares \in Quantities, newStopPrice \in Prices :
        \/ modifyStopTicket(id, newShares, newStopPrice)
        \/ \E newLimitPrice \in Prices :
              modifyStopLimitTicket(id, newShares, newLimitPrice, newStopPrice)

\* The rest of a call that has begun.
Engine ==
    \/ FillHead \/ PartiallyFillHead \/ EndSweep
    \/ limitOrderAsMarketOrder \/ LimitLoopEnds
    \/ existingOrderAsMarketOrder \/ ConvertLoopEnds
    \/ TriggerStop \/ TriggerStopLimit \/ StopsDone

Next == Submit \/ Cancels \/ ModifyLimit \/ ModifyStop \/ Engine

\* The one thread of the program runs a call on until it returns; whether a
\* client calls again is up to the client.
Spec == Init /\ [][Next]_vars /\ WF_vars(Engine)

-----------------------------------------------------------------------------
(* What the engine promises.                                               *)

FunctionInto(f, S, T) == DOMAIN f \subseteq S /\ \A x \in DOMAIN f : f[x] \in T

\* The books, the tickets and the locals of the running call have the types
\* that include/MatchingEngine.hpp declares for them.
TypeOK ==
    /\ FunctionInto(levels, Books \X Prices, Level)
    /\ FunctionInto(orderMap, Ids, Ticket)
    /\ pc \in Loops \cup {"idle"}
    /\ taker \in Taker

\* The ticket that stopLimitOrderToLimitOrder has taken out of the stop book
\* and not yet put into a limit book.
Converting ==
    IF pc = "convert" \/ (pc = "sweep" /\ taker.then = "convert")
    THEN {taker.id} ELSE {}

Holds(k, id) == \E i \in DOMAIN levels[k].orders : levels[k].orders[i] = id

QueuesHoldTickets ==
    \A k \in DOMAIN levels : \A i \in DOMAIN levels[k].orders :
        /\ levels[k].orders[i] \in DOMAIN orderMap \ Converting
        /\ orderMap[levels[k].orders[i]].parentLevel = k

NoTicketTwice ==
    \A k \in DOMAIN levels : \A i, j \in DOMAIN levels[k].orders :
        levels[k].orders[i] = levels[k].orders[j] => i = j

TicketsAreQueued ==
    \A id \in DOMAIN orderMap \ Converting :
        /\ orderMap[id].parentLevel \in DOMAIN levels
        /\ Holds(orderMap[id].parentLevel, id)

\* A level is removed from its book with its last ticket, so that the head of an
\* edge level can always be asked for its shares.
NoEmptyLevel == \A k \in DOMAIN levels : levels[k].orders # <<>>

\* orderMap, parentLimit and the queues agree: whatever calls and loops have
\* run, every mapped ticket is in exactly one queue, the one of its
\* parentLimit, only mapped tickets are queued, and no level is empty.  Each
\* getHeadOrder()-> in the matching loops and each cancel() relies on it.
EveryTicketQueuedOnce ==
    /\ QueuesHoldTickets
    /\ NoTicketTwice
    /\ TicketsAreQueued
    /\ NoEmptyLevel

Volume(k) == MapThenSumSet(LAMBDA i : orderMap[levels[k].orders[i]].quantity,
                           DOMAIN levels[k].orders)

\* PriceLevel::totalVolume, which append, cancel, execute and
\* partiallyFillOrder each maintain by a difference, is the sum of the shares
\* in the level's queue.  The limit loops compare quantities with it.
VolumeIsSum == \A k \in DOMAIN levels : levels[k].totalVolume = Volume(k)

\* marketOrderHelper does not look at a limit.  On behalf of a limit order it
\* is only ever called with what the edge level holds, so that every ticket
\* that loses shares to a limit taker does so at a price within the limit.
LimitIsRespected ==
    [][pc = "sweep" /\ taker.limit # 0 =>
          \A id \in DOMAIN orderMap :
              id \notin DOMAIN orderMap' \/ orderMap'[id].quantity # orderMap[id].quantity
                  => Accepts(taker.isBid, taker.limit, orderMap[id].parentLevel[2])]_vars

\* No share of an order is traded twice or gets lost on the way: at any point of
\* the call its size is what has been executed, what is being swept and what is
\* left.
TakerAccounted == taker.size = taker.executed + taker.sweep + taker.rest

\* The shares that rest in the book that taker sweeps.
Offered ==
    MapThenSumSet(LAMBDA p : levels[Maker(p)].totalVolume,
                  BookPrices(MakerBook(taker.isBid)))

\* marketOrderHelper "just doesn't execute and is forgotten" if the book is empty
\* (line 1144), and only then: its last step takes all that is left of quantity
\* or leaves no level of that book.  What is swept for a limit order is never
\* forgotten, for nobody would put it into the book.
OnlyEmptyBookForgets ==
    [][pc = "sweep" /\ pc' # "sweep" =>
          \/ Offered - Offered' = taker.sweep
          \/ taker.limit = 0 /\ Offered' = 0]_vars

Crossed ==
    \E p \in BookPrices("buy"), q \in BookPrices("sell") : p >= q

\* Bids and asks never overlap, unless modifyLimitTicket, which does not
\* match, has moved a ticket across: no submission, no residual of a limit
\* order and no triggered stop-limit order crosses the book.
OnlyModifyCrosses ==
    [][~Crossed /\ Crossed' => ModifyLimit]_vars

\* Every public call returns: the matching loops and the stop cascade, in
\* which stops trigger stops, all come to an end.
EveryCallReturns == pc # "idle" ~> pc = "idle"

\* What a ticket may still cost the running call.  A stop can trigger, sweep
\* level after level with its shares, and come to rest as a limit ticket.
Weight ==
    [id \in DOMAIN orderMap \ Converting |->
        IF IsLimit(id) THEN 1 ELSE 2 * orderMap[id].quantity + 3]

Phase ==
    CASE pc = "idle" -> 0
      [] pc = "stops" -> 1
      [] pc = "sweep" -> IF taker.then = "stops" THEN 2 ELSE 4
      [] pc \in {"limit", "convert"} -> 3

\* The steps that the running call has left, at most.
Work == SumFunctionOnSet(Weight, DOMAIN Weight) + 2 * taker.rest + Phase

\* No iteration of a loop is idle and no cascade feeds itself: each step of a
\* running call leaves less work than before.  It is why the loops end that
\* come back for a second level, whatever the tickets and their quantities: a
\* sweep that takes nothing, a level with no shares or a stop that is queued
\* again would keep them going.
WorkRunsOut == [][pc # "idle" => Work' \in Nat /\ Work' < Work]_vars

-----------------------------------------------------------------------------
(* What the documentation says and the code does not do.                   *)

\* README.md:71-72 has a tree of "buy stop orders" and one of "sell stop
\* orders"; stopMap has one level for both sides at a price.
StopBooksBySide ==
    \A id \in DOMAIN orderMap :
        LET k == orderMap[id].parentLevel
        IN  k \in DOMAIN levels /\ k[1] = "stop" => levels[k].isBid = orderMap[id].isBid

\* README.md:84: a stop "converts to a market order when a trigger price is
\* crossed".  submitLimitTicket returns without a look at the stops when a
\* part of the order, having emptied levels, rests in the book.
TradesTriggerStops ==
    [][pc = "limit" /\ pc' = "idle" /\ taker.executed > 0 =>
          \A side \in BOOLEAN, p, q \in Prices :
              side = taker.isBid /\ p \in StopPrices(side) /\ IsEdge(side, q)'
                  => ~Reached(side, p, q)]_vars

=============================================================================
