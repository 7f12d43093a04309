--------------------------- MODULE OrderGenerator ---------------------------
(***************************************************************************)
(* The benchmark's client, src/src/OrderGenerator.cpp, and the engine it   *)
(* drives: createInitialOrders, then createOrders, as main calls them.     *)
(*                                                                         *)
(* A price or a quantity that is drawn is any of Prices or Quantities, and *)
(* a loop that draws again while a price is refused takes one that is not. *)
(* createOrders draws one of eleven functions.  Those that cancel or       *)
(* modify ask MatchingEngine::getRandomOrder for a ticket first.  It draws *)
(* from sets that nothing fills (the insertions are commented out), so it  *)
(* always returns nullptr, and they fall back to adding an order.          *)
(***************************************************************************)
EXTENDS MatchingEngine

CONSTANTS
    NumberOfOrders,   \* createInitialOrders: limit orders
    NumberOfStops,    \* and stop orders, a tenth of them for the program
    NumberOfDraws,    \* createOrders
    FirstTicketId,    \* OrderGenerator::ticketId at first, 11001
    CentreOfBook,
    LimitDistances    \* of the limit of a stop-limit from its stop, 1..5

ASSUME NumbersAreNatural ==
    {NumberOfOrders, NumberOfStops, NumberOfDraws, FirstTicketId, CentreOfBook} \subseteq Nat

\* As 10000 + 1000 < 11001.
ASSUME InitialIdsEndBeforeFirst == NumberOfOrders + NumberOfStops < FirstTicketId

ASSUME IdsSuffice == (1..(NumberOfOrders + NumberOfStops))
                        \cup (FirstTicketId..(FirstTicketId + NumberOfDraws)) \subseteq Ids

VARIABLES
    ticketId,  \* the counter
    calls,     \* calls of the engine so far, by both functions
    crashed,   \* a null edge was asked for its price
    last       \* history: the last call, its kind, id and shares

generatorVars == <<ticketId, calls, crashed, last>>

InitialLimits == 0..(NumberOfOrders - 1)
InitialStops == NumberOfOrders..(NumberOfOrders + NumberOfStops - 1)
AllCalls == NumberOfOrders + NumberOfStops + NumberOfDraws
Drawing == calls \in (NumberOfOrders + NumberOfStops)..(AllCalls - 1)

Ready == Idle /\ ~crashed /\ calls < AllCalls

\* A call of the engine, for the kind of order it is, has been made.
Count(kind, id, shares) ==
    /\ calls' = calls + 1
    /\ last' = [kind |-> kind, id |-> id, shares |-> shares]
    /\ UNCHANGED crashed

\* A slip: the id is used again.
CountAgain(kind, shares) == Count(kind, ticketId, shares) /\ UNCHANGED ticketId

\* A call with the counter's id, which is the next one then.
CountId(kind, shares) == Count(kind, ticketId, shares) /\ ticketId' = ticketId + 1

-----------------------------------------------------------------------------
(* createInitialOrders.                                                    *)

initialLimit ==
    /\ calls \in InitialLimits
    /\ \E quantity \in Quantities, levelPrice \in Prices :
          /\ submitLimitTicket(calls + 1, levelPrice < CentreOfBook, quantity, levelPrice)
          /\ Count("limit", calls + 1, quantity)
    /\ UNCHANGED ticketId

\* The limit of a stop-limit order is beyond its stop.
Beyond(isBid, stopPrice, distance) ==
    IF isBid THEN stopPrice + distance ELSE stopPrice - distance

initialStop ==
    /\ calls \in InitialStops
    /\ \E quantity \in Quantities, stopPrice \in Prices :
          LET isBid == stopPrice > CentreOfBook
          IN  /\ \/ submitStopTicket(calls + 1, isBid, quantity, stopPrice)
                 \/ \E distance \in LimitDistances :
                       /\ Beyond(isBid, stopPrice, distance) \in Prices
                       /\ submitStopLimitTicket(calls + 1, isBid, quantity,
                              Beyond(isBid, stopPrice, distance), stopPrice)
              /\ Count("initial", calls + 1, quantity)
    /\ UNCHANGED ticketId

-----------------------------------------------------------------------------
(* The functions that createOrders draws from.                             *)

\* The price of the edge a function looks at; none if it is null.
BestAsk(p) == IsEdge(TRUE, p)
TopBid(p) == IsEdge(FALSE, p)

market ==
    \E isBid \in BOOLEAN, quantity \in Quantities :
        /\ submitMarketTicket(isBid, quantity)
        /\ CountId("market", quantity)

\* A slip: a price at the opposite edge is not drawn again.
StaysOutAtEdge(isBid, levelPrice) ==
    \E p \in Prices : IsEdge(isBid, p) /\ IF isBid THEN levelPrice <= p ELSE levelPrice >= p

\* The loop ends with a bid below bestAsk or an ask above topBid.
StaysOut(isBid, levelPrice) ==
    \E p \in Prices : IsEdge(isBid, p) /\ IF isBid THEN levelPrice < p ELSE levelPrice > p

\* Also cancelLimit, and modifyLimit after a look at topBid.
addLimit ==
    \E isBid \in BOOLEAN, quantity \in Quantities, levelPrice \in Prices :
        /\ StaysOut(isBid, levelPrice)
        /\ submitLimitTicket(ticketId, isBid, quantity, levelPrice)
        /\ CountId("limit", quantity)

\* One beyond the opposite edge, within the prices of the model.
addLimitMarket ==
    \E isBid \in BOOLEAN, quantity \in Quantities, p \in Prices :
        LET levelPrice == IF isBid THEN p + 1 ELSE p - 1
        IN  /\ \E q \in Prices : TopBid(q)
            /\ IsEdge(isBid, p)
            /\ levelPrice \in Prices
            /\ submitLimitTicket(ticketId, isBid, quantity, levelPrice)
            /\ CountId("limit market", quantity)

\* A slip: a stop at the opposite edge is not drawn again.
WaitsAtEdge(isBid, stopPrice) ==
    \E p \in Prices : IsEdge(isBid, p) /\ IF isBid THEN stopPrice >= p ELSE stopPrice <= p

\* The loop ends with a buy stop above bestAsk or a sell stop below topBid.
Waits(isBid, stopPrice) ==
    \E p \in Prices : IsEdge(isBid, p) /\ IF isBid THEN stopPrice > p ELSE stopPrice < p

\* Also cancelStop and modifyStop.
addStop ==
    \E isBid \in BOOLEAN, quantity \in Quantities, stopPrice \in Prices :
        /\ \E q \in Prices : TopBid(q)
        /\ Waits(isBid, stopPrice)
        /\ submitStopTicket(ticketId, isBid, quantity, stopPrice)
        /\ CountId("stop", quantity)

\* Also cancelStopLimit and modifyStopLimit.
addStopLimit ==
    \E isBid \in BOOLEAN, quantity \in Quantities, stopPrice \in Prices, distance \in LimitDistances :
        /\ \E q \in Prices : TopBid(q)
        /\ Waits(isBid, stopPrice)
        /\ Beyond(isBid, stopPrice, distance) \in Prices
        /\ submitStopLimitTicket(ticketId, isBid, quantity,
                                 Beyond(isBid, stopPrice, distance), stopPrice)
        /\ CountId("stop", quantity)

\* getBestAsk() or getTopBid() is null, and a function of createOrders takes its
\* price.  All but market and addLimit look at topBid whatever the side.
nullEdge ==
    /\ \/ \A p \in Prices : ~BestAsk(p)
       \/ \A p \in Prices : ~TopBid(p)
    /\ crashed' = TRUE
    /\ UNCHANGED <<ticketId, calls, last, vars>>

createOrders ==
    /\ Drawing
    /\ market \/ addLimit \/ addLimitMarket \/ addStop \/ addStopLimit \/ nullEdge

-----------------------------------------------------------------------------
GeneratorInit ==
    /\ Init
    /\ ticketId = FirstTicketId
    /\ calls = 0
    /\ crashed = FALSE
    /\ last = [kind |-> "none", id |-> 0, shares |-> 0]

Generate == Ready /\ (initialLimit \/ initialStop \/ createOrders)

GeneratorNext == Generate \/ (Engine /\ UNCHANGED generatorVars)

\* main is one thread: it goes on while there is something to do.
GeneratorSpec ==
    /\ GeneratorInit
    /\ [][GeneratorNext]_<<vars, generatorVars>>
    /\ WF_<<vars, generatorVars>>(GeneratorNext)

-----------------------------------------------------------------------------
Returned(kinds) == Idle /\ last.kind \in kinds

\* A limit order of createInitialOrders, and one that the price loops of addLimit
\* let pass, is not matched: when the call returns it rests with all its
\* shares.  The loops' comparisons have to fit those of the engine.
GeneratedLimitsRest ==
    Returned({"limit"}) =>
        /\ last.id \in DOMAIN orderMap
        /\ orderMap[last.id].quantity = last.shares
        /\ IsLimit(last.id)

\* A stop that the price loops let pass is not triggered by its own submission:
\* when the call returns it waits with all its shares.
GeneratedStopsWait ==
    Returned({"stop"}) =>
        /\ last.id \in DOMAIN orderMap
        /\ orderMap[last.id].quantity = last.shares
        /\ ~IsLimit(last.id)

\* The counter never comes to the id of a ticket that is alive, the numbers of
\* the initial orders included: emplace would not map the new ticket.
NextIdIsFree ==
    /\ Drawing => ticketId \notin DOMAIN orderMap
    /\ calls \in InitialLimits \cup InitialStops => calls + 1 \notin DOMAIN orderMap

\* This client does not modify tickets, so its book never crosses, in the middle
\* of calls included: the orders of addLimitMarket are priced beyond the opposite
\* edge and rest with what is left of them.
BookNeverCrosses == ~Crossed

\* createInitialOrders and createOrders return, or the program crashes.
BenchmarkEnds == <>(crashed \/ (Idle /\ calls = AllCalls))

=============================================================================
