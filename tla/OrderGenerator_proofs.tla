------------------------ MODULE OrderGenerator_proofs ------------------------
(***************************************************************************)
(* Theorems about OrderGenerator: its ids are free, its book never         *)
(* crosses, and the orders it means to rest or to wait do so.              *)
(***************************************************************************)
EXTENDS OrderGenerator, MatchingEngine_proofs

allVars == <<vars, generatorVars>>

InitialCalls == NumberOfOrders + NumberOfStops

-----------------------------------------------------------------------------
(* The generator as a client: it submits, it never cancels or modifies.    *)

\* Every call it makes is a submission, and a crash leaves the engine alone.
LEMMA GenerateSubmits ==
    ASSUME Generate
    PROVE  Submit \/ UNCHANGED vars
<1>1. CASE initialLimit
  <2>1. PICK quantity \in Quantities, levelPrice \in Prices :
            submitLimitTicket(calls + 1, levelPrice < CentreOfBook, quantity, levelPrice)
    BY <1>1 DEF initialLimit
  <2>2. calls + 1 \in Ids /\ (levelPrice < CentreOfBook) \in BOOLEAN
    BY <2>1 DEF submitLimitTicket, Fresh
  <2> QED
    BY <2>1, <2>2 DEF Submit
<1>2. CASE initialStop
  <2>1. PICK quantity \in Quantities, stopPrice \in Prices :
            \/ submitStopTicket(calls + 1, stopPrice > CentreOfBook, quantity, stopPrice)
            \/ \E price \in Prices :
                  submitStopLimitTicket(calls + 1, stopPrice > CentreOfBook, quantity,
                                        price, stopPrice)
    BY <1>2 DEF initialStop
  <2>2. calls + 1 \in Ids /\ (stopPrice > CentreOfBook) \in BOOLEAN
    BY <2>1 DEF submitStopTicket, submitStopLimitTicket, Fresh
  <2> QED
    BY <2>1, <2>2 DEF Submit
<1>3. CASE market
  BY <1>3 DEF market, Submit
<1>4. CASE addLimit
  BY <1>4 DEF addLimit, submitLimitTicket, Fresh, Submit
<1>5. CASE addLimitMarket
  <2>1. PICK isBid \in BOOLEAN, quantity \in Quantities, levelPrice \in Prices :
            submitLimitTicket(ticketId, isBid, quantity, levelPrice)
    BY <1>5 DEF addLimitMarket
  <2>2. ticketId \in Ids
    BY <2>1 DEF submitLimitTicket, Fresh
  <2> QED
    BY <2>1, <2>2 DEF Submit
<1>6. CASE addStop
  BY <1>6 DEF addStop, submitStopTicket, Fresh, Submit
<1>7. CASE addStopLimit
  <2>1. PICK isBid \in BOOLEAN, quantity \in Quantities, stopPrice \in Prices, price \in Prices :
            submitStopLimitTicket(ticketId, isBid, quantity, price, stopPrice)
    BY <1>7 DEF addStopLimit
  <2>2. ticketId \in Ids
    BY <2>1 DEF submitStopLimitTicket, Fresh
  <2> QED
    BY <2>1, <2>2 DEF Submit
<1>8. CASE nullEdge
  BY <1>8 DEF nullEdge
<1> QED
  BY <1>1, <1>2, <1>3, <1>4, <1>5, <1>6, <1>7, <1>8 DEF Generate, createOrders

\* So its steps are steps of the engine's specification, and not modifications.
LEMMA GeneratorSteps ==
    ASSUME [GeneratorNext]_allVars
    PROVE  Submit \/ Engine \/ UNCHANGED vars
BY GenerateSubmits DEF GeneratorNext, allVars

\* The invariant of the engine holds for this client.
LEMMA GeneratorKeepsInvariant ==
    ASSUME PositiveQuantities, IInv, [GeneratorNext]_allVars
    PROVE  IInv'
<1>1. [Next]_vars
  BY GeneratorSteps DEF Next
<1> QED
  BY <1>1, NextInvariant

-----------------------------------------------------------------------------
(* The book never crosses.                                                 *)

\* If every quantity drawn is positive, as the distributions of the generator
\* make it, then bids and asks never overlap, in the middle of calls included:
\* no function of createOrders modifies a limit ticket.
THEOREM GeneratedBookNeverCrosses ==
    ASSUME PositiveQuantities
    PROVE  GeneratorSpec => []BookNeverCrosses
<1>1. GeneratorInit => IInv /\ BookNeverCrosses
  <2>1. Init => ~Crossed
    BY DEF Init, Crossed, BookPrices
  <2> QED
    BY <2>1, InitInvariant DEF GeneratorInit, BookNeverCrosses
<1>2. IInv /\ BookNeverCrosses /\ [GeneratorNext]_allVars => IInv' /\ BookNeverCrosses'
  <2> SUFFICES ASSUME IInv, BookNeverCrosses, [GeneratorNext]_allVars
               PROVE  IInv' /\ BookNeverCrosses'
    OBVIOUS
  <2>1. CASE Submit \/ Engine
    BY <2>1, StepsThatDoNotCross, GeneratorKeepsInvariant DEF BookNeverCrosses
  <2>2. CASE UNCHANGED vars
    BY <2>2, GeneratorKeepsInvariant DEF BookNeverCrosses, Crossed, BookPrices, vars
  <2> QED
    BY <2>1, <2>2, GeneratorSteps
<1> QED
  BY <1>1, <1>2, PTL DEF GeneratorSpec, allVars

-----------------------------------------------------------------------------
(* The ids in use: those of the tickets, and that of a limit order that is *)
(* being matched and may yet rest.                                         *)

AliveIds == DOMAIN orderMap \cup (IF InLoop("limit") THEN {taker.id} ELSE {})

IdsInUse ==
    /\ calls \in Nat /\ ticketId \in Nat /\ ticketId >= FirstTicketId
    /\ \A id \in AliveIds :
          /\ id \in Nat
          /\ id < ticketId
          /\ calls <= InitialCalls => id <= calls

\* The return of marketOrderHelper keeps the taker's id, or the taker is done.
LEMMA SweepReturnsId ==
    ASSUME taker \in Taker, NEW executed, SweepReturns(executed)
    PROVE  /\ pc' = taker.then
           /\ taker.then # "stops" => taker'.id = taker.id
<1> DEFINE total == taker.executed + executed
           nothing == 0
<1>1. CASE taker.then # "stops"
  <2>1. taker' = [taker EXCEPT !.sweep = nothing, !.executed = total]
    BY <1>1 DEF SweepReturns, Run
  <2> HIDE DEF total, nothing
  <2>2. taker'.id = taker.id
    BY <2>1 DEF Taker
  <2> QED
    BY <1>1, <2>2 DEF SweepReturns, Run
<1>2. CASE taker.then = "stops"
  BY <1>2 DEF SweepReturns, Run
<1> QED
  BY <1>1, <1>2

\* No step of the engine brings an id that was not in use.
LEMMA EngineUsesNoNewId ==
    ASSUME IInv, Engine
    PROVE  AliveIds' \subseteq AliveIds
<1>1. taker \in Taker /\ LevelsOK(levels)
  BY DEF IInv, TypeOK, LevelsOK
<1> SUFFICES /\ InLoop("limit")' => InLoop("limit") /\ taker'.id = taker.id
             /\ DOMAIN orderMap' \subseteq AliveIds
  BY DEF AliveIds
<1>2. CASE FillHead
  <2>1. PICK sweep, executed, head :
            /\ taker' = [taker EXCEPT !.sweep = sweep, !.executed = executed]
            /\ orderMap' = Without(orderMap, head)
    BY <1>2 DEF FillHead
  <2>2. taker'.id = taker.id /\ taker'.then = taker.then
    BY <1>1, <2>1 DEF Taker
  <2> QED
    BY <1>2, <2>1, <2>2 DEF FillHead, InLoop, AliveIds, Without, Restrict
<1>3. CASE PartiallyFillHead
  <2>1. SweepReturns(taker.sweep) /\ pc = "sweep" /\ DOMAIN orderMap' = DOMAIN orderMap
    BY <1>3 DEF PartiallyFillHead
  <2> QED
    BY <1>1, <2>1, SweepReturnsId DEF InLoop, AliveIds, Taker
<1>4. CASE EndSweep
  <2>1. SweepReturns(0) /\ pc = "sweep" /\ orderMap' = orderMap
    BY <1>4 DEF EndSweep
  <2> QED
    BY <1>1, <2>1, SweepReturnsId DEF InLoop, AliveIds, Taker
<1>5. CASE limitOrderAsMarketOrder \/ existingOrderAsMarketOrder
  <2>1. PICK p \in Prices : IsEdge(taker.isBid, p) /\ (SweepRest(p) \/ SweepLevel(p))
    BY <1>5 DEF limitOrderAsMarketOrder, existingOrderAsMarketOrder, AcceptsEdge
  <2>2. pc \in Loops \ {"sweep"} /\ Maker(p) \in DOMAIN levels
    BY <1>5, <2>1, EdgeIsLevel
       DEF limitOrderAsMarketOrder, existingOrderAsMarketOrder, Loops
  <2>3. pc' = "sweep" /\ (taker'.then = "stops" \/ (taker'.then = pc /\ taker'.id = taker.id))
    <3>1. CASE SweepRest(p)
      BY <1>1, <3>1, SweepRestTaker
    <3>2. CASE SweepLevel(p)
      BY <1>1, <2>2, <3>2, SweepLevelTaker
    <3> QED
      BY <2>1, <3>1, <3>2
  <2>4. DOMAIN orderMap' \subseteq DOMAIN orderMap
    BY <1>5 DEF limitOrderAsMarketOrder, existingOrderAsMarketOrder, Without, Restrict
  <2> QED
    BY <2>2, <2>3, <2>4 DEF InLoop, AliveIds
<1>6. CASE LimitLoopEnds
  <2>1. pc = "limit" /\ pc' \in {"idle", "stops"}
    BY <1>6 DEF LimitLoopEnds, Return, Run
  <2>2. DOMAIN orderMap' \subseteq DOMAIN orderMap \cup {taker.id}
    BY <1>6 DEF LimitLoopEnds, Rest, With
  <2> QED
    BY <2>1, <2>2 DEF InLoop, AliveIds
<1>7. CASE ConvertLoopEnds
  <2>1. DOMAIN orderMap' = DOMAIN orderMap
    BY <1>7 DEF ConvertLoopEnds
  <2>2. pc' = "stops"
    BY <1>7 DEF ConvertLoopEnds, Run
  <2> QED
    BY <2>1, <2>2 DEF InLoop, AliveIds
<1>8. CASE TriggerStop
  <2>1. \E quantity : Run("sweep", MarketTaker(taker.isBid, quantity))
    BY <1>8 DEF TriggerStop
  <2>2. pc' = "sweep" /\ taker'.then = "stops"
    BY <2>1 DEF Run, MarketTaker, NoTaker
  <2>3. DOMAIN orderMap' \subseteq DOMAIN orderMap
    BY <1>8 DEF TriggerStop, Without, Restrict
  <2> QED
    BY <2>2, <2>3 DEF InLoop, AliveIds
<1>9. CASE TriggerStopLimit
  BY <1>9 DEF TriggerStopLimit, Run, InLoop, AliveIds
<1>10. CASE StopsDone
  BY <1>10 DEF StopsDone, Return, InLoop, AliveIds
<1> QED
  BY <1>2, <1>3, <1>4, <1>5, <1>6, <1>7, <1>8, <1>9, <1>10 DEF Engine

\* A submission uses the id it is given and no other.
LEMMA SubmissionUsesItsId ==
    ASSUME Idle, NEW id, NEW isBid, NEW quantity, NEW price, NEW stopPrice,
           \/ submitMarketTicket(isBid, quantity)
           \/ submitLimitTicket(id, isBid, quantity, price)
           \/ submitStopTicket(id, isBid, quantity, stopPrice)
           \/ submitStopLimitTicket(id, isBid, quantity, price, stopPrice)
    PROVE  AliveIds' \subseteq AliveIds \cup {id}
<1>1. ASSUME Run("sweep", MarketTaker(isBid, quantity)), orderMap' = orderMap
      PROVE  AliveIds' \subseteq AliveIds
  <2>1. pc' = "sweep" /\ taker'.then = "stops"
    BY <1>1 DEF Run, MarketTaker, NoTaker
  <2> QED
    BY <1>1, <2>1 DEF AliveIds, InLoop
<1>2. ASSUME Run("limit", LimitTaker(id, isBid, quantity, price)), orderMap' = orderMap
      PROVE  AliveIds' \subseteq AliveIds \cup {id}
  <2>1. pc' = "limit" /\ taker'.id = id
    BY <1>2 DEF Run, LimitTaker, NoTaker
  <2> QED
    BY <1>2, <2>1 DEF AliveIds, InLoop
<1>3. ASSUME NEW limit, NEW k, Rest(id, isBid, quantity, limit, k), UNCHANGED <<pc, taker>>
      PROVE  AliveIds' \subseteq AliveIds \cup {id}
  <2>1. DOMAIN orderMap' = DOMAIN orderMap \cup {id}
    BY <1>3 DEF Rest, With
  <2> QED
    BY <1>3, <2>1 DEF AliveIds, InLoop, Idle
<1> QED
  BY <1>1, <1>2, <1>3 DEF submitMarketTicket, submitLimitTicket, submitStopTicket,
                         submitStopLimitTicket

\* Every call uses one id: in createInitialOrders the number of the call, in
\* createOrders that of the counter, which then goes on.
LEMMA CallsUseOneId ==
    ASSUME Generate, ~nullEdge
    PROVE  \/ /\ calls \in InitialLimits \cup InitialStops
              /\ AliveIds' \subseteq AliveIds \cup {calls + 1}
              /\ calls' = calls + 1 /\ ticketId' = ticketId
           \/ /\ Drawing
              /\ AliveIds' \subseteq AliveIds \cup {ticketId}
              /\ calls' = calls + 1 /\ ticketId' = ticketId + 1
<1>1. Idle
  BY DEF Generate, Ready
<1>2. CASE initialLimit
  BY <1>1, <1>2, SubmissionUsesItsId DEF initialLimit, Count
<1>3. CASE initialStop
  <2>1. \E isBid, quantity, price, stopPrice :
            \/ submitStopTicket(calls + 1, isBid, quantity, stopPrice)
            \/ submitStopLimitTicket(calls + 1, isBid, quantity, price, stopPrice)
    BY <1>3 DEF initialStop
  <2>2. AliveIds' \subseteq AliveIds \cup {calls + 1}
    BY <1>1, <2>1, SubmissionUsesItsId
  <2> QED
    BY <1>3, <2>2 DEF initialStop, Count
<1>4. CASE createOrders
  <2>1. \E isBid, quantity, price, stopPrice :
            \/ submitMarketTicket(isBid, quantity)
            \/ submitLimitTicket(ticketId, isBid, quantity, price)
            \/ submitStopTicket(ticketId, isBid, quantity, stopPrice)
            \/ submitStopLimitTicket(ticketId, isBid, quantity, price, stopPrice)
    BY <1>4 DEF createOrders, market, addLimit, addLimitMarket, addStop, addStopLimit
  <2>2. AliveIds' \subseteq AliveIds \cup {ticketId}
    BY <1>1, <2>1, SubmissionUsesItsId
  <2> QED
    BY <1>4, <2>2 DEF createOrders, market, addLimit, addLimitMarket, addStop,
                      addStopLimit, CountId, Count
<1> QED
  BY <1>2, <1>3, <1>4 DEF Generate

\* The ids in use stay below the counter and, among the initial orders, below the
\* number of the next call.
LEMMA IdsInUseStep ==
    ASSUME IInv, IdsInUse, [GeneratorNext]_allVars
    PROVE  IdsInUse'
<1>1. /\ NumberOfOrders \in Nat /\ NumberOfStops \in Nat /\ NumberOfDraws \in Nat
      /\ FirstTicketId \in Nat /\ InitialCalls \in Nat /\ InitialCalls < FirstTicketId
  BY NumbersAreNatural, InitialIdsEndBeforeFirst DEF InitialCalls
<1>2. CASE Generate /\ ~nullEdge
  <2>1. CASE /\ calls \in InitialLimits \cup InitialStops
             /\ AliveIds' \subseteq AliveIds \cup {calls + 1}
             /\ calls' = calls + 1 /\ ticketId' = ticketId
    <3>1. calls \in Nat /\ calls < InitialCalls
      BY <1>1, <2>1 DEF InitialLimits, InitialStops, InitialCalls
    <3> QED
      BY <1>1, <2>1, <3>1 DEF IdsInUse
  <2>2. CASE /\ Drawing
             /\ AliveIds' \subseteq AliveIds \cup {ticketId}
             /\ calls' = calls + 1 /\ ticketId' = ticketId + 1
    <3>1. calls \in Nat /\ calls >= InitialCalls
      BY <1>1, <2>2 DEF Drawing, InitialCalls, AllCalls
    <3>2. calls' \in Nat /\ ~(calls' <= InitialCalls)
      BY <1>1, <2>2, <3>1
    <3> QED
      BY <1>1, <2>2, <3>2 DEF IdsInUse
  <2> QED
    BY <1>2, <2>1, <2>2, CallsUseOneId
<1>3. CASE nullEdge \/ UNCHANGED allVars
  <2>1. UNCHANGED <<ticketId, calls, vars>>
    BY <1>3 DEF nullEdge, allVars, generatorVars
  <2> QED
    BY <2>1 DEF vars, IdsInUse, AliveIds, InLoop
<1>4. CASE Engine /\ UNCHANGED generatorVars
  BY <1>4, EngineUsesNoNewId DEF IdsInUse, generatorVars
<1> QED
  BY <1>2, <1>3, <1>4 DEF GeneratorNext

\* If every quantity drawn is positive, then the counter never comes to the id of
\* a ticket that is alive, nor do the numbers of the initial orders: emplace maps
\* every new ticket.
THEOREM IdsAreFree ==
    ASSUME PositiveQuantities
    PROVE  GeneratorSpec => []NextIdIsFree
<1>1. GeneratorInit => IInv /\ IdsInUse
  <2>1. GeneratorInit => IdsInUse
    BY NumbersAreNatural DEF GeneratorInit, Init, IdsInUse, AliveIds, InLoop
  <2> QED
    BY <2>1, InitInvariant DEF GeneratorInit
<1>2. IInv /\ IdsInUse /\ [GeneratorNext]_allVars => IInv' /\ IdsInUse'
  BY GeneratorKeepsInvariant, IdsInUseStep
<1>3. IdsInUse => NextIdIsFree
  <2>1. NumberOfOrders \in Nat /\ NumberOfStops \in Nat
    BY NumbersAreNatural
  <2> QED
    BY <2>1 DEF IdsInUse, NextIdIsFree, AliveIds, InitialLimits, InitialStops, InitialCalls
<1> QED
  BY <1>1, <1>2, <1>3, PTL DEF GeneratorSpec, allVars

-----------------------------------------------------------------------------
(* Orders that are to rest and stops that are to wait.  A limit order of   *)
(* the generator is either in its one round of the limit loop, at a limit  *)
(* that no edge accepts, or in the book with all its shares.  Among the    *)
(* initial orders no edge accepts because the centre of the book is        *)
(* between bids and asks.                                                  *)

LimitInHand ==
    last.kind = "limit" =>
        \/ Idle /\ GeneratedLimitsRest
        \/ /\ pc = "limit"
           /\ taker.id = last.id /\ taker.rest = last.shares /\ taker.rest # 0
           /\ \A p \in Prices : ~AcceptsEdge(p)

StopInHand == last.kind = "stop" => Idle /\ GeneratedStopsWait

CentreDivides ==
    calls <= NumberOfOrders =>
        /\ \A p \in BookPrices("buy") : p < CentreOfBook
        /\ \A p \in BookPrices("sell") : p >= CentreOfBook
        /\ pc = "limit" => (taker.isBid <=> taker.limit < CentreOfBook)
        /\ last.kind \in {"none", "limit"}
        /\ last.kind = "none" => Idle

GInv == IdsInUse /\ LimitInHand /\ StopInHand /\ CentreDivides

\* A limit order at a limit that no edge accepts is in hand.
LEMMA LimitOrderInHand ==
    ASSUME NEW id, NEW isBid \in BOOLEAN, NEW quantity \in Nat \ {0}, NEW price \in Prices,
           submitLimitTicket(id, isBid, quantity, price),
           Count("limit", id, quantity),
           \A p \in Prices : IsEdge(isBid, p) => ~Accepts(isBid, price, p)
    PROVE  LimitInHand' /\ StopInHand' /\ taker'.isBid = isBid /\ taker'.limit = price
           /\ pc' = "limit" /\ levels' = levels
<1>1. /\ taker'.id = id /\ taker'.isBid = isBid /\ taker'.limit = price
      /\ taker'.rest = quantity /\ pc' = "limit" /\ levels' = levels
  BY DEF submitLimitTicket, Run, LimitTaker, NoTaker
<1>2. last'.kind = "limit" /\ last'.id = id /\ last'.shares = quantity
  BY DEF Count
<1>3. \A p \in Prices : ~AcceptsEdge(p)'
  BY <1>1 DEF AcceptsEdge, IsEdge, BookPrices
<1> QED
  BY <1>1, <1>2, <1>3 DEF LimitInHand, StopInHand

\* When no edge accepts, the next step of a limit order with shares is to rest.
LEMMA OrderInHandRests ==
    ASSUME LimitInHand, Engine, UNCHANGED generatorVars, last.kind = "limit"
    PROVE  /\ LimitInHand' /\ pc = "limit" /\ pc' = "idle"
           /\ levels' = Enqueue(levels, LimitLevel(taker.isBid, taker.limit),
                                taker.isBid, taker.id, taker.rest)
<1>1. pc # "idle"
  BY DEF Engine, FillHead, PartiallyFillHead, EndSweep, limitOrderAsMarketOrder,
         LimitLoopEnds, existingOrderAsMarketOrder, ConvertLoopEnds, TriggerStop,
         TriggerStopLimit, StopsDone
<1>2. /\ pc = "limit"
      /\ taker.id = last.id /\ taker.rest = last.shares /\ taker.rest # 0
      /\ \A p \in Prices : ~AcceptsEdge(p)
  BY <1>1 DEF LimitInHand, Idle
<1>3. LimitLoopEnds
  BY <1>2 DEF Engine, FillHead, PartiallyFillHead, EndSweep, limitOrderAsMarketOrder,
              existingOrderAsMarketOrder, ConvertLoopEnds, TriggerStop,
              TriggerStopLimit, StopsDone
<1>4. /\ Rest(taker.id, taker.isBid, taker.rest, taker.limit,
              LimitLevel(taker.isBid, taker.limit))
      /\ pc' = "idle"
  BY <1>2, <1>3 DEF LimitLoopEnds, Return
<1>5. /\ last.id \in DOMAIN orderMap'
      /\ orderMap'[last.id].quantity = last.shares
      /\ orderMap'[last.id].parentLevel = LimitLevel(taker.isBid, taker.limit)
  BY <1>2, <1>4 DEF Rest, With, NewTicket
<1>6. GeneratedLimitsRest'
  BY <1>5 DEF GeneratedLimitsRest, Returned, IsLimit, LimitLevel, LimitBook, LimitBooks,
              generatorVars
<1> QED
  BY <1>2, <1>4, <1>6 DEF LimitInHand, Idle, Rest

\* A stop that waits beyond the edge is not triggered by its submission.
LEMMA StopsInHand ==
    ASSUME NEW id, NEW isBid \in BOOLEAN, NEW quantity, NEW price, NEW stopPrice \in Prices,
           Waits(isBid, stopPrice), Idle,
           \/ submitStopTicket(id, isBid, quantity, stopPrice)
           \/ submitStopLimitTicket(id, isBid, quantity, price, stopPrice),
           Count("stop", id, quantity)
    PROVE  StopInHand' /\ LimitInHand'
<1>1. ~TriggersAtOnce(isBid, stopPrice)
  BY EdgeIsUnique, MaxPriceIsNatural DEF TriggersAtOnce, Waits, Reached, Prices
<1>2. PICK limit : Rest(id, isBid, quantity, limit, StopLevel(isBid, stopPrice)) /\ pc' = pc
  BY <1>1 DEF submitStopTicket, submitStopLimitTicket
<1>3. last'.kind = "stop" /\ last'.id = id /\ last'.shares = quantity
  BY DEF Count
<1>4. /\ id \in DOMAIN orderMap' /\ orderMap'[id].quantity = quantity
      /\ orderMap'[id].parentLevel = <<"stop", stopPrice>>
  BY <1>2 DEF Rest, With, NewTicket, StopLevel
<1>5. GeneratedStopsWait'
  BY <1>3, <1>4 DEF GeneratedStopsWait, Returned, IsLimit, LimitBooks
<1> QED
  BY <1>2, <1>3, <1>5 DEF StopInHand, LimitInHand, Idle

\* A call leaves its order in hand, unless it is one that is to trade.
LEMMA CallsInHand ==
    ASSUME PositiveQuantities, IInv, GInv, Generate
    PROVE  LimitInHand' /\ StopInHand'
<1>1. Idle
  BY DEF Generate, Ready
<1>2. \A quantity \in Quantities : quantity \in Nat \ {0}
  BY QuantitiesAreNatural DEF PositiveQuantities
<1>3. CASE initialLimit
  <2>1. PICK quantity \in Quantities, levelPrice \in Prices :
            /\ submitLimitTicket(calls + 1, levelPrice < CentreOfBook, quantity, levelPrice)
            /\ Count("limit", calls + 1, quantity)
    BY <1>3 DEF initialLimit
  <2> DEFINE isBid == levelPrice < CentreOfBook
  <2>2. calls <= NumberOfOrders /\ CentreOfBook \in Nat
    BY <1>3, NumbersAreNatural DEF initialLimit, InitialLimits
  <2>3. isBid \in BOOLEAN
    OBVIOUS
  <2>4. ASSUME NEW p \in Prices, IsEdge(isBid, p)
        PROVE  ~Accepts(isBid, levelPrice, p)
    <3>1. p \in Nat /\ levelPrice \in Nat
      BY MaxPriceIsNatural DEF Prices
    <3>2. CASE isBid
      <4>1. p \in BookPrices("sell")
        BY <2>4, <3>2 DEF IsEdge, MakerBook, LimitBook
      <4>2. p >= CentreOfBook
        BY <2>2, <4>1 DEF GInv, CentreDivides
      <4> QED
        BY <2>2, <3>1, <3>2, <4>2 DEF Accepts
    <3>3. CASE ~isBid
      <4>1. p \in BookPrices("buy")
        BY <2>4, <3>3 DEF IsEdge, MakerBook, LimitBook
      <4>2. p < CentreOfBook
        BY <2>2, <4>1 DEF GInv, CentreDivides
      <4> QED
        BY <2>2, <3>1, <3>3, <4>2 DEF Accepts
    <3> QED
      BY <3>2, <3>3
  <2> HIDE DEF isBid
  <2> QED
    BY <1>2, <2>1, <2>3, <2>4, LimitOrderInHand DEF isBid
<1>4. CASE initialStop
  BY <1>4 DEF initialStop, Count, LimitInHand, StopInHand
<1>5. CASE market \/ addLimitMarket
  <2>1. last'.kind \in {"market", "limit market"}
    <3>1. ASSUME NEW kind, NEW shares, Count(kind, ticketId, shares)
          PROVE  last'.kind = kind
      BY <3>1 DEF Count
    <3> QED
      BY <1>5, <3>1 DEF market, addLimitMarket, CountId
  <2> QED
    BY <2>1 DEF LimitInHand, StopInHand
<1>6. CASE addLimit
  <2>1. PICK isBid \in BOOLEAN, quantity \in Quantities, levelPrice \in Prices :
            /\ StaysOut(isBid, levelPrice)
            /\ submitLimitTicket(ticketId, isBid, quantity, levelPrice)
            /\ Count("limit", ticketId, quantity)
    BY <1>6 DEF addLimit, CountId
  <2>2. \A p \in Prices : IsEdge(isBid, p) => ~Accepts(isBid, levelPrice, p)
    BY <2>1, EdgeIsUnique, MaxPriceIsNatural DEF StaysOut, Accepts, Prices
  <2> QED
    BY <1>2, <2>1, <2>2, LimitOrderInHand
<1>7. CASE addStop \/ addStopLimit
  <2>1. PICK isBid \in BOOLEAN, quantity \in Quantities, price, stopPrice \in Prices :
            /\ Waits(isBid, stopPrice)
            /\ \/ submitStopTicket(ticketId, isBid, quantity, stopPrice)
               \/ submitStopLimitTicket(ticketId, isBid, quantity, price, stopPrice)
            /\ Count("stop", ticketId, quantity)
    BY <1>7 DEF addStop, addStopLimit, CountId
  <2> QED
    BY <1>1, <2>1, StopsInHand
<1>8. CASE nullEdge
  <2>1. UNCHANGED <<last, vars>>
    BY <1>8 DEF nullEdge
  <2> QED
    BY <2>1 DEF GInv, LimitInHand, StopInHand, vars, Idle, GeneratedLimitsRest,
                GeneratedStopsWait, Returned, IsLimit, AcceptsEdge, IsEdge, BookPrices
<1> QED
  BY <1>3, <1>4, <1>5, <1>6, <1>7, <1>8 DEF Generate, createOrders

\* While the initial limit orders are made, the centre divides bids and asks.
LEMMA CentreStillDivides ==
    ASSUME IInv, GInv, [GeneratorNext]_allVars
    PROVE  CentreDivides'
<1>1. NumberOfOrders \in Nat /\ NumberOfStops \in Nat /\ calls \in Nat /\ CentreOfBook \in Nat
  BY NumbersAreNatural DEF GInv, IdsInUse
<1> SUFFICES ASSUME calls' <= NumberOfOrders
             PROVE  CentreDivides'
  BY DEF CentreDivides
<1>2. CASE Generate /\ ~nullEdge
  <2>1. calls' = calls + 1
    BY <1>2, CallsUseOneId
  <2>2. initialLimit
    <3>1. calls < NumberOfOrders
      BY <1>1, <2>1
    <3>2. ~(calls \in InitialStops) /\ ~Drawing
      BY <1>1, <3>1 DEF InitialStops, Drawing, AllCalls
    <3> QED
      BY <1>2, <3>2 DEF Generate, initialStop, createOrders
  <2>3. PICK quantity \in Quantities, levelPrice \in Prices :
            /\ submitLimitTicket(calls + 1, levelPrice < CentreOfBook, quantity, levelPrice)
            /\ Count("limit", calls + 1, quantity)
    BY <2>2 DEF initialLimit
  <2>4. /\ levels' = levels /\ pc' = "limit" /\ last'.kind = "limit"
        /\ taker'.isBid = (levelPrice < CentreOfBook) /\ taker'.limit = levelPrice
    BY <2>3 DEF submitLimitTicket, Run, LimitTaker, NoTaker, Count
  <2>5. calls <= NumberOfOrders
    BY <1>1, <2>1
  <2> QED
    BY <2>4, <2>5 DEF GInv, CentreDivides, BookPrices
<1>3. CASE nullEdge \/ UNCHANGED allVars
  <2>1. UNCHANGED <<calls, last, vars>>
    BY <1>3 DEF nullEdge, allVars, generatorVars
  <2> QED
    BY <2>1 DEF GInv, CentreDivides, vars, BookPrices, Idle
<1>4. CASE Engine /\ UNCHANGED generatorVars
  <2>1. calls <= NumberOfOrders /\ last' = last
    BY <1>4 DEF generatorVars
  <2>2. pc # "idle"
    BY <1>4 DEF Engine, FillHead, PartiallyFillHead, EndSweep, limitOrderAsMarketOrder,
                LimitLoopEnds, existingOrderAsMarketOrder, ConvertLoopEnds, TriggerStop,
                TriggerStopLimit, StopsDone
  <2>3. last.kind = "limit"
    BY <2>1, <2>2 DEF GInv, CentreDivides, Idle
  <2>4. /\ pc = "limit" /\ pc' = "idle"
        /\ levels' = Enqueue(levels, LimitLevel(taker.isBid, taker.limit),
                             taker.isBid, taker.id, taker.rest)
    BY <1>4, <2>3, OrderInHandRests DEF GInv
  <2>5. DOMAIN levels' = DOMAIN levels \cup {<<LimitBook(taker.isBid), taker.limit>>}
    BY <2>4 DEF Enqueue, With, LimitLevel
  <2>6. taker.isBid \in BOOLEAN /\ taker.limit \in Nat
    BY MaxPriceIsNatural DEF IInv, TypeOK, Taker, Prices
  <2>7. \A p \in BookPrices("buy")' : p < CentreOfBook
    BY <2>1, <2>4, <2>5 DEF BookPrices, LimitBook, GInv, CentreDivides
  <2>8. \A p \in BookPrices("sell")' : p >= CentreOfBook
    BY <1>1, <2>1, <2>4, <2>5, <2>6 DEF BookPrices, LimitBook, GInv, CentreDivides
  <2> QED
    BY <2>1, <2>3, <2>4, <2>7, <2>8 DEF CentreDivides
<1> QED
  BY <1>2, <1>3, <1>4 DEF GeneratorNext

\* Every step keeps the generator's invariant.
LEMMA GeneratorInvariantStep ==
    ASSUME PositiveQuantities, IInv, GInv, [GeneratorNext]_allVars
    PROVE  IInv' /\ GInv'
<1>1. ASSUME Generate
      PROVE  LimitInHand' /\ StopInHand'
  BY <1>1, CallsInHand
<1>2. ASSUME UNCHANGED allVars
      PROVE  LimitInHand' /\ StopInHand'
  BY <1>2 DEF allVars, vars, generatorVars, GInv, LimitInHand, StopInHand, Idle,
              GeneratedLimitsRest, GeneratedStopsWait, Returned, IsLimit, AcceptsEdge,
              IsEdge, BookPrices
<1>3. ASSUME Engine, UNCHANGED generatorVars
      PROVE  LimitInHand' /\ StopInHand'
  <2>1. LimitInHand'
    <3>1. CASE last.kind = "limit"
      BY <1>3, <3>1, OrderInHandRests DEF GInv
    <3>2. CASE last.kind # "limit"
      BY <1>3, <3>2 DEF generatorVars, LimitInHand
    <3> QED
      BY <3>1, <3>2
  <2>2. StopInHand'
    <3>1. pc # "idle"
      BY <1>3 DEF Engine, FillHead, PartiallyFillHead, EndSweep, limitOrderAsMarketOrder,
                  LimitLoopEnds, existingOrderAsMarketOrder, ConvertLoopEnds, TriggerStop,
                  TriggerStopLimit, StopsDone
    <3> QED
      BY <1>3, <3>1 DEF GInv, StopInHand, Idle, generatorVars
  <2> QED
    BY <2>1, <2>2
<1>4. LimitInHand' /\ StopInHand'
  BY <1>1, <1>2, <1>3 DEF GeneratorNext
<1>5. IdsInUse'
  BY IdsInUseStep DEF GInv
<1> QED
  BY <1>4, <1>5, CentreStillDivides, GeneratorKeepsInvariant DEF GInv

\* The generator's invariant holds in every state.
LEMMA GeneratorInvariant ==
    ASSUME PositiveQuantities
    PROVE  GeneratorSpec => [](IInv /\ GInv)
<1>1. GeneratorInit => IInv /\ GInv
  <2> SUFFICES ASSUME GeneratorInit
               PROVE  IInv /\ GInv
    OBVIOUS
  <2>1. IdsInUse
    BY NumbersAreNatural DEF GeneratorInit, Init, IdsInUse, AliveIds, InLoop
  <2>2. last.kind = "none" /\ Idle /\ DOMAIN levels = {}
    BY DEF GeneratorInit, Init, Idle
  <2>3. LimitInHand /\ StopInHand /\ CentreDivides
    BY <2>2 DEF LimitInHand, StopInHand, CentreDivides, BookPrices, Idle
  <2> QED
    BY <2>1, <2>3, InitInvariant DEF GeneratorInit, GInv
<1>2. IInv /\ GInv /\ [GeneratorNext]_allVars => IInv' /\ GInv'
  BY GeneratorInvariantStep
<1> QED
  BY <1>1, <1>2, PTL DEF GeneratorSpec, allVars

\* If every quantity drawn is positive, then a limit order of createInitialOrders,
\* and one that the price loops of addLimit let pass, rests with all its shares
\* when its call returns: the comparisons of the loops fit those of the engine.
THEOREM LimitsOfGeneratorRest ==
    ASSUME PositiveQuantities
    PROVE  GeneratorSpec => []GeneratedLimitsRest
<1>1. GInv => GeneratedLimitsRest
  BY DEF GInv, LimitInHand, GeneratedLimitsRest, Returned, Idle
<1> QED
  BY <1>1, GeneratorInvariant, PTL

\* Likewise a stop that the price loops let pass is not triggered by its own
\* submission and waits with all its shares when its call returns.
THEOREM StopsOfGeneratorWait ==
    ASSUME PositiveQuantities
    PROVE  GeneratorSpec => []GeneratedStopsWait
<1>1. GInv => GeneratedStopsWait
  BY DEF GInv, StopInHand, GeneratedStopsWait, Returned, Idle
<1> QED
  BY <1>1, GeneratorInvariant, PTL

=============================================================================
