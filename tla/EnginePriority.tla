--------------------------- MODULE EnginePriority ---------------------------
(***************************************************************************)
(* MatchingEngine implements PriceTimePriority.  The engine does not record *)
(* when an order arrived: a level's queue and the order of the levels must  *)
(* do.  The history variable arrivals records it, so that the queues can be *)
(* compared with what really happened.                                      *)
(***************************************************************************)
EXTENDS MatchingEngine

VARIABLE arrivals  \* ids of the tickets in the limit books in order of arrival

Resting == {id \in DOMAIN orderMap : orderMap[id].parentLevel[1] \in LimitBooks}

\* The line a of the ids R becomes b, that of S: who has come in goes to its end,
\* who has left goes out of it.  One step of the engine brings or takes one at most.
Follows(a, R, b, S) ==
    \/ S = R /\ b = a
    \/ \E id \in Ids \ R : S = R \cup {id} /\ b = Append(a, id)
    \/ \E i \in DOMAIN a :
          a[i] \in R /\ S = R \ {a[i]} /\ b = RemoveAt(a, i)

LineUp == Follows(arrivals, Resting, arrivals', Resting')

Rejoins(id) ==
    \E i \in DOMAIN arrivals :
        arrivals[i] = id /\ arrivals' = Append(RemoveAt(arrivals, i), id)

HistoryInit == Init /\ arrivals = <<>>

HistoryNext ==
    \/ /\ Submit \/ Cancels \/ ModifyStop \/ Engine
       /\ LineUp
    \/ \E id \in DOMAIN orderMap, newShares \in Quantities, newLimit \in Prices :
          /\ modifyLimitTicket(id, newShares, newLimit)
          /\ Rejoins(id)

HistorySpec == HistoryInit /\ [][HistoryNext]_<<vars, arrivals>>

RestingOrders ==
    [id \in Resting |->
        [isBid |-> orderMap[id].parentLevel[1] = "buy",
         price |-> orderMap[id].parentLevel[2],
         quantity |-> orderMap[id].quantity]]

Priority == INSTANCE PriceTimePriority WITH
    OrderIds <- Ids,
    OrderPrices <- Prices,
    line <- arrivals,
    order <- RestingOrders,
    matching <- pc = "sweep"

\* README.md:74: incoming orders fill "resting orders in strict price-time
\* priority".  Every loop iteration of the engine takes from the order that is
\* first by price and then by arrival, also when queues were cut by cancels,
\* joined by modified tickets or by triggered stop-limit orders, and in the
\* middle of a cascade of stops.
PriceTimePriority == Priority!PrioritySpec

=============================================================================
