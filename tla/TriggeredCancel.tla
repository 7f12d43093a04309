--------------------------- MODULE TriggeredCancel --------------------------
(***************************************************************************)
(* A client that knows a ticket as a stop-limit ticket and cancels it as   *)
(* one, or modifies it, after the engine has turned it into a limit        *)
(* ticket.  The client is not told of the trigger, so it has no better     *)
(* call to make, and the two calls accept every id in orderMap.            *)
(***************************************************************************)
EXTENDS MatchingEngine

VARIABLE stopLimits  \* ids submitted with submitStopLimitTicket

\* cancel and deleteStopLevel on a limit ticket.  If it empties the level,
\* deleteStopLevel frees it and erases its price from stopMap.  The limit map
\* and the limit tree keep the level, which now has no ticket.
CancelledAsStop(id) ==
    LET k == orderMap[id].parentLevel
        left == RemoveFirst(levels[k].orders, id)
        cut == [levels EXCEPT ![k].orders = left,
                              ![k].totalVolume = @ - orderMap[id].quantity]
    IN  IF left = <<>> THEN Without(cut, <<"stop", k[2]>>) ELSE cut

\* cancelStopLimitTicket.
CancelTriggered(id) ==
    /\ Idle /\ IsLimit(id)
    /\ levels' = CancelledAsStop(id)
    /\ orderMap' = Without(orderMap, id)
    /\ UNCHANGED <<pc, taker>>

\* modifyStopLimitTicket: the ticket waits for a trigger again.
ModifyTriggered(id, newShares, newLimitPrice, newStopPrice) ==
    LET isBid == orderMap[id].isBid
        k == StopLevel(isBid, newStopPrice)
    IN  /\ Idle /\ IsLimit(id)
        /\ levels' = Enqueue(CancelledAsStop(id), k, isBid, id, newShares)
        /\ orderMap' = [orderMap EXCEPT ![id] = NewTicket(isBid, newShares, newLimitPrice, k)]
        /\ UNCHANGED <<pc, taker>>

SubmitStopLimit(id) ==
    \E isBid \in BOOLEAN, quantity \in Quantities, levelPrice, stopPrice \in Prices :
        submitStopLimitTicket(id, isBid, quantity, levelPrice, stopPrice)

\* Nothing follows the removal of a level that stays in the book: what the
\* engine reads from the freed level then is undefined.
CancelNext ==
    /\ NoEmptyLevel
    /\ \/ \E id \in Ids : SubmitStopLimit(id) /\ stopLimits' = stopLimits \cup {id}
       \/ Next /\ stopLimits' = stopLimits \cap (DOMAIN orderMap' \cup {taker'.id})
       \/ \E id \in stopLimits \cap DOMAIN orderMap :
             /\ \/ CancelTriggered(id)
                \/ \E newShares \in Quantities, newLimitPrice, newStopPrice \in Prices :
                      ModifyTriggered(id, newShares, newLimitPrice, newStopPrice)
             /\ UNCHANGED stopLimits

CancelSpec == Init /\ stopLimits = {} /\ [][CancelNext]_<<vars, stopLimits>>

\* README.md:87: "All four order types support full cancel and modify
\* operations".  Yet the cancel or modification of a triggered stop-limit order
\* leaves a level without tickets, and freed, in the book it is removed from.
CancelLeavesNoEmptyLevel == NoEmptyLevel

=============================================================================
