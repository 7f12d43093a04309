------------------------- MODULE PriceTimePriority --------------------------
(***************************************************************************)
(* What README.md:74 promises of the limit books, without levels, queues   *)
(* or loops: the resting orders stand in one line in the order in which    *)
(* they arrived, and whatever trades takes from the best price first and,  *)
(* at that price, from the order that arrived first.                       *)
(***************************************************************************)
EXTENDS Integers, Sequences, SequencesExt

CONSTANTS OrderIds, OrderPrices

VARIABLES
    line,     \* ids of the resting orders in order of arrival
    order,    \* id -> side, price and quantity of a resting order
    matching  \* an incoming order is being filled

priorityVars == <<line, order, matching>>

Order == [isBid : BOOLEAN, price : OrderPrices, quantity : Nat]

Better(isBid, p, q) == IF isBid THEN p > q ELSE p < q

\* The order that is next to trade on its side of the book.
IsFirst(id) ==
    \A other \in DOMAIN order \ {id} :
        order[other].isBid = order[id].isBid =>
            \/ Better(order[id].isBid, order[id].price, order[other].price)
            \/ /\ order[id].price = order[other].price
               /\ \E i, j \in DOMAIN line : i < j /\ line[i] = id /\ line[j] = other

Changes(id, ids) ==
    /\ DOMAIN order' = ids
    /\ order'[id] \in Order
    /\ \A other \in ids \ {id} : order'[other] = order[other]

Arrive(id) ==
    /\ id \notin DOMAIN order
    /\ line' = Append(line, id)
    /\ Changes(id, DOMAIN order \cup {id})

Leave(id) ==
    /\ \E i \in DOMAIN line : line[i] = id /\ line' = RemoveAt(line, i)
    /\ order' = Restrict(order, DOMAIN order \ {id})

\* An order that its owner modifies goes to the end of the line.
Rejoin(id) ==
    /\ \E i \in DOMAIN line : line[i] = id /\ line' = Append(RemoveAt(line, i), id)
    /\ Changes(id, DOMAIN order)

\* The first order of a side leaves with all its shares, or gives some of them
\* and keeps its place.
Trade(id) ==
    /\ IsFirst(id)
    /\ \/ Leave(id)
       \/ /\ Changes(id, DOMAIN order)
          /\ order'[id] = [order[id] EXCEPT !.quantity = order'[id].quantity]
          /\ order'[id].quantity < order[id].quantity
          /\ UNCHANGED line

PriorityInit ==
    /\ line = <<>>
    /\ order = [id \in {} |-> 0]
    /\ matching = FALSE

PriorityNext ==
    /\ matching' \in BOOLEAN
    /\ \/ ~matching /\ \E id \in OrderIds : Arrive(id)
       \/ ~matching /\ \E id \in DOMAIN order : Leave(id) \/ Rejoin(id)
       \/ matching /\ \E id \in DOMAIN order : Trade(id)
       \/ UNCHANGED <<line, order>>

PrioritySpec == PriorityInit /\ [][PriorityNext]_priorityVars

=============================================================================
