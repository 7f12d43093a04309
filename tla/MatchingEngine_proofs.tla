----------------------- MODULE MatchingEngine_proofs ------------------------
(***************************************************************************)
(* Theorems about MatchingEngine, for every set of ids, every largest      *)
(* price and every set of positive quantities: types and queues; crossing; *)
(* the volume of a level; what the taker has traded, and what a sweep may  *)
(* take and must not forget; that every call runs out of work.             *)
(***************************************************************************)
EXTENDS MatchingEngine, SumsAndSequences

-----------------------------------------------------------------------------
(* Queues.  EveryTicketQueuedOnce is restated for any books ls, tickets om *)
(* and set out of tickets that are in no queue, so that a lemma can speak  *)
(* of the books before and after an operation.                             *)

LevelsOK(ls) == FunctionInto(ls, Books \X Prices, Level)

QueuesOK(ls, om, out) ==
    /\ \A k \in DOMAIN ls : \A i \in DOMAIN ls[k].orders :
          /\ ls[k].orders[i] \in DOMAIN om \ out
          /\ om[ls[k].orders[i]].parentLevel = k
    /\ \A k \in DOMAIN ls : \A i, j \in DOMAIN ls[k].orders :
          ls[k].orders[i] = ls[k].orders[j] => i = j
    /\ \A id \in DOMAIN om \ out :
          /\ om[id].parentLevel \in DOMAIN ls
          /\ \E i \in DOMAIN ls[om[id].parentLevel].orders :
                ls[om[id].parentLevel].orders[i] = id
    /\ \A k \in DOMAIN ls : ls[k].orders # <<>>

\* Taking the i-th ticket out of the queue of k, and the level with it if it
\* was the only one, keeps the books typed.
LEMMA UnlinkIsTyped ==
    ASSUME LevelsOK(levels), FunctionInto(orderMap, Ids, Ticket),
           NEW k \in DOMAIN levels, NEW i \in DOMAIN levels[k].orders,
           levels[k].orders[i] \in DOMAIN orderMap
    PROVE  LevelsOK(Unlink(levels, k, i))
<1> DEFINE queue == RemoveAt(levels[k].orders, i)
           left == [levels[k] EXCEPT
                       !.orders = RemoveAt(@, i),
                       !.totalVolume = @ - orderMap[levels[k].orders[i]].quantity]
<1>1. /\ levels[k] \in Level
      /\ levels[k].orders \in Seq(Ids)
      /\ i \in 1..Len(levels[k].orders)
      /\ orderMap[levels[k].orders[i]].quantity \in Nat
  BY DEF LevelsOK, FunctionInto, Level, Ticket
<1>2. queue \in Seq(Ids)
  BY <1>1, RemoveAtProperties
<1>3. left \in Level
  <2>1. ASSUME NEW level \in Level, NEW orders \in Seq(Ids), NEW volume \in Int
        PROVE  [level EXCEPT !.orders = orders, !.totalVolume = volume] \in Level
    BY DEF Level
  <2>2. levels[k].totalVolume - orderMap[levels[k].orders[i]].quantity \in Int
    BY <1>1 DEF Level
  <2> QED
    BY <1>1, <1>2, <2>1, <2>2
<1>4. Unlink(levels, k, i) =
          IF left.orders = <<>> THEN Without(levels, k) ELSE [levels EXCEPT ![k] = left]
  BY DEF Unlink
<1> QED
  BY <1>3, <1>4 DEF LevelsOK, FunctionInto, Without, Restrict

\* ... and makes that ticket, and no other, one that is in no queue.
LEMMA UnlinkQueues ==
    ASSUME LevelsOK(levels),
           NEW out, QueuesOK(levels, orderMap, out),
           NEW k \in DOMAIN levels, NEW i \in DOMAIN levels[k].orders,
           NEW om, NEW omOut,
           DOMAIN om \ omOut = (DOMAIN orderMap \ out) \ {levels[k].orders[i]},
           \A id \in DOMAIN om \ omOut : om[id].parentLevel = orderMap[id].parentLevel
    PROVE  QueuesOK(Unlink(levels, k, i), om, omOut)
<1> DEFINE old == levels[k].orders
           queue == RemoveAt(old, i)
           left == [levels[k] EXCEPT
                       !.orders = RemoveAt(@, i),
                       !.totalVolume = @ - orderMap[levels[k].orders[i]].quantity]
           ls == Unlink(levels, k, i)
<1>1. /\ levels[k] \in Level
      /\ old \in Seq(Ids)
      /\ i \in 1..Len(old)
      /\ Len(old) \in Nat
      /\ DOMAIN old = 1..Len(old)
  BY LenProperties DEF LevelsOK, FunctionInto, Level
<1>2. /\ queue \in Seq(Ids)
      /\ Len(queue) = Len(old) - 1
      /\ DOMAIN queue = 1..(Len(old) - 1)
      /\ \A j \in 1..(Len(old) - 1) : queue[j] = IF j < i THEN old[j] ELSE old[j + 1]
  <2>1. /\ queue \in Seq(Ids)
        /\ Len(queue) = Len(old) - 1
        /\ \A j \in 1..(Len(old) - 1) : queue[j] = IF j < i THEN old[j] ELSE old[j + 1]
    BY <1>1, RemoveAtProperties
  <2> QED
    BY <2>1, LenProperties
<1>3. left.orders = queue
  BY <1>1 DEF Level
<1>4. \A j \in DOMAIN queue : \E jj \in DOMAIN old : jj # i /\ queue[j] = old[jj]
  <2> SUFFICES ASSUME NEW j \in 1..(Len(old) - 1)
               PROVE  \E jj \in 1..Len(old) : jj # i /\ queue[j] = old[jj]
    BY <1>1, <1>2
  <2>1. CASE j < i
    BY <1>1, <1>2, <2>1
  <2>2. CASE ~(j < i)
    <3>1. j + 1 \in 1..Len(old) /\ j + 1 # i
      BY <1>1, <2>2
    <3> QED
      BY <1>2, <2>2, <3>1
  <2> QED
    BY <2>1, <2>2
<1>5. \A jj \in DOMAIN old : jj # i => \E j \in DOMAIN queue : queue[j] = old[jj]
  <2> SUFFICES ASSUME NEW jj \in 1..Len(old), jj # i
               PROVE  \E j \in 1..(Len(old) - 1) : queue[j] = old[jj]
    BY <1>1, <1>2
  <2>1. CASE jj < i
    BY <1>1, <1>2, <2>1
  <2>2. CASE ~(jj < i)
    <3>1. jj - 1 \in 1..(Len(old) - 1) /\ ~(jj - 1 < i)
      BY <1>1, <2>2
    <3>2. queue[jj - 1] = old[jj - 1 + 1]
      BY <1>2, <3>1
    <3> QED
      BY <1>1, <3>1, <3>2
  <2> QED
    BY <2>1, <2>2
<1>6. \A j1, j2 \in DOMAIN queue : queue[j1] = queue[j2] => j1 = j2
  <2>1. \A j1, j2 \in 1..Len(old) : old[j1] = old[j2] => j1 = j2
    BY <1>1 DEF QueuesOK
  <2> SUFFICES ASSUME NEW j1 \in 1..(Len(old) - 1), NEW j2 \in 1..(Len(old) - 1),
                      queue[j1] = queue[j2]
               PROVE  j1 = j2
    BY <1>2
  <2>2. /\ j1 \in 1..Len(old) /\ j1 + 1 \in 1..Len(old)
        /\ j2 \in 1..Len(old) /\ j2 + 1 \in 1..Len(old)
    BY <1>1
  <2>3. /\ queue[j1] = IF j1 < i THEN old[j1] ELSE old[j1 + 1]
        /\ queue[j2] = IF j2 < i THEN old[j2] ELSE old[j2 + 1]
    BY <1>2
  <2>4. CASE j1 < i /\ j2 < i
    BY <2>1, <2>2, <2>3, <2>4
  <2>5. CASE ~(j1 < i) /\ ~(j2 < i)
    <3>1. j1 + 1 = j2 + 1
      BY <2>1, <2>2, <2>3, <2>5
    <3> QED
      BY <1>1, <3>1
  <2>6. CASE j1 < i /\ ~(j2 < i)
    <3>1. j1 = j2 + 1
      BY <2>1, <2>2, <2>3, <2>6
    <3> QED
      BY <1>1, <2>6, <3>1
  <2>7. CASE ~(j1 < i) /\ j2 < i
    <3>1. j1 + 1 = j2
      BY <2>1, <2>2, <2>3, <2>7
    <3> QED
      BY <1>1, <2>7, <3>1
  <2> QED
    BY <2>4, <2>5, <2>6, <2>7
<1>7. ls = IF queue = <<>> THEN Without(levels, k) ELSE [levels EXCEPT ![k] = left]
  BY <1>3 DEF Unlink
<1>8. /\ DOMAIN ls \subseteq DOMAIN levels
      /\ \A kk \in DOMAIN levels \ {k} : kk \in DOMAIN ls /\ ls[kk] = levels[kk]
      /\ k \in DOMAIN ls => ls[k].orders = queue /\ queue # <<>>
      /\ queue # <<>> => k \in DOMAIN ls
  BY <1>3, <1>7 DEF Without, Restrict
<1> HIDE DEF queue, left, ls
<1>9. \A kk \in DOMAIN ls : \A j \in DOMAIN ls[kk].orders :
         /\ ls[kk].orders[j] \in DOMAIN om \ omOut
         /\ om[ls[kk].orders[j]].parentLevel = kk
  <2> SUFFICES ASSUME NEW kk \in DOMAIN ls, NEW j \in DOMAIN ls[kk].orders
               PROVE  /\ ls[kk].orders[j] \in DOMAIN om \ omOut
                      /\ om[ls[kk].orders[j]].parentLevel = kk
    OBVIOUS
  <2>1. CASE kk = k
    <3>1. PICK jj \in DOMAIN old : jj # i /\ ls[kk].orders[j] = old[jj]
      BY <1>4, <1>8, <2>1
    <3>2. old[jj] # old[i]
      BY <3>1 DEF QueuesOK
    <3> QED
      BY <2>1, <3>1, <3>2 DEF QueuesOK
  <2>2. CASE kk # k
    <3>1. kk \in DOMAIN levels /\ ls[kk] = levels[kk]
      BY <1>8, <2>2
    <3>2. /\ levels[kk].orders[j] \in DOMAIN orderMap \ out
          /\ orderMap[levels[kk].orders[j]].parentLevel = kk
          /\ orderMap[old[i]].parentLevel = k
      BY <3>1 DEF QueuesOK
    <3>3. levels[kk].orders[j] # old[i]
      BY <2>2, <3>2
    <3> QED
      BY <3>1, <3>2, <3>3
  <2> QED
    BY <2>1, <2>2
<1>10. \A kk \in DOMAIN ls : \A j1, j2 \in DOMAIN ls[kk].orders :
          ls[kk].orders[j1] = ls[kk].orders[j2] => j1 = j2
  BY <1>6, <1>8 DEF QueuesOK
<1>11. \A id \in DOMAIN om \ omOut :
          /\ om[id].parentLevel \in DOMAIN ls
          /\ \E j \in DOMAIN ls[om[id].parentLevel].orders :
                ls[om[id].parentLevel].orders[j] = id
  <2> SUFFICES ASSUME NEW id \in DOMAIN om \ omOut
               PROVE  /\ om[id].parentLevel \in DOMAIN ls
                      /\ \E j \in DOMAIN ls[om[id].parentLevel].orders :
                            ls[om[id].parentLevel].orders[j] = id
    OBVIOUS
  <2>1. /\ id \in DOMAIN orderMap \ out
        /\ id # old[i]
        /\ om[id].parentLevel = orderMap[id].parentLevel
    OBVIOUS
  <2>2. orderMap[id].parentLevel \in DOMAIN levels
    BY <2>1 DEF QueuesOK
  <2>3. PICK jj \in DOMAIN levels[orderMap[id].parentLevel].orders :
            levels[orderMap[id].parentLevel].orders[jj] = id
    BY <2>1 DEF QueuesOK
  <2>4. CASE orderMap[id].parentLevel = k
    <3>1. PICK j \in DOMAIN queue : queue[j] = id
      BY <1>5, <2>1, <2>3, <2>4
    <3>2. queue # <<>>
      BY <1>2, <3>1
    <3> QED
      BY <1>8, <2>1, <2>4, <3>1, <3>2
  <2>5. CASE orderMap[id].parentLevel # k
    BY <1>8, <2>1, <2>2, <2>3, <2>5
  <2> QED
    BY <2>4, <2>5
<1>12. \A kk \in DOMAIN ls : ls[kk].orders # <<>>
  BY <1>8 DEF QueuesOK
<1> QED
  BY <1>9, <1>10, <1>11, <1>12 DEF QueuesOK, ls

\* Appending a ticket to the queue of k, a new level or not, keeps the books
\* typed.
LEMMA EnqueueIsTyped ==
    ASSUME NEW ls, LevelsOK(ls), NEW k \in Books \X Prices,
           NEW isBid \in BOOLEAN, NEW id \in Ids, NEW quantity \in Nat
    PROVE  LevelsOK(Enqueue(ls, k, isBid, id, quantity))
<1> DEFINE level == IF k \in DOMAIN ls
                    THEN ls[k]
                    ELSE [isBid |-> isBid, orders |-> <<>>, totalVolume |-> 0]
           longer == [level EXCEPT !.orders = Append(@, id),
                                   !.totalVolume = @ + quantity]
<1>1. level \in Level
  <2>1. <<>> \in Seq(Ids)
    BY EmptySeq
  <2> QED
    BY <2>1 DEF LevelsOK, FunctionInto, Level
<1>2. longer \in Level
  <2>1. ASSUME NEW l \in Level, NEW orders \in Seq(Ids), NEW volume \in Int
        PROVE  [l EXCEPT !.orders = orders, !.totalVolume = volume] \in Level
    BY DEF Level
  <2>2. level.orders \in Seq(Ids) /\ level.totalVolume + quantity \in Int
    BY <1>1 DEF Level
  <2>3. Append(level.orders, id) \in Seq(Ids)
    BY <2>2, AppendProperties
  <2> HIDE DEF level
  <2> QED
    BY <1>1, <2>1, <2>2, <2>3
<1>3. Enqueue(ls, k, isBid, id, quantity) = With(ls, k, longer)
  BY DEF Enqueue
<1> HIDE DEF level, longer
<1> QED
  BY <1>2, <1>3 DEF LevelsOK, FunctionInto, With

\* ... and puts that ticket, which was in no queue, into this one.
LEMMA EnqueueQueues ==
    ASSUME NEW ls, LevelsOK(ls), NEW before, NEW out, QueuesOK(ls, before, out),
           NEW k, NEW isBid, NEW id \in Ids, NEW quantity,
           id \notin DOMAIN before \ out,
           NEW om, NEW omOut,
           DOMAIN om \ omOut = (DOMAIN before \ out) \cup {id},
           om[id].parentLevel = k,
           \A other \in DOMAIN before \ out :
              om[other].parentLevel = before[other].parentLevel
    PROVE  QueuesOK(Enqueue(ls, k, isBid, id, quantity), om, omOut)
<1> DEFINE level == IF k \in DOMAIN ls
                    THEN ls[k]
                    ELSE [isBid |-> isBid, orders |-> <<>>, totalVolume |-> 0]
           longer == [level EXCEPT !.orders = Append(@, id),
                                   !.totalVolume = @ + quantity]
           new == Enqueue(ls, k, isBid, id, quantity)
           old == level.orders
           queue == Append(old, id)
<1>1. old \in Seq(Ids)
  BY EmptySeq DEF LevelsOK, FunctionInto, Level
<1>2. /\ Len(old) \in Nat
      /\ DOMAIN old = 1..Len(old)
      /\ DOMAIN queue = 1..(Len(old) + 1)
      /\ \A j \in 1..Len(old) : queue[j] = old[j]
      /\ queue[Len(old) + 1] = id
      /\ queue # <<>>
  <2>1. /\ queue \in Seq(Ids)
        /\ queue # <<>>
        /\ Len(queue) = Len(old) + 1
        /\ \A j \in 1..Len(old) : queue[j] = old[j]
        /\ queue[Len(old) + 1] = id
    <3> HIDE DEF old
    <3> QED
      BY <1>1, AppendProperties
  <2> QED
    BY <1>1, <2>1, LenProperties
<1>3. longer.orders = queue
  <2>1. k \in DOMAIN ls => ls[k] \in Level
    BY DEF LevelsOK, FunctionInto
  <2> QED
    BY <2>1 DEF Level
<1>4. new = With(ls, k, longer)
  BY DEF Enqueue
<1>5. /\ DOMAIN new = DOMAIN ls \cup {k}
      /\ new[k].orders = queue
      /\ \A kk \in DOMAIN ls \ {k} : new[kk] = ls[kk]
  BY <1>3, <1>4 DEF With
<1>6. /\ k \in DOMAIN ls => old = ls[k].orders
      /\ k \notin DOMAIN ls => old = <<>> /\ Len(old) = 0
  BY EmptySeq
<1> HIDE DEF level, longer, new, old, queue
<1>7. \A j \in DOMAIN old : k \in DOMAIN ls /\ ls[k].orders[j] = old[j]
  BY <1>2, <1>6
<1>8. \A j \in DOMAIN queue :
         \/ j = Len(old) + 1 /\ queue[j] = id
         \/ j \in DOMAIN old /\ queue[j] = old[j]
  BY <1>2
<1>9. \A j \in DOMAIN old : old[j] # id
  BY <1>6, <1>7 DEF QueuesOK
<1>10. \A kk \in DOMAIN new : \A j \in DOMAIN new[kk].orders :
          /\ new[kk].orders[j] \in DOMAIN om \ omOut
          /\ om[new[kk].orders[j]].parentLevel = kk
  <2> SUFFICES ASSUME NEW kk \in DOMAIN new, NEW j \in DOMAIN new[kk].orders
               PROVE  /\ new[kk].orders[j] \in DOMAIN om \ omOut
                      /\ om[new[kk].orders[j]].parentLevel = kk
    OBVIOUS
  <2>1. CASE kk = k
    <3>1. CASE queue[j] = id
      BY <1>5, <2>1, <3>1
    <3>2. CASE j \in DOMAIN old /\ queue[j] = old[j]
      <4>1. k \in DOMAIN ls /\ ls[k].orders[j] = old[j] /\ j \in DOMAIN ls[k].orders
        BY <1>6, <1>7, <3>2
      <4>2. old[j] \in DOMAIN before \ out /\ before[old[j]].parentLevel = k
        BY <4>1 DEF QueuesOK
      <4> QED
        BY <1>5, <2>1, <3>2, <4>2
    <3> QED
      BY <1>5, <1>8, <2>1, <3>1, <3>2
  <2>2. CASE kk # k
    <3>1. kk \in DOMAIN ls /\ new[kk] = ls[kk]
      BY <1>5, <2>2
    <3>2. ls[kk].orders[j] \in DOMAIN before \ out
          /\ before[ls[kk].orders[j]].parentLevel = kk
      BY <3>1 DEF QueuesOK
    <3> QED
      BY <3>1, <3>2
  <2> QED
    BY <2>1, <2>2
<1>11. \A kk \in DOMAIN new : \A j1, j2 \in DOMAIN new[kk].orders :
          new[kk].orders[j1] = new[kk].orders[j2] => j1 = j2
  <2>1. \A j1, j2 \in DOMAIN old : old[j1] = old[j2] => j1 = j2
    BY <1>6, <1>7 DEF QueuesOK
  <2>2. ASSUME NEW j1 \in DOMAIN queue, NEW j2 \in DOMAIN queue, queue[j1] = queue[j2]
        PROVE  j1 = j2
    <3>1. CASE j1 \in DOMAIN old /\ queue[j1] = old[j1]
      <4>1. queue[j2] # id
        BY <1>9, <2>2, <3>1
      <4>2. j2 \in DOMAIN old /\ queue[j2] = old[j2]
        BY <1>8, <4>1
      <4> QED
        BY <2>1, <2>2, <3>1, <4>2
    <3>2. CASE j1 = Len(old) + 1 /\ queue[j1] = id
      <4>1. j2 = Len(old) + 1
        BY <1>8, <1>9, <2>2, <3>2
      <4> QED
        BY <3>2, <4>1
    <3> QED
      BY <1>8, <3>1, <3>2
  <2>3. \A kk \in DOMAIN new \ {k} : kk \in DOMAIN ls /\ new[kk] = ls[kk]
    BY <1>5
  <2> QED
    BY <1>5, <2>2, <2>3 DEF QueuesOK
<1>12. \A other \in DOMAIN om \ omOut :
          /\ om[other].parentLevel \in DOMAIN new
          /\ \E j \in DOMAIN new[om[other].parentLevel].orders :
                new[om[other].parentLevel].orders[j] = other
  <2> SUFFICES ASSUME NEW other \in DOMAIN om \ omOut
               PROVE  /\ om[other].parentLevel \in DOMAIN new
                      /\ \E j \in DOMAIN new[om[other].parentLevel].orders :
                            new[om[other].parentLevel].orders[j] = other
    OBVIOUS
  <2>1. CASE other = id
    <3>1. Len(old) + 1 \in DOMAIN queue /\ queue[Len(old) + 1] = id
      BY <1>2
    <3> QED
      BY <1>5, <2>1, <3>1
  <2>2. CASE other # id
    <3> DEFINE kk == before[other].parentLevel
    <3>1. other \in DOMAIN before \ out /\ om[other].parentLevel = kk
      BY <2>2
    <3>2. PICK j \in DOMAIN ls[kk].orders : kk \in DOMAIN ls /\ ls[kk].orders[j] = other
      BY <3>1 DEF QueuesOK
    <3>3. CASE kk = k
      <4>1. old = ls[k].orders
        BY <1>6, <3>2, <3>3
      <4>2. j \in DOMAIN queue /\ queue[j] = other
        BY <1>2, <3>2, <3>3, <4>1
      <4> QED
        BY <1>5, <3>1, <3>3, <4>2
    <3>4. CASE kk # k
      BY <1>5, <3>1, <3>2, <3>4
    <3> QED
      BY <3>3, <3>4
  <2> QED
    BY <2>1, <2>2
<1>13. \A kk \in DOMAIN new : new[kk].orders # <<>>
  BY <1>2, <1>5 DEF QueuesOK
<1> QED
  BY <1>10, <1>11, <1>12, <1>13 DEF QueuesOK, new

-----------------------------------------------------------------------------
(* The inductive invariant.  A matching loop is safe because the locals of *)
(* the call fit the books: a limit order that is being matched has an id   *)
(* that is not in use, a stop-limit order that is being converted is still *)
(* mapped, is in no queue and has shares left, and no ticket has 0 shares. *)

PositiveQuantities == 0 \notin Quantities

InLoop(loop) == pc = loop \/ (pc = "sweep" /\ taker.then = loop)

TakerFitsBooks ==
    /\ InLoop("limit") =>
          /\ taker.id \in Ids \ DOMAIN orderMap
          /\ taker.limit \in Prices
    /\ InLoop("convert") =>
          /\ taker.id \in DOMAIN orderMap
          /\ taker.limit \in Prices
          /\ taker.rest # 0

NoEmptyTicket == \A id \in DOMAIN orderMap : orderMap[id].quantity # 0

IInv ==
    /\ TypeOK
    /\ EveryTicketQueuedOnce
    /\ TakerFitsBooks
    /\ NoEmptyTicket

\* The restatement is the invariant, before a step and after it.
LEMMA QueuesRestated == EveryTicketQueuedOnce <=> QueuesOK(levels, orderMap, Converting)
BY DEF EveryTicketQueuedOnce, QueuesHoldTickets, NoTicketTwice, TicketsAreQueued,
       NoEmptyLevel, Holds, QueuesOK

\* The same for the state after a step.
LEMMA QueuesRestatedNext ==
    EveryTicketQueuedOnce' <=> QueuesOK(levels', orderMap', Converting')
BY DEF EveryTicketQueuedOnce, QueuesHoldTickets, NoTicketTwice, TicketsAreQueued,
       NoEmptyLevel, Holds, QueuesOK

\* The head of a level exists and is a mapped ticket that is not being converted.
LEMMA HeadIsMapped ==
    ASSUME TypeOK, EveryTicketQueuedOnce, NEW k \in DOMAIN levels
    PROVE  /\ 1 \in DOMAIN levels[k].orders
           /\ Head1(k) = levels[k].orders[1]
           /\ Head1(k) \in DOMAIN orderMap \ Converting
           /\ orderMap[Head1(k)] \in Ticket
           /\ orderMap[Head1(k)].parentLevel = k
<1>1. levels[k].orders \in Seq(Ids) /\ levels[k].orders # <<>>
  BY DEF TypeOK, FunctionInto, Level, EveryTicketQueuedOnce, NoEmptyLevel
<1>2. 1 \in DOMAIN levels[k].orders
  <2>1. Len(levels[k].orders) \in Nat \ {0}
    BY <1>1, EmptySeq
  <2> QED
    BY <1>1, <2>1, LenProperties
<1> QED
  BY <1>2 DEF Head1, EveryTicketQueuedOnce, QueuesHoldTickets, TypeOK, FunctionInto

\* A queued ticket is found in the queue of its parentLevel.
LEMMA CancelledIsUnlink ==
    ASSUME TypeOK, EveryTicketQueuedOnce, NEW id \in DOMAIN orderMap \ Converting
    PROVE  LET k == orderMap[id].parentLevel
           IN  /\ k \in DOMAIN levels
               /\ \E i \in DOMAIN levels[k].orders :
                     levels[k].orders[i] = id /\ Cancelled(id) = Unlink(levels, k, i)
<1> DEFINE k == orderMap[id].parentLevel
           i == CHOOSE i \in DOMAIN levels[k].orders : levels[k].orders[i] = id
<1>1. k \in DOMAIN levels /\ \E j \in DOMAIN levels[k].orders : levels[k].orders[j] = id
  BY DEF EveryTicketQueuedOnce, TicketsAreQueued, Holds
<1>2. i \in DOMAIN levels[k].orders /\ levels[k].orders[i] = id
  BY <1>1
<1>3. Cancelled(id) = Unlink(levels, k, i)
  BY DEF Cancelled
<1> QED
  BY <1>1, <1>2, <1>3

\* Initially there is nothing to be wrong.
LEMMA InitInvariant == Init => IInv
<1> SUFFICES ASSUME Init PROVE IInv
  OBVIOUS
<1>1. NoTaker \in Taker
  BY DEF NoTaker, Taker, Loops
<1>2. DOMAIN levels = {} /\ DOMAIN orderMap = {}
  BY DEF Init
<1>3. TypeOK
  BY <1>1, <1>2 DEF Init, TypeOK, FunctionInto
<1>4. EveryTicketQueuedOnce
  BY <1>2 DEF EveryTicketQueuedOnce, QueuesHoldTickets, NoTicketTwice, TicketsAreQueued,
              NoEmptyLevel
<1>5. TakerFitsBooks /\ NoEmptyTicket
  BY <1>2 DEF Init, TakerFitsBooks, NoEmptyTicket, InLoop
<1> QED
  BY <1>3, <1>4, <1>5 DEF IInv

-----------------------------------------------------------------------------
(* What the helpers of the actions do to the books.                        *)

BooksOK ==
    /\ LevelsOK(levels)
    /\ FunctionInto(orderMap, Ids, Ticket)
    /\ EveryTicketQueuedOnce
    /\ NoEmptyTicket

\* What a step does to the books and to the taker is proved separately.
LEMMA InvariantInParts ==
    IInv <=> /\ BooksOK
             /\ pc \in Loops \cup {"idle"}
             /\ taker \in Taker
             /\ TakerFitsBooks
BY DEF IInv, BooksOK, TypeOK, LevelsOK

\* The same for the state after a step.
LEMMA InvariantInPartsNext ==
    IInv' <=> /\ BooksOK'
              /\ pc' \in Loops \cup {"idle"}
              /\ taker' \in Taker
              /\ TakerFitsBooks'
BY DEF IInv, BooksOK, TypeOK, LevelsOK

\* The locals with which a call or a loop begins are typed.
LEMMA TakersAreTyped ==
    /\ NoTaker \in Taker
    /\ \A isBid \in BOOLEAN : StopsOf(isBid) \in Taker
    /\ \A isBid \in BOOLEAN, quantity \in Nat :
          /\ MarketTaker(isBid, quantity) \in Taker
          /\ MarketTaker(isBid, quantity).then = "stops"
    /\ \A id \in Ids, isBid \in BOOLEAN, quantity \in Nat, price \in Prices :
          LET t == LimitTaker(id, isBid, quantity, price)
          IN  /\ t \in Taker
              /\ t.id = id /\ t.isBid = isBid /\ t.limit = price /\ t.rest = quantity
<1>1. NoTaker \in Taker /\ NoTaker.then = "stops"
  BY DEF NoTaker, Taker, Loops
<1>2. \A isBid \in BOOLEAN : StopsOf(isBid) \in Taker
  BY <1>1 DEF StopsOf, Taker
<1>3. ASSUME NEW isBid \in BOOLEAN, NEW sweep \in Int, NEW size \in Nat
      PROVE  LET new == [NoTaker EXCEPT !.isBid = isBid, !.sweep = sweep, !.size = size]
             IN  new \in Taker /\ new.then = "stops"
  BY <1>1 DEF Taker
<1>4. ASSUME NEW t \in Taker, NEW id \in Ids, NEW isBid \in BOOLEAN,
             NEW quantity \in Nat, NEW price \in Prices
      PROVE  LET new == [t EXCEPT !.id = id, !.isBid = isBid, !.limit = price,
                                  !.rest = quantity, !.size = quantity]
             IN  /\ new \in Taker
                 /\ new.id = id /\ new.isBid = isBid /\ new.limit = price
                 /\ new.rest = quantity
  BY DEF Taker
<1>5. \A isBid \in BOOLEAN, quantity \in Nat :
          /\ MarketTaker(isBid, quantity) \in Taker
          /\ MarketTaker(isBid, quantity).then = "stops"
  <2> SUFFICES ASSUME NEW isBid \in BOOLEAN, NEW quantity \in Nat
               PROVE  /\ MarketTaker(isBid, quantity) \in Taker
                      /\ MarketTaker(isBid, quantity).then = "stops"
    OBVIOUS
  <2>1. quantity \in Int
    OBVIOUS
  <2> QED
    BY <1>3, <2>1, Zenon DEF MarketTaker
<1> QED
  BY <1>1, <1>2, <1>4, <1>5 DEF LimitTaker

\* A new ticket, or the converted one, comes to rest in the level k.
LEMMA RestStep ==
    ASSUME LevelsOK(levels), FunctionInto(orderMap, Ids, Ticket), NoEmptyTicket,
           EveryTicketQueuedOnce, Converting' = {},
           NEW id \in Ids, Converting \subseteq {id}, id \notin DOMAIN orderMap \ Converting,
           NEW isBid \in BOOLEAN, NEW quantity \in Nat \ {0}, NEW k \in Books \X Prices,
           levels' = Enqueue(levels, k, isBid, id, quantity),
           DOMAIN orderMap' = DOMAIN orderMap \cup {id},
           orderMap'[id] \in Ticket, orderMap'[id].quantity = quantity,
           orderMap'[id].parentLevel = k,
           \A other \in DOMAIN orderMap \ {id} : orderMap'[other] = orderMap[other]
    PROVE  BooksOK'
<1>1. QueuesOK(levels, orderMap, Converting)
  BY QueuesRestated
<1>2. LevelsOK(levels')
  BY EnqueueIsTyped
<1>3. QueuesOK(levels', orderMap', {})
  <2>1. DOMAIN orderMap' \ {} = (DOMAIN orderMap \ Converting) \cup {id}
    OBVIOUS
  <2>2. \A other \in DOMAIN orderMap \ Converting :
            orderMap'[other].parentLevel = orderMap[other].parentLevel
    OBVIOUS
  <2>3. QueuesOK(Enqueue(levels, k, isBid, id, quantity), orderMap', {})
    BY <1>1, <2>1, <2>2, EnqueueQueues
  <2> QED
    BY <2>3
<1>4. EveryTicketQueuedOnce'
  BY <1>3, QueuesRestatedNext
<1>5. FunctionInto(orderMap', Ids, Ticket) /\ NoEmptyTicket'
  BY DEF FunctionInto, NoEmptyTicket
<1> QED
  BY <1>2, <1>4, <1>5 DEF BooksOK, LevelsOK, FunctionInto

\* A ticket leaves its queue and orderMap.
LEMMA UnlinkStep ==
    ASSUME BooksOK, Converting' = Converting,
           NEW k \in DOMAIN levels, NEW i \in DOMAIN levels[k].orders,
           levels' = Unlink(levels, k, i),
           orderMap' = Without(orderMap, levels[k].orders[i])
    PROVE  BooksOK'
<1> DEFINE id == levels[k].orders[i]
<1>1. QueuesOK(levels, orderMap, Converting)
  BY QueuesRestated DEF BooksOK
<1>2. id \in DOMAIN orderMap \ Converting
  BY <1>1 DEF QueuesOK
<1>3. LevelsOK(levels')
  BY <1>2, UnlinkIsTyped DEF BooksOK
<1>4. /\ DOMAIN orderMap' = DOMAIN orderMap \ {id}
      /\ \A other \in DOMAIN orderMap' : orderMap'[other] = orderMap[other]
  BY DEF Without, Restrict
<1>5. QueuesOK(Unlink(levels, k, i), orderMap', Converting)
  <2>1. DOMAIN orderMap' \ Converting = (DOMAIN orderMap \ Converting) \ {id}
    BY <1>4
  <2> QED
    BY <1>1, <1>4, <2>1, UnlinkQueues DEF BooksOK
<1>6. EveryTicketQueuedOnce'
  BY <1>5, QueuesRestatedNext
<1>7. FunctionInto(orderMap', Ids, Ticket) /\ NoEmptyTicket'
  BY <1>4 DEF BooksOK, FunctionInto, NoEmptyTicket
<1> QED
  BY <1>3, <1>6, <1>7 DEF BooksOK, LevelsOK, FunctionInto

\* A ticket leaves its queue to be moved or converted.
LEMMA UnlinkOut ==
    ASSUME BooksOK, Converting = {},
           NEW k \in DOMAIN levels, NEW i \in DOMAIN levels[k].orders
    PROVE  /\ LevelsOK(Unlink(levels, k, i))
           /\ QueuesOK(Unlink(levels, k, i), orderMap, {levels[k].orders[i]})
<1>1. QueuesOK(levels, orderMap, {})
  BY QueuesRestated DEF BooksOK
<1>2. levels[k].orders[i] \in DOMAIN orderMap
  BY <1>1 DEF QueuesOK
<1> QED
  BY <1>1, <1>2, UnlinkIsTyped, UnlinkQueues DEF BooksOK

\* cancel: the ticket leaves the queue of its parentLimit and orderMap.
LEMMA CancelStep ==
    ASSUME BooksOK, TypeOK, Converting = {}, NEW id \in DOMAIN orderMap, Cancel(id)
    PROVE  BooksOK'
<1>1. PICK i \in DOMAIN levels[orderMap[id].parentLevel].orders :
          /\ orderMap[id].parentLevel \in DOMAIN levels
          /\ levels[orderMap[id].parentLevel].orders[i] = id
          /\ Cancelled(id) = Unlink(levels, orderMap[id].parentLevel, i)
  BY CancelledIsUnlink DEF BooksOK
<1>2. Converting' = Converting
  BY DEF Cancel, Converting
<1> QED
  BY <1>1, <1>2, UnlinkStep DEF Cancel

\* cancel, modifyOrder and append: the ticket changes its queue.
LEMMA MoveStep ==
    ASSUME BooksOK, TypeOK, Converting = {}, NEW id \in DOMAIN orderMap,
           NEW quantity \in Nat \ {0}, NEW limit \in Prices \cup {0},
           NEW k \in Books \X Prices, Move(id, quantity, limit, k)
    PROVE  BooksOK'
<1> DEFINE from == orderMap[id].parentLevel
           isBid == orderMap[id].isBid
           ticket == NewTicket(isBid, quantity, limit, k)
<1>1. PICK i \in DOMAIN levels[from].orders :
          /\ from \in DOMAIN levels
          /\ levels[from].orders[i] = id
          /\ Cancelled(id) = Unlink(levels, from, i)
  BY CancelledIsUnlink DEF BooksOK
<1>2. LevelsOK(Cancelled(id)) /\ QueuesOK(Cancelled(id), orderMap, {id})
  BY <1>1, UnlinkOut
<1>3. id \in Ids /\ isBid \in BOOLEAN
  BY DEF BooksOK, FunctionInto, Ticket
<1>4. ticket \in Ticket /\ ticket.parentLevel = k /\ ticket.quantity = quantity
  BY <1>3 DEF NewTicket, Ticket
<1>5. levels' = Enqueue(Cancelled(id), k, isBid, id, quantity)
  BY DEF Move
<1>6. orderMap' = [orderMap EXCEPT ![id] = ticket]
  BY DEF Move
<1> HIDE DEF ticket, from, isBid
<1>7. LevelsOK(levels')
  BY <1>2, <1>3, <1>5, EnqueueIsTyped
<1>8. QueuesOK(levels', orderMap', {})
  <2>1. /\ DOMAIN orderMap' \ {} = (DOMAIN orderMap \ {id}) \cup {id}
        /\ orderMap'[id].parentLevel = k
        /\ \A other \in DOMAIN orderMap \ {id} :
              orderMap'[other].parentLevel = orderMap[other].parentLevel
    BY <1>4, <1>6
  <2>2. id \notin DOMAIN orderMap \ {id}
    OBVIOUS
  <2>3. QueuesOK(Enqueue(Cancelled(id), k, isBid, id, quantity), orderMap', {})
    BY <1>2, <1>3, <2>1, <2>2, EnqueueQueues
  <2> QED
    BY <1>5, <2>3
<1>9. Converting' = {}
  BY DEF Move, Converting
<1>10. EveryTicketQueuedOnce'
  BY <1>8, <1>9, QueuesRestatedNext
<1>11. FunctionInto(orderMap', Ids, Ticket) /\ NoEmptyTicket'
  BY <1>4, <1>6 DEF BooksOK, FunctionInto, NoEmptyTicket
<1> QED
  BY <1>7, <1>10, <1>11 DEF BooksOK, LevelsOK, FunctionInto

-----------------------------------------------------------------------------
(* The steps of the public calls.                                          *)

\* A step that leaves the books alone, and converts what was converted before.
LEMMA SameBooks ==
    ASSUME BooksOK, UNCHANGED <<levels, orderMap>>, Converting' = Converting
    PROVE  BooksOK'
<1>1. EveryTicketQueuedOnce'
  BY QueuesRestated, QueuesRestatedNext DEF BooksOK
<1> QED
  BY <1>1 DEF BooksOK, LevelsOK, FunctionInto, NoEmptyTicket

\* A submission or the residual of one comes to rest.
LEMMA RestNewTicket ==
    ASSUME BooksOK, Converting = {}, Converting' = {},
           NEW id \in Ids \ DOMAIN orderMap, NEW isBid \in BOOLEAN,
           NEW quantity \in Nat \ {0}, NEW limit \in Prices \cup {0},
           NEW k \in Books \X Prices, Rest(id, isBid, quantity, limit, k)
    PROVE  BooksOK'
<1> DEFINE ticket == NewTicket(isBid, quantity, limit, k)
<1>1. ticket \in Ticket /\ ticket.parentLevel = k /\ ticket.quantity = quantity
  BY DEF NewTicket, Ticket
<1>2. /\ DOMAIN orderMap' = DOMAIN orderMap \cup {id}
      /\ orderMap'[id] = ticket
      /\ \A other \in DOMAIN orderMap \ {id} : orderMap'[other] = orderMap[other]
  BY DEF Rest, With
<1>3. levels' = Enqueue(levels, k, isBid, id, quantity)
  BY DEF Rest
<1> HIDE DEF ticket
<1> QED
  BY <1>1, <1>2, <1>3, RestStep DEF BooksOK

\* The level of a side and a price is a key of the books.
LEMMA LevelsOfPrices ==
    ASSUME NEW isBid \in BOOLEAN, NEW price \in Prices
    PROVE  /\ StopLevel(isBid, price) \in Books \X Prices
           /\ LimitLevel(isBid, price) \in Books \X Prices
BY DEF StopLevel, LimitLevel, LimitBook, Books

\* Between two calls no ticket is being converted and no loop runs.
LEMMA IdleIsFree ==
    ASSUME Idle
    PROVE  /\ Converting = {}
           /\ UNCHANGED <<pc, taker>> => Converting' = {} /\ TakerFitsBooks'
BY DEF Idle, Converting, TakerFitsBooks, InLoop

\* A call that leaves the books alone and sweeps for a market order.
LEMMA SweepForMarketOrder ==
    ASSUME NEW isBid \in BOOLEAN, NEW quantity \in Nat,
           Run("sweep", MarketTaker(isBid, quantity))
    PROVE  /\ Converting' = {}
           /\ TakerFitsBooks'
           /\ taker' \in Taker
           /\ pc' \in Loops \cup {"idle"}
<1>1. pc' = "sweep" /\ taker' \in Taker /\ taker'.then = "stops"
  BY TakersAreTyped DEF Run
<1> QED
  BY <1>1 DEF Converting, TakerFitsBooks, InLoop, Loops

\* A call that leaves the books alone and begins to match a limit order.
LEMMA MatchLimitOrder ==
    ASSUME NEW id \in Ids \ DOMAIN orderMap, NEW isBid \in BOOLEAN, NEW quantity \in Nat,
           NEW price \in Prices, Run("limit", LimitTaker(id, isBid, quantity, price)),
           orderMap' = orderMap
    PROVE  /\ Converting' = {}
           /\ TakerFitsBooks'
           /\ taker' \in Taker
           /\ pc' \in Loops \cup {"idle"}
<1>1. pc' = "limit" /\ taker' \in Taker /\ taker'.id = id /\ taker'.limit = price
  BY TakersAreTyped DEF Run
<1> QED
  BY <1>1 DEF Converting, TakerFitsBooks, InLoop, Loops

\* Each submission keeps the invariant, whether it rests or begins to match.
LEMMA SubmitStep ==
    ASSUME IInv, PositiveQuantities, Submit
    PROVE  IInv'
<1> USE InvariantInParts
<1>1. PICK isBid \in BOOLEAN, quantity \in Quantities :
          \/ submitMarketTicket(isBid, quantity)
          \/ \E id \in Ids, price \in Prices :
                \/ submitLimitTicket(id, isBid, quantity, price)
                \/ submitStopTicket(id, isBid, quantity, price)
                \/ \E stopPrice \in Prices :
                      submitStopLimitTicket(id, isBid, quantity, price, stopPrice)
  BY DEF Submit
<1>2. quantity \in Nat \ {0}
  BY QuantitiesAreNatural DEF PositiveQuantities
<1>3. CASE submitMarketTicket(isBid, quantity)
  <2>1. Converting = {} /\ UNCHANGED <<levels, orderMap>>
    BY <1>3, IdleIsFree DEF submitMarketTicket
  <2>2. /\ Converting' = {} /\ TakerFitsBooks' /\ taker' \in Taker
        /\ pc' \in Loops \cup {"idle"}
    BY <1>2, <1>3, SweepForMarketOrder DEF submitMarketTicket
  <2> QED
    BY <2>1, <2>2, SameBooks, InvariantInPartsNext
<1>4. ASSUME NEW id \in Ids, NEW price \in Prices,
             submitLimitTicket(id, isBid, quantity, price)
      PROVE  IInv'
  <2>1. Converting = {} /\ UNCHANGED <<levels, orderMap>>
    BY <1>4, IdleIsFree DEF submitLimitTicket
  <2>2. /\ Converting' = {} /\ TakerFitsBooks' /\ taker' \in Taker
        /\ pc' \in Loops \cup {"idle"}
    BY <1>2, <1>4, MatchLimitOrder DEF submitLimitTicket, Fresh
  <2> QED
    BY <2>1, <2>2, SameBooks, InvariantInPartsNext
<1>5. ASSUME NEW id \in Ids, NEW stopPrice \in Prices,
             submitStopTicket(id, isBid, quantity, stopPrice)
      PROVE  IInv'
  <2>1. Idle /\ Fresh(id) /\ Converting = {}
    BY <1>5, IdleIsFree DEF submitStopTicket
  <2>2. CASE Run("sweep", MarketTaker(isBid, quantity)) /\ UNCHANGED <<levels, orderMap>>
    <3>1. /\ Converting' = {} /\ TakerFitsBooks' /\ taker' \in Taker
          /\ pc' \in Loops \cup {"idle"}
      BY <1>2, <2>2, SweepForMarketOrder
    <3> QED
      BY <2>1, <2>2, <3>1, SameBooks, InvariantInPartsNext
  <2>3. CASE /\ Rest(id, isBid, quantity, 0, StopLevel(isBid, stopPrice))
             /\ UNCHANGED <<pc, taker>>
    <3>1. Converting' = {} /\ TakerFitsBooks'
      BY <2>1, <2>3, IdleIsFree
    <3>2. BooksOK'
      BY <1>2, <2>1, <2>3, <3>1, LevelsOfPrices, RestNewTicket DEF Fresh
    <3> QED
      BY <2>3, <3>1, <3>2, InvariantInPartsNext
  <2> QED
    BY <1>5, <2>2, <2>3 DEF submitStopTicket
<1>6. ASSUME NEW id \in Ids, NEW price \in Prices, NEW stopPrice \in Prices,
             submitStopLimitTicket(id, isBid, quantity, price, stopPrice)
      PROVE  IInv'
  <2>1. Idle /\ Fresh(id) /\ Converting = {}
    BY <1>6, IdleIsFree DEF submitStopLimitTicket
  <2>2. CASE /\ Run("limit", LimitTaker(id, isBid, quantity, price))
             /\ UNCHANGED <<levels, orderMap>>
    <3>1. /\ Converting' = {} /\ TakerFitsBooks' /\ taker' \in Taker
          /\ pc' \in Loops \cup {"idle"}
      BY <1>2, <2>1, <2>2, MatchLimitOrder DEF Fresh
    <3> QED
      BY <2>1, <2>2, <3>1, SameBooks, InvariantInPartsNext
  <2>3. CASE /\ Rest(id, isBid, quantity, price, StopLevel(isBid, stopPrice))
             /\ UNCHANGED <<pc, taker>>
    <3>1. Converting' = {} /\ TakerFitsBooks'
      BY <2>1, <2>3, IdleIsFree
    <3>2. BooksOK'
      BY <1>2, <2>1, <2>3, <3>1, LevelsOfPrices, RestNewTicket DEF Fresh
    <3> QED
      BY <2>3, <3>1, <3>2, InvariantInPartsNext
  <2> QED
    BY <1>6, <2>2, <2>3 DEF submitStopLimitTicket
<1> QED
  BY <1>1, <1>3, <1>4, <1>5, <1>6

\* The three cancel calls keep the invariant.
LEMMA CancelsStep ==
    ASSUME IInv, Cancels
    PROVE  IInv'
<1>1. PICK id \in DOMAIN orderMap : Idle /\ Cancel(id)
  BY DEF Cancels, cancelLimitTicket, cancelStopTicket, cancelStopLimitTicket
<1>2. Converting = {}
  BY <1>1, IdleIsFree
<1>3. UNCHANGED <<pc, taker>> /\ TakerFitsBooks'
  BY <1>1, IdleIsFree DEF Cancel
<1>4. BooksOK'
  BY <1>1, <1>2, CancelStep, InvariantInParts DEF IInv
<1> QED
  BY <1>3, <1>4, InvariantInParts, InvariantInPartsNext

\* The three modify calls keep the invariant.
LEMMA ModifyStep ==
    ASSUME IInv, PositiveQuantities, ModifyLimit \/ ModifyStop
    PROVE  IInv'
<1>1. PICK id \in DOMAIN orderMap, quantity \in Quantities,
           limit \in Prices \cup {0}, k \in Books \X Prices :
          Idle /\ Move(id, quantity, limit, k)
  <2>1. \A id \in DOMAIN orderMap : orderMap[id].isBid \in BOOLEAN
    BY DEF IInv, TypeOK, FunctionInto, Ticket
  <2>2. CASE ModifyLimit
    BY <2>1, <2>2, LevelsOfPrices DEF ModifyLimit, modifyLimitTicket
  <2>3. CASE ModifyStop
    BY <2>1, <2>3, LevelsOfPrices DEF ModifyStop, modifyStopTicket, modifyStopLimitTicket
  <2> QED
    BY <2>2, <2>3
<1>2. Converting = {}
  BY <1>1, IdleIsFree
<1>3. UNCHANGED <<pc, taker>> /\ TakerFitsBooks'
  BY <1>1, IdleIsFree DEF Move
<1>4. quantity \in Nat \ {0}
  BY QuantitiesAreNatural DEF PositiveQuantities
<1>5. BooksOK'
  BY <1>1, <1>2, <1>4, MoveStep, InvariantInParts DEF IInv
<1> QED
  BY <1>3, <1>5, InvariantInParts, InvariantInPartsNext

-----------------------------------------------------------------------------
(* The steps of the matching loops.                                        *)

\* The level an edge is made of is in the books.
LEMMA EdgeIsLevel ==
    ASSUME NEW p \in Prices, IsEdge(taker.isBid, p)
    PROVE  Maker(p) \in DOMAIN levels /\ Maker(p)[2] = p
BY DEF IsEdge, BookPrices, Maker

\* A book has one edge.
LEMMA EdgeIsUnique ==
    ASSUME NEW isBid \in BOOLEAN, NEW p \in Prices, IsEdge(isBid, p),
           NEW q \in Prices, IsEdge(isBid, q)
    PROVE  p = q
BY MaxPriceIsNatural DEF IsEdge, Prices

\* The level a triggered stop edge is made of is in the books.
LEMMA StopEdgeIsLevel ==
    ASSUME NEW p \in Prices, Triggered(p)
    PROVE  <<"stop", p>> \in DOMAIN levels
BY DEF Triggered, IsStopEdge, StopPrices, BookPrices

\* TradeTicket::execute on the head of the edge keeps the invariant.
LEMMA FillHeadStep ==
    ASSUME IInv, FillHead
    PROVE  IInv'
<1> USE InvariantInParts
<1>1. PICK p \in Prices :
          LET head == Head1(Maker(p))
              shares == orderMap[head].quantity
          IN  /\ Fits(p)
              /\ levels' = Unlink(levels, Maker(p), 1)
              /\ orderMap' = Without(orderMap, head)
              /\ taker' = [taker EXCEPT !.sweep = @ - shares, !.executed = @ + shares]
  BY DEF FillHead
<1> DEFINE k == Maker(p)
           head == Head1(k)
           shares == orderMap[head].quantity
<1>2. k \in DOMAIN levels
  BY <1>1, EdgeIsLevel DEF Fits
<1>3. /\ 1 \in DOMAIN levels[k].orders
      /\ head = levels[k].orders[1]
      /\ head \in DOMAIN orderMap \ Converting
      /\ orderMap[head] \in Ticket
  BY <1>2, HeadIsMapped DEF IInv
<1>4. shares \in Nat
  BY <1>3 DEF Ticket
<1>5. /\ taker' \in Taker
      /\ taker'.id = taker.id
      /\ taker'.then = taker.then
      /\ taker'.limit = taker.limit
      /\ taker'.rest = taker.rest
  <2> DEFINE sweep == taker.sweep - shares
             executed == taker.executed + shares
  <2>1. taker \in Taker /\ sweep \in Int /\ executed \in Int
    BY <1>4 DEF Taker
  <2>2. taker' = [taker EXCEPT !.sweep = sweep, !.executed = executed]
    BY <1>1
  <2> HIDE DEF shares, sweep, executed
  <2> QED
    BY <2>1, <2>2 DEF Taker
<1>6. pc = "sweep" /\ pc' = "sweep"
  BY DEF FillHead
<1>7. Converting' = Converting
  BY <1>5, <1>6 DEF Converting
<1>8. BooksOK'
  BY <1>1, <1>2, <1>3, <1>7, UnlinkStep
<1>9. DOMAIN orderMap' = DOMAIN orderMap \ {head}
  BY <1>1 DEF Without, Restrict
<1>10. TakerFitsBooks'
  BY <1>3, <1>5, <1>6, <1>9 DEF TakerFitsBooks, InLoop, Converting
<1> QED
  BY <1>5, <1>6, <1>8, <1>10, InvariantInPartsNext DEF Loops

\* The return of marketOrderHelper changes no ticket's place.
LEMMA SweepReturnsStep ==
    ASSUME taker \in Taker, TakerFitsBooks, pc = "sweep", DOMAIN orderMap' = DOMAIN orderMap,
           NEW executed \in Int, SweepReturns(executed)
    PROVE  /\ taker' \in Taker
           /\ pc' \in Loops \cup {"idle"}
           /\ TakerFitsBooks'
           /\ Converting' = Converting
<1>1. pc' = taker.then /\ pc' \in Loops \ {"sweep"}
  BY DEF SweepReturns, Run, Taker
<1>2. CASE taker.then = "stops"
  <2>1. taker' \in Taker
    BY <1>2, TakersAreTyped DEF SweepReturns, Run, Taker
  <2> QED
    BY <1>1, <1>2, <2>1 DEF TakerFitsBooks, InLoop, Converting
<1>3. CASE taker.then # "stops"
  <2> DEFINE nothing == 0
             total == taker.executed + executed
  <2>1. taker' = [taker EXCEPT !.sweep = nothing, !.executed = total]
    BY <1>3 DEF SweepReturns, Run
  <2>2. nothing \in Int /\ total \in Int
    BY DEF Taker
  <2> HIDE DEF nothing, total
  <2>3. /\ taker' \in Taker
        /\ taker'.id = taker.id /\ taker'.limit = taker.limit /\ taker'.rest = taker.rest
    BY <2>1, <2>2 DEF Taker
  <2>4. /\ InLoop("limit")' => InLoop("limit")
        /\ InLoop("convert")' => InLoop("convert")
    BY <1>1 DEF InLoop
  <2>5. TakerFitsBooks'
    BY <2>3, <2>4 DEF TakerFitsBooks
  <2>6. Converting' = Converting
    BY <1>1, <2>3 DEF Converting
  <2> QED
    BY <1>1, <2>3, <2>5, <2>6
<1> QED
  BY <1>2, <1>3

\* partiallyFillOrder on the head leaves it some shares and its place.
LEMMA PartiallyFillHeadStep ==
    ASSUME IInv, PartiallyFillHead
    PROVE  IInv'
<1> USE InvariantInParts
<1>1. PICK p \in Prices :
          /\ IsEdge(taker.isBid, p)
          /\ ~Fits(p)
          /\ orderMap' = [orderMap EXCEPT ![Head1(Maker(p))].quantity = @ - taker.sweep]
          /\ levels' = [levels EXCEPT ![Maker(p)].totalVolume = @ - taker.sweep]
  BY DEF PartiallyFillHead
<1> DEFINE k == Maker(p)
           head == Head1(k)
<1>2. k \in DOMAIN levels
  BY <1>1, EdgeIsLevel
<1>3. head \in DOMAIN orderMap /\ orderMap[head] \in Ticket
  BY <1>2, HeadIsMapped DEF IInv
<1>4. taker.sweep \in Int
  BY DEF Taker
<1>5. orderMap[head].quantity - taker.sweep \in Nat \ {0}
  <2>1. ~(orderMap[head].quantity <= taker.sweep)
    BY <1>1 DEF Fits
  <2> QED
    BY <1>3, <1>4, <2>1 DEF Ticket
<1>6. levels[k] \in Level
  BY <1>2 DEF BooksOK, LevelsOK, FunctionInto
<1> HIDE DEF k, head
<1>7. /\ DOMAIN levels' = DOMAIN levels
      /\ \A kk \in DOMAIN levels \ {k} : levels'[kk] = levels[kk]
      /\ levels'[k] \in Level
      /\ levels'[k].orders = levels[k].orders
  <2>1. levels' = [levels EXCEPT ![k] = [levels[k] EXCEPT !.totalVolume = @ - taker.sweep]]
    BY <1>1 DEF k
  <2>2. ASSUME NEW level \in Level
        PROVE  LET new == [level EXCEPT !.totalVolume = @ - taker.sweep]
               IN  new \in Level /\ new.orders = level.orders
    BY <1>4 DEF Level
  <2> QED
    BY <1>2, <1>6, <2>1, <2>2
<1>8. /\ DOMAIN orderMap' = DOMAIN orderMap
      /\ \A id \in DOMAIN orderMap \ {head} : orderMap'[id] = orderMap[id]
      /\ orderMap'[head] \in Ticket
      /\ orderMap'[head].quantity # 0
      /\ orderMap'[head].parentLevel = orderMap[head].parentLevel
  <2>1. orderMap' = [orderMap EXCEPT ![head] =
                        [orderMap[head] EXCEPT !.quantity = @ - taker.sweep]]
    BY <1>1 DEF head, k
  <2>2. ASSUME NEW ticket \in Ticket, NEW quantity \in Nat
        PROVE  LET new == [ticket EXCEPT !.quantity = quantity]
               IN  /\ new \in Ticket /\ new.quantity = quantity
                   /\ new.parentLevel = ticket.parentLevel
    BY DEF Ticket
  <2> QED
    BY <1>3, <1>5, <2>1, <2>2
<1>9. /\ taker' \in Taker
      /\ pc' \in Loops \cup {"idle"}
      /\ TakerFitsBooks'
      /\ Converting' = Converting
  <2>1. pc = "sweep" /\ SweepReturns(taker.sweep)
    BY DEF PartiallyFillHead
  <2> QED
    BY <1>4, <1>8, <2>1, SweepReturnsStep
<1>10. EveryTicketQueuedOnce'
  <2>1. \A kk \in DOMAIN levels : levels'[kk].orders = levels[kk].orders
    BY <1>7
  <2>2. \A id \in DOMAIN orderMap : orderMap'[id].parentLevel = orderMap[id].parentLevel
    BY <1>8
  <2>3. QueuesOK(levels, orderMap, Converting)
    BY QueuesRestated DEF BooksOK
  <2>4. QueuesOK(levels', orderMap', Converting)
    BY <1>7, <1>8, <2>1, <2>2, <2>3 DEF QueuesOK
  <2> QED
    BY <1>9, <2>4, QueuesRestatedNext
<1>11. LevelsOK(levels') /\ FunctionInto(orderMap', Ids, Ticket) /\ NoEmptyTicket'
  BY <1>7, <1>8 DEF BooksOK, LevelsOK, FunctionInto, NoEmptyTicket
<1>12. BooksOK'
  BY <1>10, <1>11 DEF BooksOK, LevelsOK, FunctionInto
<1> QED
  BY <1>9, <1>12, InvariantInPartsNext

\* marketOrderHelper returns without another trade.
LEMMA EndSweepStep ==
    ASSUME IInv, EndSweep
    PROVE  IInv'
<1> USE InvariantInParts
<1>1. pc = "sweep" /\ SweepReturns(0) /\ UNCHANGED <<levels, orderMap>>
  BY DEF EndSweep
<1>2. /\ taker' \in Taker
      /\ pc' \in Loops \cup {"idle"}
      /\ TakerFitsBooks'
      /\ Converting' = Converting
  BY <1>1, SweepReturnsStep
<1> QED
  BY <1>1, <1>2, SameBooks, InvariantInPartsNext

\* What the taker is when a loop calls marketOrderHelper.
LEMMA SweepRestTaker ==
    ASSUME taker \in Taker, NEW p, SweepRest(p)
    PROVE  /\ pc' = "sweep"
           /\ taker' \in Taker
           /\ taker'.then = "stops"
<1> DEFINE nothing == 0
<1>1. taker' = [taker EXCEPT !.sweep = taker.rest, !.rest = nothing, !.then = "stops"]
  BY DEF SweepRest, Run
<1>2. nothing \in Nat /\ taker.rest \in Int /\ "stops" \in Loops \ {"sweep"}
  BY DEF Taker, Loops
<1> HIDE DEF nothing
<1>3. taker' \in Taker /\ taker'.then = "stops"
  BY <1>1, <1>2 DEF Taker
<1> QED
  BY <1>3 DEF SweepRest, Run

\* ... with a level that is smaller than the taker: some shares stay with it.
LEMMA SweepLevelTaker ==
    ASSUME taker \in Taker, LevelsOK(levels), NEW p, Maker(p) \in DOMAIN levels,
           pc \in Loops \ {"sweep"}, SweepLevel(p)
    PROVE  /\ pc' = "sweep"
           /\ taker' \in Taker
           /\ taker'.then = pc
           /\ taker'.id = taker.id
           /\ taker'.limit = taker.limit
           /\ taker'.rest # 0
<1> DEFINE volume == levels[Maker(p)].totalVolume
           rest == taker.rest - volume
<1>1. taker' = [taker EXCEPT !.sweep = volume, !.rest = rest, !.then = pc]
  BY DEF SweepLevel, Run
<1>2. volume \in Int /\ rest \in Nat /\ rest # 0
  BY DEF SweepLevel, LevelsOK, FunctionInto, Level, Taker
<1> HIDE DEF volume, rest
<1>3. /\ taker' \in Taker /\ taker'.then = pc /\ taker'.id = taker.id
      /\ taker'.limit = taker.limit /\ taker'.rest = rest
  BY <1>1, <1>2 DEF Taker
<1> QED
  BY <1>2, <1>3 DEF SweepLevel, Run

\* A round of limitOrderAsMarketOrder keeps the invariant.
LEMMA LimitLoopStep ==
    ASSUME IInv, limitOrderAsMarketOrder
    PROVE  IInv'
<1> USE InvariantInParts
<1>1. PICK p \in Prices : IsEdge(taker.isBid, p) /\ (SweepRest(p) \/ SweepLevel(p))
  BY DEF limitOrderAsMarketOrder, AcceptsEdge
<1>2. pc = "limit" /\ pc \in Loops \ {"sweep"} /\ UNCHANGED <<levels, orderMap>>
  BY DEF limitOrderAsMarketOrder, Loops
<1>3. Maker(p) \in DOMAIN levels
  BY <1>1, EdgeIsLevel
<1>4. CASE SweepRest(p)
  <2>1. pc' = "sweep" /\ taker' \in Taker /\ taker'.then = "stops"
    BY <1>4, SweepRestTaker
  <2>2. Converting' = Converting /\ TakerFitsBooks'
    BY <1>2, <2>1 DEF Converting, TakerFitsBooks, InLoop
  <2> QED
    BY <1>2, <2>1, <2>2, SameBooks, InvariantInPartsNext DEF Loops
<1>5. CASE SweepLevel(p)
  <2>1. /\ pc' = "sweep" /\ taker' \in Taker /\ taker'.then = "limit"
        /\ taker'.id = taker.id /\ taker'.limit = taker.limit
    BY <1>2, <1>3, <1>5, SweepLevelTaker DEF BooksOK
  <2>2. Converting' = Converting /\ TakerFitsBooks'
    BY <1>2, <2>1 DEF Converting, TakerFitsBooks, InLoop
  <2> QED
    BY <1>2, <2>1, <2>2, SameBooks, InvariantInPartsNext DEF Loops
<1> QED
  BY <1>1, <1>4, <1>5

\* submitLimitTicket rests its residual, under its free id, or runs the stops.
LEMMA LimitLoopEndsStep ==
    ASSUME IInv, LimitLoopEnds
    PROVE  IInv'
<1> USE InvariantInParts
<1>1. pc = "limit" /\ Converting = {}
  BY DEF LimitLoopEnds, Converting
<1>2. taker.id \in Ids \ DOMAIN orderMap /\ taker.limit \in Prices
  BY <1>1 DEF TakerFitsBooks, InLoop
<1>3. taker.isBid \in BOOLEAN /\ taker.rest \in Nat
  BY DEF Taker
<1>4. CASE taker.rest # 0
  <2>1. /\ Rest(taker.id, taker.isBid, taker.rest, taker.limit,
                LimitLevel(taker.isBid, taker.limit))
        /\ Return
    BY <1>4 DEF LimitLoopEnds
  <2>2. /\ Converting' = {} /\ TakerFitsBooks' /\ taker' \in Taker
        /\ pc' \in Loops \cup {"idle"}
    BY <2>1, TakersAreTyped DEF Return, Converting, TakerFitsBooks, InLoop
  <2>3. BooksOK'
    BY <1>1, <1>2, <1>3, <1>4, <2>1, <2>2, LevelsOfPrices, RestNewTicket
  <2> QED
    BY <2>2, <2>3, InvariantInPartsNext
<1>5. CASE taker.rest = 0
  <2>1. Run("stops", StopsOf(taker.isBid)) /\ UNCHANGED <<levels, orderMap>>
    BY <1>5 DEF LimitLoopEnds
  <2>2. /\ Converting' = {} /\ TakerFitsBooks' /\ taker' \in Taker
        /\ pc' \in Loops \cup {"idle"}
    BY <1>3, <2>1, TakersAreTyped DEF Run, Converting, TakerFitsBooks, InLoop, Loops
  <2> QED
    BY <1>1, <2>1, <2>2, SameBooks, InvariantInPartsNext
<1> QED
  BY <1>4, <1>5

\* A round of existingOrderAsMarketOrder: the last one unmaps the ticket.
LEMMA ConvertLoopStep ==
    ASSUME IInv, existingOrderAsMarketOrder
    PROVE  IInv'
<1> USE InvariantInParts
<1>1. PICK p \in Prices :
          /\ IsEdge(taker.isBid, p)
          /\ \/ SweepRest(p) /\ orderMap' = Without(orderMap, taker.id)
             \/ SweepLevel(p) /\ UNCHANGED orderMap
  BY DEF existingOrderAsMarketOrder, AcceptsEdge
<1>2. pc = "convert" /\ pc \in Loops \ {"sweep"} /\ levels' = levels
  BY DEF existingOrderAsMarketOrder, Loops
<1>3. Maker(p) \in DOMAIN levels
  BY <1>1, EdgeIsLevel
<1>4. Converting = {taker.id}
  BY <1>2 DEF Converting
<1>5. CASE SweepRest(p) /\ orderMap' = Without(orderMap, taker.id)
  <2>1. pc' = "sweep" /\ taker' \in Taker /\ taker'.then = "stops"
    BY <1>5, SweepRestTaker
  <2>2. Converting' = {} /\ TakerFitsBooks'
    BY <2>1 DEF Converting, TakerFitsBooks, InLoop
  <2>3. /\ DOMAIN orderMap' = DOMAIN orderMap \ {taker.id}
        /\ \A id \in DOMAIN orderMap' : orderMap'[id] = orderMap[id]
    BY <1>5 DEF Without, Restrict
  <2>4. QueuesOK(levels, orderMap, {taker.id})
    BY <1>4, QueuesRestated DEF BooksOK
  <2>5. QueuesOK(levels', orderMap', {})
    BY <1>2, <2>3, <2>4 DEF QueuesOK
  <2>6. EveryTicketQueuedOnce'
    BY <2>2, <2>5, QueuesRestatedNext
  <2>7. BooksOK'
    BY <1>2, <2>3, <2>6 DEF BooksOK, LevelsOK, FunctionInto, NoEmptyTicket
  <2> QED
    BY <2>1, <2>2, <2>7, InvariantInPartsNext DEF Loops
<1>6. CASE SweepLevel(p) /\ UNCHANGED orderMap
  <2>1. /\ pc' = "sweep" /\ taker' \in Taker /\ taker'.then = "convert"
        /\ taker'.id = taker.id /\ taker'.limit = taker.limit /\ taker'.rest # 0
    BY <1>2, <1>3, <1>6, SweepLevelTaker DEF BooksOK
  <2>2. Converting' = Converting
    BY <1>4, <2>1 DEF Converting
  <2>3. TakerFitsBooks'
    BY <1>2, <1>6, <2>1 DEF TakerFitsBooks, InLoop
  <2> QED
    BY <1>2, <1>6, <2>1, <2>2, <2>3, SameBooks, InvariantInPartsNext DEF Loops
<1> QED
  BY <1>1, <1>5, <1>6

\* The converted ticket, which has shares left, gets into a limit queue.
LEMMA ConvertLoopEndsStep ==
    ASSUME IInv, ConvertLoopEnds
    PROVE  IInv'
<1> USE InvariantInParts
<1> DEFINE id == taker.id
           k == LimitLevel(taker.isBid, taker.limit)
<1>1. pc = "convert" /\ Converting = {id}
  BY DEF ConvertLoopEnds, Converting
<1>2. id \in DOMAIN orderMap /\ taker.limit \in Prices /\ taker.rest # 0
  BY <1>1 DEF TakerFitsBooks, InLoop
<1>3. /\ levels' = Enqueue(levels, k, taker.isBid, id, taker.rest)
      /\ orderMap' = [orderMap EXCEPT ![id].quantity = taker.rest, ![id].parentLevel = k]
      /\ Run("stops", StopsOf(taker.isBid))
  BY <1>2 DEF ConvertLoopEnds
<1>4. taker.isBid \in BOOLEAN /\ taker.rest \in Nat \ {0}
  BY <1>2 DEF Taker
<1>5. id \in Ids /\ orderMap[id] \in Ticket
  BY <1>2 DEF BooksOK, FunctionInto
<1>6. k \in Books \X Prices
  BY <1>2, <1>4, LevelsOfPrices
<1>7. /\ Converting' = {} /\ TakerFitsBooks' /\ taker' \in Taker
      /\ pc' \in Loops \cup {"idle"}
  BY <1>3, <1>4, TakersAreTyped DEF Run, Converting, TakerFitsBooks, InLoop, Loops
<1> HIDE DEF k, id
<1>8. /\ DOMAIN orderMap' = DOMAIN orderMap \cup {id}
      /\ orderMap'[id] \in Ticket
      /\ orderMap'[id].quantity = taker.rest
      /\ orderMap'[id].parentLevel = k
      /\ \A other \in DOMAIN orderMap \ {id} : orderMap'[other] = orderMap[other]
  <2> DEFINE new == [orderMap[id] EXCEPT !.quantity = taker.rest, !.parentLevel = k]
  <2>1. orderMap' = [orderMap EXCEPT ![id] = new]
    BY <1>2, <1>3
  <2>2. ASSUME NEW ticket \in Ticket, NEW quantity \in Nat
        PROVE  LET t == [ticket EXCEPT !.quantity = quantity, !.parentLevel = k]
               IN  t \in Ticket /\ t.quantity = quantity /\ t.parentLevel = k
    BY <1>6 DEF Ticket
  <2>3. new \in Ticket /\ new.quantity = taker.rest /\ new.parentLevel = k
    BY <1>4, <1>5, <2>2
  <2> HIDE DEF new
  <2> QED
    BY <1>2, <2>1, <2>3 DEF id
<1>9. BooksOK'
  <2>1. id \notin DOMAIN orderMap \ Converting /\ Converting \subseteq {id}
    BY <1>1
  <2> QED
    BY <1>3, <1>4, <1>5, <1>6, <1>7, <1>8, <2>1, RestStep DEF BooksOK
<1> QED
  BY <1>7, <1>9, InvariantInPartsNext

\* A triggered stop leaves its queue and orderMap.
LEMMA TriggerStopStep ==
    ASSUME IInv, TriggerStop
    PROVE  IInv'
<1> USE InvariantInParts
<1>1. PICK p \in Prices :
          LET head == Head1(<<"stop", p>>)
          IN  /\ Triggered(p)
              /\ levels' = Unlink(levels, <<"stop", p>>, 1)
              /\ orderMap' = Without(orderMap, head)
              /\ Run("sweep", MarketTaker(taker.isBid, orderMap[head].quantity))
  BY DEF TriggerStop
<1> DEFINE k == <<"stop", p>>
<1>2. k \in DOMAIN levels
  BY <1>1, StopEdgeIsLevel
<1>3. /\ 1 \in DOMAIN levels[k].orders
      /\ Head1(k) = levels[k].orders[1]
      /\ orderMap[Head1(k)].quantity \in Nat
  BY <1>2, HeadIsMapped DEF IInv, Ticket
<1>4. /\ Converting' = {} /\ TakerFitsBooks' /\ taker' \in Taker
      /\ pc' \in Loops \cup {"idle"}
  BY <1>1, <1>3, SweepForMarketOrder DEF Taker
<1>5. Converting = {}
  BY DEF TriggerStop, Converting
<1>6. BooksOK'
  BY <1>1, <1>2, <1>3, <1>4, <1>5, UnlinkStep
<1> QED
  BY <1>4, <1>6, InvariantInPartsNext

\* A triggered stop-limit leaves its queue and stays in orderMap.
LEMMA TriggerStopLimitStep ==
    ASSUME IInv, TriggerStopLimit
    PROVE  IInv'
<1> USE InvariantInParts
<1>1. PICK p \in Prices :
          LET head == Head1(<<"stop", p>>)
              ticket == orderMap[head]
          IN  /\ Triggered(p)
              /\ ticket.limit # 0
              /\ levels' = Unlink(levels, <<"stop", p>>, 1)
              /\ Run("convert", LimitTaker(head, taker.isBid, ticket.quantity, ticket.limit))
  BY DEF TriggerStopLimit
<1> DEFINE k == <<"stop", p>>
           head == Head1(k)
<1>2. k \in DOMAIN levels
  BY <1>1, StopEdgeIsLevel
<1>3. /\ 1 \in DOMAIN levels[k].orders
      /\ head = levels[k].orders[1]
      /\ head \in DOMAIN orderMap
      /\ orderMap[head] \in Ticket
  BY <1>2, HeadIsMapped DEF IInv
<1>4. /\ head \in Ids
      /\ orderMap[head].quantity \in Nat
      /\ orderMap[head].quantity # 0
      /\ orderMap[head].limit \in Prices
  BY <1>1, <1>3 DEF BooksOK, FunctionInto, NoEmptyTicket, Ticket
<1>5. orderMap' = orderMap /\ Converting = {}
  BY DEF TriggerStopLimit, Converting
<1>6. /\ pc' = "convert" /\ taker' \in Taker /\ taker'.id = head
      /\ taker'.limit = orderMap[head].limit /\ taker'.rest = orderMap[head].quantity
  <2>1. taker.isBid \in BOOLEAN
    BY DEF Taker
  <2> QED
    BY <1>1, <1>4, <2>1, TakersAreTyped DEF Run
<1>7. Converting' = {head}
  BY <1>6 DEF Converting
<1>8. TakerFitsBooks'
  BY <1>3, <1>4, <1>5, <1>6 DEF TakerFitsBooks, InLoop
<1>9. LevelsOK(levels') /\ QueuesOK(levels', orderMap', {head})
  BY <1>1, <1>2, <1>3, <1>5, UnlinkOut
<1>10. EveryTicketQueuedOnce'
  BY <1>7, <1>9, QueuesRestatedNext
<1>11. BooksOK'
  BY <1>5, <1>9, <1>10 DEF BooksOK, LevelsOK, FunctionInto, NoEmptyTicket
<1> QED
  BY <1>6, <1>8, <1>11, InvariantInPartsNext DEF Loops

\* executeStopOrders returns.
LEMMA StopsDoneStep ==
    ASSUME IInv, StopsDone
    PROVE  IInv'
<1> USE InvariantInParts
<1>1. pc = "stops" /\ Return /\ UNCHANGED <<levels, orderMap>>
  BY DEF StopsDone
<1>2. /\ Converting' = Converting /\ TakerFitsBooks' /\ taker' \in Taker
      /\ pc' \in Loops \cup {"idle"}
  BY <1>1, TakersAreTyped DEF Return, Converting, TakerFitsBooks, InLoop
<1> QED
  BY <1>1, <1>2, SameBooks, InvariantInPartsNext

\* Every step keeps the invariant.
LEMMA NextInvariant ==
    ASSUME IInv, PositiveQuantities, [Next]_vars
    PROVE  IInv'
<1>1. CASE Submit
  BY <1>1, SubmitStep
<1>2. CASE Cancels
  BY <1>2, CancelsStep
<1>3. CASE ModifyLimit \/ ModifyStop
  BY <1>3, ModifyStep
<1>4. CASE Engine
  BY <1>4, FillHeadStep, PartiallyFillHeadStep, EndSweepStep, LimitLoopStep,
     LimitLoopEndsStep, ConvertLoopStep, ConvertLoopEndsStep, TriggerStopStep,
     TriggerStopLimitStep, StopsDoneStep
     DEF Engine
<1>5. CASE UNCHANGED vars
  BY <1>5 DEF vars, IInv, TypeOK, FunctionInto, EveryTicketQueuedOnce, QueuesHoldTickets,
              NoTicketTwice, TicketsAreQueued, NoEmptyLevel, Holds, Converting,
              TakerFitsBooks, InLoop, NoEmptyTicket
<1> QED
  BY <1>1, <1>2, <1>3, <1>4, <1>5 DEF Next

\* The invariant on which the theorems below rest.
LEMMA Invariant ==
    ASSUME PositiveQuantities
    PROVE  Spec => []IInv
<1>1. IInv /\ [Next]_vars => IInv'
  BY NextInvariant
<1> QED
  BY <1>1, InitInvariant, PTL DEF Spec

\* If no ticket is submitted or modified with 0 shares, the members that
\* include/MatchingEngine.hpp declares and the locals of each call keep their
\* types: a price level's volume and a ticket's shares do not get negative
\* through partiallyFillOrder, and a converted ticket is always a known one.
THEOREM TypesAreKept ==
    ASSUME PositiveQuantities
    PROVE  Spec => []TypeOK
<1>1. IInv => TypeOK
  BY DEF IInv
<1> QED
  BY <1>1, Invariant, PTL

\* If no ticket is submitted or modified with 0 shares, then whatever calls
\* are made and however deep the cascade of triggered stops, each mapped ticket
\* is in the queue of its parentLimit, once, nothing else is queued, and there
\* is no empty level: getHeadOrder() in marketOrderHelper and executeStopOrders
\* is never null, and cancel() unlinks the ticket from the queue that holds it.
THEOREM TicketsAreQueuedOnce ==
    ASSUME PositiveQuantities
    PROVE  Spec => []EveryTicketQueuedOnce
<1>1. IInv => EveryTicketQueuedOnce
  BY DEF IInv
<1> QED
  BY <1>1, Invariant, PTL

-----------------------------------------------------------------------------
(* Bids and asks overlap only through modifyLimitTicket.                   *)

\* A book with a level has an edge for the taker that trades with it.
LEMMA EdgeExists ==
    ASSUME NEW isBid \in BOOLEAN, NEW q \in BookPrices(MakerBook(isBid))
    PROVE  \E p \in Prices : IsEdge(isBid, p)
<1> DEFINE S == BookPrices(MakerBook(isBid))
           LessThan == OpToRel(<, Nat)
<1>1. S \subseteq Prices /\ Prices \subseteq Nat
  BY MaxPriceIsNatural DEF BookPrices, Prices
<1>2. /\ IsWellFoundedOn(LessThan, Nat)
      /\ \A x, y \in Nat : ~(<<x, y>> \in LessThan) => y <= x
  <2>1. \A x, y \in Nat : x < y => <<x, y>> \in LessThan
    BY DEF OpToRel
  <2> HIDE DEF LessThan
  <2>2. IsWellFoundedOn(LessThan, Nat)
    BY NatLessThanWellFounded DEF LessThan
  <2>3. \A x, y \in Nat : ~(x < y) => y <= x
    OBVIOUS
  <2> QED
    BY <2>1, <2>2, <2>3
<1> HIDE DEF LessThan
<1>3. CASE isBid
  <2>1. PICK p \in S : \A y \in S : ~(<<y, p>> \in LessThan)
    BY <1>1, <1>2, WFMin
  <2>2. \A y \in S : p <= y
    BY <1>1, <1>2, <2>1
  <2> QED
    BY <1>1, <1>3, <2>2 DEF IsEdge
<1>4. CASE ~isBid
  <2> DEFINE Down == {MaxPrice - y : y \in S}
  <2>1. Down \subseteq Nat /\ Down # {}
    BY <1>1, MaxPriceIsNatural DEF Prices
  <2>2. PICK d \in Down : \A e \in Down : ~(<<e, d>> \in LessThan)
    BY <1>2, <2>1, WFMin
  <2>3. PICK p \in S : d = MaxPrice - p
    OBVIOUS
  <2>4. ASSUME NEW y \in S
        PROVE  p >= y
    <3>1. MaxPrice - y \in Down
      OBVIOUS
    <3>2. MaxPrice - p <= MaxPrice - y
      BY <1>2, <2>1, <2>2, <2>3, <3>1
    <3>3. p \in Nat /\ y \in Nat
      BY <1>1
    <3> QED
      BY <3>2, <3>3, MaxPriceIsNatural
  <2> QED
    BY <1>1, <1>4, <2>4 DEF IsEdge
<1> QED
  BY <1>3, <1>4

\* Taking levels away, or adding stop levels, crosses nothing.
LEMMA NoNewLimitLevel ==
    ASSUME ~Crossed,
           \A k \in DOMAIN levels' : k \in DOMAIN levels \/ k[1] = "stop"
    PROVE  ~Crossed'
<1>1. \A book \in LimitBooks, p \in Prices : p \in BookPrices(book)' => p \in BookPrices(book)
  BY DEF BookPrices, LimitBooks
<1> QED
  BY <1>1 DEF Crossed, LimitBooks, BookPrices

\* The residual of a limit order, whose loop has left no acceptable edge, may
\* get a new level of its own.
LEMMA ResidualDoesNotCross ==
    ASSUME ~Crossed, taker.isBid \in BOOLEAN, taker.limit \in Prices,
           \A p \in Prices : ~AcceptsEdge(p),
           \A k \in DOMAIN levels' :
              k \in DOMAIN levels \/ k = LimitLevel(taker.isBid, taker.limit)
    PROVE  ~Crossed'
<1> SUFFICES ASSUME NEW p \in BookPrices("buy")', NEW q \in BookPrices("sell")', p >= q
             PROVE  FALSE
  BY DEF Crossed
<1>1. Prices \subseteq Nat /\ p \in Prices /\ q \in Prices
  BY MaxPriceIsNatural DEF BookPrices, Prices
<1>2. CASE taker.isBid
  <2>1. q \in BookPrices(MakerBook(TRUE)) /\ q \in BookPrices("sell")
    BY <1>1, <1>2 DEF BookPrices, MakerBook, LimitBook, LimitLevel
  <2>2. p \in BookPrices("buy") \/ p = taker.limit
    BY <1>1, <1>2 DEF BookPrices, LimitBook, LimitLevel
  <2>3. p = taker.limit
    BY <2>1, <2>2 DEF Crossed
  <2>4. PICK edge \in Prices : IsEdge(TRUE, edge)
    BY <2>1, EdgeExists
  <2>5. edge <= q
    BY <2>1, <2>4 DEF IsEdge
  <2>6. ~(edge <= taker.limit)
    BY <1>2, <2>4 DEF AcceptsEdge, Accepts
  <2> QED
    BY <1>1, <2>3, <2>5, <2>6
<1>3. CASE ~taker.isBid
  <2>1. p \in BookPrices(MakerBook(FALSE)) /\ p \in BookPrices("buy")
    BY <1>1, <1>3 DEF BookPrices, MakerBook, LimitBook, LimitLevel
  <2>2. q \in BookPrices("sell") \/ q = taker.limit
    BY <1>1, <1>3 DEF BookPrices, LimitBook, LimitLevel
  <2>3. q = taker.limit
    BY <2>1, <2>2 DEF Crossed
  <2>4. PICK edge \in Prices : IsEdge(FALSE, edge)
    BY <2>1, EdgeExists
  <2>5. edge >= p
    BY <2>1, <2>4 DEF IsEdge
  <2>6. ~(edge >= q)
    BY <1>3, <2>3, <2>4 DEF AcceptsEdge, Accepts
  <2>7. edge \in Nat /\ p \in Nat /\ q \in Nat /\ p >= q
    BY <1>1
  <2> QED
    BY <2>5, <2>6, <2>7
<1> QED
  BY <1>2, <1>3

\* execute and cancel bring no new level.
LEMMA UnlinkDomain ==
    ASSUME NEW k, NEW i
    PROVE  DOMAIN Unlink(levels, k, i) \subseteq DOMAIN levels
BY DEF Unlink, Without, Restrict

\* The same for the cancel of a ticket found by its id.
LEMMA CancelledDomain ==
    ASSUME NEW id
    PROVE  DOMAIN Cancelled(id) \subseteq DOMAIN levels
BY UnlinkDomain DEF Cancelled

\* Every step but that of modifyLimitTicket leaves uncrossed books uncrossed.
LEMMA StepsThatDoNotCross ==
    ASSUME IInv, ~Crossed, Submit \/ Cancels \/ ModifyStop \/ Engine
    PROVE  ~Crossed'
<1>1. CASE Submit
  <2>1. \A k \in DOMAIN levels' : k \in DOMAIN levels \/ k[1] = "stop"
    <3>1. \/ levels' = levels
          \/ \E id, isBid, quantity, price :
                levels' = Enqueue(levels, StopLevel(isBid, price), isBid, id, quantity)
      BY <1>1 DEF Submit, submitMarketTicket, submitLimitTicket, submitStopTicket,
                  submitStopLimitTicket, Rest
    <3>2. CASE levels' = levels
      BY <3>2
    <3>3. ASSUME NEW id, NEW isBid, NEW quantity, NEW price,
                 levels' = Enqueue(levels, StopLevel(isBid, price), isBid, id, quantity)
          PROVE  \A k \in DOMAIN levels' : k \in DOMAIN levels \/ k[1] = "stop"
      <4>1. DOMAIN levels' = DOMAIN levels \cup {<<"stop", price>>}
        BY <3>3 DEF StopLevel, Enqueue, With
      <4> QED
        BY <4>1
    <3> QED
      BY <3>1, <3>2, <3>3
  <2> QED
    BY <2>1, NoNewLimitLevel
<1>2. CASE Cancels
  <2>1. PICK id : levels' = Cancelled(id)
    BY <1>2 DEF Cancels, cancelLimitTicket, cancelStopTicket, cancelStopLimitTicket, Cancel
  <2> QED
    BY <2>1, CancelledDomain, NoNewLimitLevel
<1>3. CASE ModifyStop
  <2>1. PICK id, isBid, quantity, price :
            levels' = Enqueue(Cancelled(id), StopLevel(isBid, price), isBid, id, quantity)
    BY <1>3 DEF ModifyStop, modifyStopTicket, modifyStopLimitTicket, Move
  <2>2. \A k \in DOMAIN levels' : k \in DOMAIN levels \/ k[1] = "stop"
    <3>1. DOMAIN levels' = DOMAIN Cancelled(id) \cup {<<"stop", price>>}
      BY <2>1 DEF StopLevel, Enqueue, With
    <3> QED
      BY <3>1, CancelledDomain
  <2> QED
    BY <2>2, NoNewLimitLevel
<1>4. CASE FillHead \/ TriggerStop \/ TriggerStopLimit
  <2>1. PICK k : levels' = Unlink(levels, k, 1)
    BY <1>4 DEF FillHead, TriggerStop, TriggerStopLimit
  <2> QED
    BY <2>1, UnlinkDomain, NoNewLimitLevel
<1>5. CASE PartiallyFillHead
  <2>1. DOMAIN levels' = DOMAIN levels
    BY <1>5 DEF PartiallyFillHead
  <2> QED
    BY <2>1, NoNewLimitLevel
<1>6. CASE EndSweep \/ limitOrderAsMarketOrder \/ existingOrderAsMarketOrder \/ StopsDone
  <2>1. levels' = levels
    BY <1>6 DEF EndSweep, limitOrderAsMarketOrder, existingOrderAsMarketOrder, StopsDone
  <2> QED
    BY <2>1, NoNewLimitLevel
<1>7. CASE LimitLoopEnds \/ ConvertLoopEnds
  <2>1. taker.isBid \in BOOLEAN /\ taker.limit \in Prices
    BY <1>7 DEF IInv, TypeOK, Taker, TakerFitsBooks, InLoop, LimitLoopEnds, ConvertLoopEnds
  <2>2. \/ levels' = levels
        \/ /\ \A p \in Prices : ~AcceptsEdge(p)
           /\ levels' = Enqueue(levels, LimitLevel(taker.isBid, taker.limit),
                                taker.isBid, taker.id, taker.rest)
    BY <1>7 DEF LimitLoopEnds, ConvertLoopEnds, Rest
  <2>3. CASE levels' = levels
    BY <2>3, NoNewLimitLevel
  <2>4. CASE /\ \A p \in Prices : ~AcceptsEdge(p)
             /\ levels' = Enqueue(levels, LimitLevel(taker.isBid, taker.limit),
                                  taker.isBid, taker.id, taker.rest)
    <3>1. DOMAIN levels' = DOMAIN levels \cup {LimitLevel(taker.isBid, taker.limit)}
      BY <2>4 DEF Enqueue, With
    <3> QED
      BY <2>1, <2>4, <3>1, ResidualDoesNotCross
  <2> QED
    BY <2>2, <2>3, <2>4
<1> QED
  BY <1>1, <1>2, <1>3, <1>4, <1>5, <1>6, <1>7 DEF Engine

\* If no ticket is submitted or modified with 0 shares, then no step but
\* modifyLimitTicket makes bids and asks overlap: neither the residual of
\* submitLimitTicket nor that of a triggered stop-limit order rests at a price
\* the opposite book would have accepted.
THEOREM BooksCrossOnlyByModify ==
    ASSUME PositiveQuantities
    PROVE  Spec => OnlyModifyCrosses
<1>1. IInv /\ [Next]_vars => [~Crossed /\ Crossed' => ModifyLimit]_vars
  BY StepsThatDoNotCross DEF Next
<1> QED
  BY <1>1, Invariant, PTL DEF Spec, OnlyModifyCrosses

-----------------------------------------------------------------------------
(* Volumes.                                                                *)
(*                                                                         *)
(* The tickets of a queue are the mapped tickets whose parentLevel is that *)
(* level.  So a volume is the sum over a set of tickets, and the order of  *)
(* the queue is out of the way.  As above, ls are any books, om any        *)
(* tickets and out those that are in no queue.                             *)

Shares(om) == [id \in DOMAIN om |-> om[id].quantity]

Members(om, out, k) == {id \in DOMAIN om \ out : om[id].parentLevel = k}

VolumesOK(ls, om, out) ==
    \A k \in DOMAIN ls :
        ls[k].totalVolume = SumFunctionOnSet(Shares(om), Members(om, out, k))

\* The tickets of a level are finitely many.
LEMMA QueueIsMembers ==
    ASSUME NEW ls, LevelsOK(ls), NEW om, NEW out, QueuesOK(ls, om, out), NEW k \in DOMAIN ls
    PROVE  LET queue == ls[k].orders
           IN  /\ IsFiniteSet(DOMAIN queue)
               /\ Members(om, out, k) = {queue[i] : i \in DOMAIN queue}
               /\ IsFiniteSet(Members(om, out, k))
<1> DEFINE queue == ls[k].orders
<1>1. queue \in Seq(Ids)
  BY DEF LevelsOK, FunctionInto, Level
<1>2. DOMAIN queue = 1..Len(queue) /\ Len(queue) \in Nat
  BY <1>1, LenProperties
<1>3. IsFiniteSet(DOMAIN queue)
  BY <1>2, FS_Interval
<1>4. Members(om, out, k) = {queue[i] : i \in DOMAIN queue}
  BY DEF QueuesOK, Members
<1>5. IsFiniteSet({queue[i] : i \in DOMAIN queue})
  <2> DEFINE S == DOMAIN queue
             T == {queue[i] : i \in DOMAIN queue}
             f == [i \in S |-> queue[i]]
  <2>1. f \in Surjection(S, T)
    BY DEF Surjection
  <2> HIDE DEF S, T, f
  <2>2. IsFiniteSet(T)
    BY <1>3, <2>1, FS_Surjection DEF S, ExistsSurjection
  <2> QED
    BY <2>2 DEF T
<1> QED
  BY <1>3, <1>4, <1>5

\* The shares of tickets are naturals.
LEMMA SharesAreTyped ==
    ASSUME NEW om, FunctionInto(om, Ids, Ticket), NEW out, NEW k
    PROVE  /\ IntValued(Shares(om), Members(om, out, k))
           /\ \A id \in Members(om, out, k) :
                 /\ Shares(om)[id] = om[id].quantity
                 /\ Shares(om)[id] \in Nat
BY DEF FunctionInto, Ticket, Shares, Members, IntValued

-----------------------------------------------------------------------------
(* Volume, which sums along the queue, is the sum over its tickets.        *)

VolumeOf(ls, om, k) ==
    MapThenSumSet(LAMBDA i : om[ls[k].orders[i]].quantity, DOMAIN ls[k].orders)

\* Along the queue or by ticket, the sum is the same.
LEMMA VolumeIsSumOfMembers ==
    ASSUME NEW ls, LevelsOK(ls), NEW om, FunctionInto(om, Ids, Ticket),
           NEW out, QueuesOK(ls, om, out), NEW k \in DOMAIN ls
    PROVE  VolumeOf(ls, om, k) = SumFunctionOnSet(Shares(om), Members(om, out, k))
<1> DEFINE queue == ls[k].orders
           S == DOMAIN queue
           T == Members(om, out, k)
           f == [i \in S |-> om[queue[i]].quantity]
           Step(g, s) == IF s = {} THEN 0
                         ELSE om[queue[Chosen(s)]].quantity + g[s \ {Chosen(s)}]
           sum == CHOOSE g : g = [s \in SUBSET S |-> Step(g, s)]
<1>1. IsFiniteSet(S) /\ T = {queue[i] : i \in S} /\ IsFiniteSet(T)
  BY QueueIsMembers
<1>2. IntValued(Shares(om), T) /\ \A id \in T : Shares(om)[id] = om[id].quantity
  BY SharesAreTyped
<1>3. \A i \in S : queue[i] \in T /\ f[i] = Shares(om)[queue[i]]
  BY <1>1, <1>2
<1>4. IntValued(f, S)
  BY <1>2, <1>3 DEF IntValued
<1>5. \A i, j \in S : queue[i] = queue[j] => i = j
  BY DEF QueuesOK
<1>6. SumFunctionOnSet(f, S) = SumFunctionOnSet(Shares(om), T)
  <2> HIDE DEF queue, S, T, f
  <2> QED
    BY <1>1, <1>2, <1>3, <1>4, <1>5, SumRenamed
<1>7. \A s \in SUBSET S : \A g : Step(g, s) = SumStep(g, f, s)
  BY DEF SumStep, Chosen
<1>8. PICK g : IsSum(g, f, S) /\ SumFunctionOnSet(f, S) = g[S]
  BY <1>1, FoldIsSum
<1>9. VolumeOf(ls, om, k) = sum[S]
  BY DEF VolumeOf, MapThenSumSet, MapThenFoldSet, Chosen
<1> HIDE DEF Step, f
<1>10. g = [s \in SUBSET S |-> Step(g, s)]
  BY <1>7, <1>8 DEF IsSum
<1>11. sum = [s \in SUBSET S |-> Step(sum, s)]
  BY <1>10
<1> HIDE DEF sum, S
<1>12. IsSum(sum, f, S)
  BY <1>7, <1>11 DEF IsSum
<1>13. sum[S] = g[S]
  BY <1>1, <1>4, <1>8, <1>12, SumIsUnique
<1> QED
  BY <1>6, <1>8, <1>9, <1>13

\* The invariant in terms of sets of tickets.
LEMMA VolumesRestated ==
    ASSUME LevelsOK(levels), FunctionInto(orderMap, Ids, Ticket), EveryTicketQueuedOnce
    PROVE  VolumeIsSum <=> VolumesOK(levels, orderMap, Converting)
<1>1. QueuesOK(levels, orderMap, Converting)
  BY QueuesRestated
<1>2. \A k : Volume(k) = VolumeOf(levels, orderMap, k)
  BY DEF Volume, VolumeOf
<1>3. \A k \in DOMAIN levels :
         VolumeOf(levels, orderMap, k)
             = SumFunctionOnSet(Shares(orderMap), Members(orderMap, Converting, k))
  BY <1>1, VolumeIsSumOfMembers
<1> QED
  BY <1>2, <1>3 DEF VolumeIsSum, VolumesOK

\* The same for the state after a step.
LEMMA VolumesRestatedNext ==
    ASSUME LevelsOK(levels'), FunctionInto(orderMap', Ids, Ticket), EveryTicketQueuedOnce'
    PROVE  VolumeIsSum' <=> VolumesOK(levels', orderMap', Converting')
<1>1. QueuesOK(levels', orderMap', Converting')
  BY QueuesRestatedNext
<1>2. \A k : Volume(k)' = VolumeOf(levels', orderMap', k)
  BY DEF Volume, VolumeOf, MapThenSumSet, MapThenFoldSet
<1>3. \A k \in DOMAIN levels' :
         VolumeOf(levels', orderMap', k)
             = SumFunctionOnSet(Shares(orderMap'), Members(orderMap', Converting', k))
  BY <1>1, VolumeIsSumOfMembers
<1> QED
  BY <1>2, <1>3 DEF VolumeIsSum, VolumesOK

-----------------------------------------------------------------------------
(* What the helpers of the actions do to the volumes.                      *)

\* Volumes depend on the queued tickets and on nothing else.
LEMMA SameVolumes ==
    ASSUME NEW ls, LevelsOK(ls), NEW before, FunctionInto(before, Ids, Ticket),
           NEW out, QueuesOK(ls, before, out), VolumesOK(ls, before, out),
           NEW om, NEW omOut, DOMAIN om \ omOut = DOMAIN before \ out,
           \A id \in DOMAIN before \ out : om[id] = before[id]
    PROVE  VolumesOK(ls, om, omOut)
<1> SUFFICES ASSUME NEW k \in DOMAIN ls
             PROVE  ls[k].totalVolume = SumFunctionOnSet(Shares(om), Members(om, omOut, k))
  BY DEF VolumesOK
<1> DEFINE S == Members(before, out, k)
<1>1. Members(om, omOut, k) = S
  BY DEF Members
<1>2. IsFiniteSet(S) /\ IntValued(Shares(before), S)
  BY QueueIsMembers, SharesAreTyped
<1>3. \A id \in S : Shares(before)[id] = Shares(om)[id]
  BY DEF Members, Shares
<1> HIDE DEF S
<1>4. SumFunctionOnSet(Shares(before), S) = SumFunctionOnSet(Shares(om), S)
  BY <1>2, <1>3, SumOfEqualValues
<1> QED
  BY <1>1, <1>4 DEF VolumesOK, S

\* cancel and execute take as many shares from the level as from the queue.
LEMMA UnlinkVolumes ==
    ASSUME LevelsOK(levels), FunctionInto(orderMap, Ids, Ticket),
           NEW out, QueuesOK(levels, orderMap, out), VolumesOK(levels, orderMap, out),
           NEW k \in DOMAIN levels, NEW i \in DOMAIN levels[k].orders,
           NEW om, NEW omOut,
           DOMAIN om \ omOut = (DOMAIN orderMap \ out) \ {levels[k].orders[i]},
           \A id \in DOMAIN om \ omOut : om[id] = orderMap[id]
    PROVE  VolumesOK(Unlink(levels, k, i), om, omOut)
<1> DEFINE id == levels[k].orders[i]
           ls == Unlink(levels, k, i)
           left == [levels[k] EXCEPT !.orders = RemoveAt(@, i),
                                     !.totalVolume = @ - orderMap[id].quantity]
<1>1. /\ id \in DOMAIN orderMap \ out
      /\ orderMap[id].parentLevel = k
      /\ orderMap[id].quantity \in Nat
  BY DEF QueuesOK, FunctionInto, Ticket
<1>2. levels[k] \in Level /\ levels[k].totalVolume \in Int
  BY DEF LevelsOK, FunctionInto, Level
<1>3. left.totalVolume = levels[k].totalVolume - orderMap[id].quantity
  BY <1>2 DEF Level
<1>4. ls = IF left.orders = <<>> THEN Without(levels, k) ELSE [levels EXCEPT ![k] = left]
  BY DEF Unlink
<1> HIDE DEF left
<1>5. /\ DOMAIN ls \subseteq DOMAIN levels
      /\ \A kk \in DOMAIN ls \ {k} : ls[kk] = levels[kk]
      /\ k \in DOMAIN ls => ls[k] = left
  BY <1>4 DEF Without, Restrict
<1> HIDE DEF ls, id
<1> SUFFICES ASSUME NEW kk \in DOMAIN ls
             PROVE  ls[kk].totalVolume = SumFunctionOnSet(Shares(om), Members(om, omOut, kk))
  BY DEF VolumesOK, ls
<1> DEFINE S == Members(orderMap, out, kk)
           T == Members(om, omOut, kk)
<1>6. /\ IsFiniteSet(S) /\ IntValued(Shares(orderMap), S)
      /\ levels[kk].totalVolume = SumFunctionOnSet(Shares(orderMap), S)
  BY <1>5, QueueIsMembers, SharesAreTyped DEF VolumesOK
<1>7. T = S \ {id}
  BY DEF Members, id
<1>8. SumFunctionOnSet(Shares(om), T) = SumFunctionOnSet(Shares(orderMap), T)
  <2>1. IsFiniteSet(T) /\ IntValued(Shares(orderMap), T)
    BY <1>6, <1>7, FS_RemoveElement DEF IntValued
  <2>2. \A other \in T : Shares(orderMap)[other] = Shares(om)[other]
    BY DEF Members, Shares, id
  <2> HIDE DEF T
  <2> QED
    BY <2>1, <2>2, SumOfEqualValues
<1>9. CASE kk = k
  <2>1. id \in S /\ Shares(orderMap)[id] = orderMap[id].quantity
    BY <1>1, <1>9 DEF Members, Shares
  <2> HIDE DEF S, T
  <2>2. /\ SumFunctionOnSet(Shares(orderMap), S)
               = orderMap[id].quantity + SumFunctionOnSet(Shares(orderMap), S \ {id})
        /\ SumFunctionOnSet(Shares(orderMap), S \ {id}) \in Int
    BY <1>6, <2>1, SumWithout
  <2>3. ls[kk].totalVolume = SumFunctionOnSet(Shares(orderMap), S \ {id})
    BY <1>1, <1>3, <1>5, <1>6, <1>9, <2>2
  <2> QED
    BY <1>7, <1>8, <2>3 DEF T
<1>10. CASE kk # k
  <2>1. T = S
    BY <1>1, <1>7, <1>10 DEF Members
  <2> HIDE DEF S, T
  <2> QED
    BY <1>5, <1>6, <1>8, <1>10, <2>1 DEF T
<1> QED
  BY <1>9, <1>10

\* append gives the level as many shares as the queue.
LEMMA EnqueueVolumes ==
    ASSUME NEW ls, LevelsOK(ls), NEW before, FunctionInto(before, Ids, Ticket),
           NEW out, QueuesOK(ls, before, out), VolumesOK(ls, before, out),
           NEW k, NEW isBid, NEW id, NEW quantity \in Nat,
           id \notin DOMAIN before \ out,
           NEW om, NEW omOut,
           DOMAIN om \ omOut = (DOMAIN before \ out) \cup {id},
           om[id].parentLevel = k, om[id].quantity = quantity,
           \A other \in DOMAIN before \ out : om[other] = before[other]
    PROVE  VolumesOK(Enqueue(ls, k, isBid, id, quantity), om, omOut)
<1> DEFINE level == IF k \in DOMAIN ls
                    THEN ls[k]
                    ELSE [isBid |-> isBid, orders |-> <<>>, totalVolume |-> 0]
           longer == [level EXCEPT !.orders = Append(@, id),
                                   !.totalVolume = @ + quantity]
           new == Enqueue(ls, k, isBid, id, quantity)
<1>1. longer.totalVolume = level.totalVolume + quantity
  <2>1. k \in DOMAIN ls => ls[k] \in Level
    BY DEF LevelsOK, FunctionInto
  <2> QED
    BY <2>1 DEF Level
<1>2. /\ k \in DOMAIN ls => level = ls[k]
      /\ k \notin DOMAIN ls => level.totalVolume = 0
  OBVIOUS
<1>3. new = With(ls, k, longer)
  BY DEF Enqueue
<1> HIDE DEF level, longer
<1>4. /\ DOMAIN new = DOMAIN ls \cup {k}
      /\ new[k] = longer
      /\ \A kk \in DOMAIN ls \ {k} : new[kk] = ls[kk]
  BY <1>3 DEF With
<1> HIDE DEF new
<1> SUFFICES ASSUME NEW kk \in DOMAIN new
             PROVE  new[kk].totalVolume = SumFunctionOnSet(Shares(om), Members(om, omOut, kk))
  BY DEF VolumesOK, new
<1> DEFINE S == Members(before, out, kk)
           T == Members(om, omOut, kk)
<1>5. /\ IsFiniteSet(S) /\ IntValued(Shares(before), S)
      /\ kk \in DOMAIN ls => ls[kk].totalVolume = SumFunctionOnSet(Shares(before), S)
  <2>1. CASE kk \in DOMAIN ls
    BY <2>1, QueueIsMembers, SharesAreTyped DEF VolumesOK
  <2>2. CASE kk \notin DOMAIN ls
    <3>1. S = {}
      BY <2>2 DEF QueuesOK, Members
    <3> QED
      BY <2>2, <3>1, FS_EmptySet DEF IntValued
  <2> QED
    BY <2>1, <2>2
<1>6. kk \notin DOMAIN ls => S = {} /\ SumFunctionOnSet(Shares(before), S) = 0
  <2>1. kk \notin DOMAIN ls => S = {}
    BY DEF QueuesOK, Members
  <2> HIDE DEF S
  <2> QED
    BY <1>5, <2>1, SumIsInteger
<1>7. SumFunctionOnSet(Shares(before), S) = SumFunctionOnSet(Shares(om), S)
      /\ IntValued(Shares(om), S)
  <2>1. \A other \in S : Shares(before)[other] = Shares(om)[other]
    BY DEF Members, Shares
  <2> HIDE DEF S
  <2> QED
    BY <1>5, <2>1, SumOfEqualValues DEF IntValued
<1>8. CASE kk = k
  <2>1. T = S \cup {id} /\ id \notin S /\ T \ {id} = S
    BY <1>8 DEF Members
  <2>2. Shares(om)[id] = quantity
    BY DEF Shares
  <2> HIDE DEF S, T
  <2>3. IsFiniteSet(T) /\ IntValued(Shares(om), T)
    BY <1>5, <1>7, <2>1, <2>2, FS_AddElement DEF IntValued
  <2>4. SumFunctionOnSet(Shares(om), T) = quantity + SumFunctionOnSet(Shares(om), S)
        /\ SumFunctionOnSet(Shares(om), S) \in Int
    BY <2>1, <2>2, <2>3, SumWithout
  <2>5. level.totalVolume = SumFunctionOnSet(Shares(om), S)
    BY <1>2, <1>5, <1>6, <1>7, <1>8
  <2>6. new[kk].totalVolume = SumFunctionOnSet(Shares(om), T)
    BY <1>1, <1>4, <1>8, <2>4, <2>5
  <2> QED
    BY <2>6 DEF T
<1>9. CASE kk # k
  <2>1. T = S
    BY <1>9 DEF Members
  <2>2. kk \in DOMAIN ls /\ new[kk] = ls[kk]
    BY <1>4, <1>9
  <2> HIDE DEF S, T
  <2> QED
    BY <1>5, <1>7, <2>1, <2>2 DEF T
<1> QED
  BY <1>8, <1>9

\* partiallyFillOrder takes the same shares from the ticket and from its level.
LEMMA PartialFillVolumes ==
    ASSUME LevelsOK(levels), FunctionInto(orderMap, Ids, Ticket),
           NEW out, QueuesOK(levels, orderMap, out), VolumesOK(levels, orderMap, out),
           NEW k \in DOMAIN levels, NEW id \in DOMAIN orderMap \ out,
           orderMap[id].parentLevel = k, NEW shares \in Int,
           levels' = [levels EXCEPT ![k].totalVolume = @ - shares],
           orderMap' = [orderMap EXCEPT ![id].quantity = @ - shares]
    PROVE  VolumesOK(levels', orderMap', out)
<1>1. /\ DOMAIN levels' = DOMAIN levels
      /\ \A kk \in DOMAIN levels \ {k} : levels'[kk] = levels[kk]
      /\ levels'[k].totalVolume = levels[k].totalVolume - shares
  <2>1. ASSUME NEW level \in Level
        PROVE  [level EXCEPT !.totalVolume = @ - shares].totalVolume
                   = level.totalVolume - shares
    BY DEF Level
  <2>2. levels[k] \in Level
    BY DEF LevelsOK, FunctionInto
  <2>3. levels' = [levels EXCEPT ![k] = [levels[k] EXCEPT !.totalVolume = @ - shares]]
    OBVIOUS
  <2> QED
    BY <2>1, <2>2, <2>3
<1>2. /\ DOMAIN orderMap' = DOMAIN orderMap
      /\ \A other \in DOMAIN orderMap \ {id} : orderMap'[other] = orderMap[other]
      /\ orderMap'[id].quantity = orderMap[id].quantity - shares
      /\ orderMap'[id].parentLevel = k
      /\ orderMap[id].quantity \in Int
  <2>1. ASSUME NEW ticket \in Ticket
        PROVE  LET new == [ticket EXCEPT !.quantity = @ - shares]
               IN  /\ new.quantity = ticket.quantity - shares
                   /\ new.parentLevel = ticket.parentLevel
    BY DEF Ticket
  <2>2. orderMap[id] \in Ticket /\ orderMap[id].quantity \in Int
    BY DEF FunctionInto, Ticket
  <2>3. orderMap' = [orderMap EXCEPT ![id] = [orderMap[id] EXCEPT !.quantity = @ - shares]]
    OBVIOUS
  <2> QED
    BY <2>1, <2>2, <2>3
<1> SUFFICES ASSUME NEW kk \in DOMAIN levels
             PROVE  levels'[kk].totalVolume
                        = SumFunctionOnSet(Shares(orderMap'), Members(orderMap', out, kk))
  BY <1>1 DEF VolumesOK
<1> DEFINE S == Members(orderMap, out, kk)
           old == Shares(orderMap)
           new == Shares(orderMap')
<1>3. Members(orderMap', out, kk) = S
  BY <1>2 DEF Members
<1>4. /\ IsFiniteSet(S) /\ IntValued(old, S)
      /\ levels[kk].totalVolume = SumFunctionOnSet(old, S)
  BY QueueIsMembers, SharesAreTyped DEF VolumesOK
<1>5. \A other \in S \ {id} : new[other] = old[other]
  BY <1>2 DEF Members, Shares
<1>6. CASE kk = k
  <2>1. /\ id \in S
        /\ old[id] = orderMap[id].quantity
        /\ new[id] = orderMap[id].quantity - shares
    BY <1>2, <1>6 DEF Members, Shares
  <2> HIDE DEF S, old, new
  <2>2. IntValued(new, S)
    BY <1>2, <1>4, <1>5, <2>1 DEF IntValued
  <2>3. /\ SumFunctionOnSet(old, S) = old[id] + SumFunctionOnSet(old, S \ {id})
        /\ SumFunctionOnSet(new, S) = new[id] + SumFunctionOnSet(new, S \ {id})
        /\ SumFunctionOnSet(old, S \ {id}) \in Int
    BY <1>4, <2>1, <2>2, SumWithout
  <2>4. SumFunctionOnSet(old, S \ {id}) = SumFunctionOnSet(new, S \ {id})
    <3> DEFINE R == S \ {id}
    <3>1. IsFiniteSet(R) /\ IntValued(old, R) /\ \A other \in R : old[other] = new[other]
      BY <1>4, <1>5, FS_RemoveElement DEF IntValued
    <3> HIDE DEF R
    <3>2. SumFunctionOnSet(old, R) = SumFunctionOnSet(new, R)
      BY <3>1, SumOfEqualValues
    <3> QED
      BY <3>2 DEF R
  <2>5. SumFunctionOnSet(new, S) = SumFunctionOnSet(old, S) - shares
    BY <1>2, <2>1, <2>3, <2>4
  <2> QED
    BY <1>1, <1>3, <1>4, <1>6, <2>5 DEF new
<1>7. CASE kk # k
  <2>1. id \notin S
    BY <1>7 DEF Members
  <2> HIDE DEF S, old, new
  <2>2. \A other \in S : old[other] = new[other]
    BY <1>5, <2>1
  <2>3. SumFunctionOnSet(old, S) = SumFunctionOnSet(new, S)
    BY <1>4, <2>2, SumOfEqualValues
  <2> QED
    BY <1>1, <1>3, <1>4, <1>7, <2>3 DEF new
<1> QED
  BY <1>6, <1>7

-----------------------------------------------------------------------------
(* Every step keeps the volumes.                                           *)

Counted == VolumesOK(levels, orderMap, Converting)

\* What the lemmas above ask of the state before a step.
LEMMA CountedBooks ==
    ASSUME IInv
    PROVE  /\ LevelsOK(levels)
           /\ FunctionInto(orderMap, Ids, Ticket)
           /\ QueuesOK(levels, orderMap, Converting)
BY QueuesRestated DEF IInv, TypeOK, LevelsOK

\* A public call converts nothing, and neither does the loop it leads to.
LEMMA CallsConvertNothing ==
    ASSUME IInv, Submit \/ Cancels \/ ModifyLimit \/ ModifyStop
    PROVE  Converting = {} /\ Converting' = {}
<1>1. Idle
  BY DEF Submit, submitMarketTicket, submitLimitTicket, submitStopTicket,
         submitStopLimitTicket, Cancels, cancelLimitTicket, cancelStopTicket,
         cancelStopLimitTicket, ModifyLimit, modifyLimitTicket, ModifyStop,
         modifyStopTicket, modifyStopLimitTicket
<1>2. \/ UNCHANGED <<pc, taker>>
      \/ pc' = "limit"
      \/ \E isBid \in BOOLEAN, quantity \in Quantities :
            Run("sweep", MarketTaker(isBid, quantity))
  BY DEF Submit, submitMarketTicket, submitLimitTicket, submitStopTicket,
         submitStopLimitTicket, Cancels, cancelLimitTicket, cancelStopTicket,
         cancelStopLimitTicket, ModifyLimit, modifyLimitTicket, ModifyStop,
         modifyStopTicket, modifyStopLimitTicket, Cancel, Move, Run
<1>3. ASSUME NEW isBid \in BOOLEAN, NEW quantity \in Quantities,
             Run("sweep", MarketTaker(isBid, quantity))
      PROVE  Converting' = {}
  BY <1>3, QuantitiesAreNatural, SweepForMarketOrder
<1>4. pc' = "limit" => Converting' = {}
  BY DEF Converting
<1> QED
  BY <1>1, <1>2, <1>3, <1>4, IdleIsFree

\* Submissions.
LEMMA SubmitVolumes ==
    ASSUME IInv, Counted, Submit
    PROVE  Counted'
<1>1. Converting = {} /\ Converting' = {}
  BY CallsConvertNothing
<1>2. \/ UNCHANGED <<levels, orderMap>>
      \/ \E id \in Ids \ DOMAIN orderMap, isBid \in BOOLEAN, quantity \in Quantities,
            limit \in Prices \cup {0}, stopPrice \in Prices :
            Rest(id, isBid, quantity, limit, StopLevel(isBid, stopPrice))
  BY DEF Submit, submitMarketTicket, submitLimitTicket, submitStopTicket,
         submitStopLimitTicket, Fresh
<1>3. CASE UNCHANGED <<levels, orderMap>>
  BY <1>1, <1>3 DEF Counted
<1>4. ASSUME NEW id \in Ids \ DOMAIN orderMap, NEW isBid \in BOOLEAN,
             NEW quantity \in Quantities, NEW limit, NEW k,
             Rest(id, isBid, quantity, limit, k)
      PROVE  Counted'
  <2>1. /\ DOMAIN orderMap' \ {} = (DOMAIN orderMap \ Converting) \cup {id}
        /\ orderMap'[id].parentLevel = k
        /\ orderMap'[id].quantity = quantity
        /\ \A other \in DOMAIN orderMap \ Converting : orderMap'[other] = orderMap[other]
    BY <1>1, <1>4 DEF Rest, With, NewTicket
  <2>2. levels' = Enqueue(levels, k, isBid, id, quantity) /\ quantity \in Nat
    BY <1>4, QuantitiesAreNatural DEF Rest
  <2>3. VolumesOK(Enqueue(levels, k, isBid, id, quantity), orderMap', {})
    BY <2>1, <2>2, CountedBooks, EnqueueVolumes DEF Counted
  <2> QED
    BY <1>1, <2>2, <2>3 DEF Counted
<1> QED
  BY <1>2, <1>3, <1>4

\* Cancel calls.
LEMMA CancelsVolumes ==
    ASSUME IInv, Counted, Cancels
    PROVE  Counted'
<1>1. PICK id \in DOMAIN orderMap : Cancel(id)
  BY DEF Cancels, cancelLimitTicket, cancelStopTicket, cancelStopLimitTicket
<1>2. Converting = {} /\ Converting' = {}
  BY CallsConvertNothing
<1>3. PICK i \in DOMAIN levels[orderMap[id].parentLevel].orders :
          /\ orderMap[id].parentLevel \in DOMAIN levels
          /\ levels[orderMap[id].parentLevel].orders[i] = id
          /\ Cancelled(id) = Unlink(levels, orderMap[id].parentLevel, i)
  BY <1>2, CancelledIsUnlink DEF IInv
<1> DEFINE k == orderMap[id].parentLevel
<1>4. /\ DOMAIN orderMap' \ {} = (DOMAIN orderMap \ Converting) \ {levels[k].orders[i]}
      /\ \A other \in DOMAIN orderMap' \ {} : orderMap'[other] = orderMap[other]
  BY <1>1, <1>2, <1>3 DEF Cancel, Without, Restrict
<1> HIDE DEF k
<1>5. VolumesOK(Unlink(levels, k, i), orderMap', {})
  BY <1>3, <1>4, CountedBooks, UnlinkVolumes DEF Counted, k
<1> QED
  BY <1>1, <1>2, <1>3, <1>5 DEF Counted, Cancel, k

\* Modify calls.
LEMMA ModifyVolumes ==
    ASSUME IInv, Counted, ModifyLimit \/ ModifyStop
    PROVE  Counted'
<1>1. PICK id \in DOMAIN orderMap, quantity \in Quantities,
           limit \in Prices \cup {0}, to \in Books \X Prices :
          Move(id, quantity, limit, to)
  <2>1. CASE ModifyLimit
    <3>1. PICK id \in DOMAIN orderMap, newShares \in Quantities, newLimit \in Prices :
              Move(id, newShares, newLimit, LimitLevel(orderMap[id].isBid, newLimit))
      BY <2>1 DEF ModifyLimit, modifyLimitTicket
    <3> QED
      BY <3>1 DEF LimitLevel, LimitBook, Books
  <2>2. CASE ModifyStop
    <3>1. \A isBid : \A price \in Prices : StopLevel(isBid, price) \in Books \X Prices
      BY DEF StopLevel, Books
    <3> QED
      BY <2>2, <3>1 DEF ModifyStop, modifyStopTicket, modifyStopLimitTicket
  <2> QED
    BY <2>1, <2>2
<1>2. Converting = {} /\ Converting' = {}
  BY CallsConvertNothing
<1> DEFINE k == orderMap[id].parentLevel
           isBid == orderMap[id].isBid
<1>3. PICK i \in DOMAIN levels[k].orders :
          /\ k \in DOMAIN levels
          /\ levels[k].orders[i] = id
          /\ Cancelled(id) = Unlink(levels, k, i)
  BY <1>2, CancelledIsUnlink DEF IInv
<1> HIDE DEF k
<1>4. /\ LevelsOK(Cancelled(id))
      /\ QueuesOK(Cancelled(id), orderMap, {id})
      /\ VolumesOK(Cancelled(id), orderMap, {id})
  <2>1. LevelsOK(Cancelled(id)) /\ QueuesOK(Cancelled(id), orderMap, {id})
    BY <1>2, <1>3, UnlinkOut, InvariantInParts
  <2>2. DOMAIN orderMap \ {id} = (DOMAIN orderMap \ Converting) \ {levels[k].orders[i]}
    BY <1>2, <1>3
  <2>3. VolumesOK(Unlink(levels, k, i), orderMap, {id})
    BY <1>3, <2>2, CountedBooks, UnlinkVolumes DEF Counted
  <2> QED
    BY <1>3, <2>1, <2>3
<1>5. /\ DOMAIN orderMap' \ {} = (DOMAIN orderMap \ {id}) \cup {id}
      /\ orderMap'[id].parentLevel = to
      /\ orderMap'[id].quantity = quantity
      /\ \A other \in DOMAIN orderMap \ {id} : orderMap'[other] = orderMap[other]
  BY <1>1 DEF Move, NewTicket
<1>6. levels' = Enqueue(Cancelled(id), to, isBid, id, quantity) /\ quantity \in Nat
  BY <1>1, QuantitiesAreNatural DEF Move
<1> HIDE DEF isBid
<1>7. VolumesOK(Enqueue(Cancelled(id), to, isBid, id, quantity), orderMap', {})
  BY <1>4, <1>5, <1>6, CountedBooks, EnqueueVolumes
<1> QED
  BY <1>2, <1>6, <1>7 DEF Counted

\* Fills and triggered stops: the head leaves its queue and orderMap.
LEMMA HeadLeavesVolumes ==
    ASSUME IInv, Counted, FillHead \/ TriggerStop
    PROVE  Counted'
<1>1. PICK k \in DOMAIN levels :
          levels' = Unlink(levels, k, 1) /\ orderMap' = Without(orderMap, Head1(k))
  <2>1. CASE FillHead
    BY <2>1, EdgeIsLevel DEF FillHead, Fits
  <2>2. CASE TriggerStop
    BY <2>2, StopEdgeIsLevel DEF TriggerStop
  <2> QED
    BY <2>1, <2>2
<1>2. 1 \in DOMAIN levels[k].orders /\ Head1(k) = levels[k].orders[1]
  BY HeadIsMapped DEF IInv
<1>3. Converting' = Converting
  <2>1. CASE FillHead
    <3>1. ASSUME NEW t \in Taker, NEW sweep, NEW executed
          PROVE  LET new == [t EXCEPT !.sweep = sweep, !.executed = executed]
                 IN  new.id = t.id /\ new.then = t.then
      BY DEF Taker
    <3>2. taker \in Taker
      BY DEF IInv, TypeOK
    <3>3. PICK sweep, executed :
              taker' = [taker EXCEPT !.sweep = sweep, !.executed = executed]
      BY <2>1 DEF FillHead
    <3>4. taker'.id = taker.id /\ taker'.then = taker.then
      BY <3>1, <3>2, <3>3
    <3> QED
      BY <2>1, <3>4 DEF FillHead, Converting
  <2>2. CASE TriggerStop
    <3>1. PICK p \in Prices : Run("sweep", MarketTaker(taker.isBid,
                                          orderMap[Head1(<<"stop", p>>)].quantity))
                              /\ Triggered(p)
      BY <2>2 DEF TriggerStop
    <3>2. orderMap[Head1(<<"stop", p>>)].quantity \in Nat /\ taker.isBid \in BOOLEAN
      BY <3>1, StopEdgeIsLevel, HeadIsMapped DEF IInv, TypeOK, Taker, Ticket
    <3>3. Converting' = {}
      BY <3>1, <3>2, SweepForMarketOrder
    <3> QED
      BY <2>2, <3>3 DEF TriggerStop, Converting
  <2> QED
    BY <2>1, <2>2
<1>4. /\ DOMAIN orderMap' \ Converting
             = (DOMAIN orderMap \ Converting) \ {levels[k].orders[1]}
      /\ \A other \in DOMAIN orderMap' \ Converting : orderMap'[other] = orderMap[other]
  BY <1>1, <1>2 DEF Without, Restrict
<1>5. VolumesOK(Unlink(levels, k, 1), orderMap', Converting)
  BY <1>2, <1>4, CountedBooks, UnlinkVolumes DEF Counted
<1> QED
  BY <1>1, <1>3, <1>5 DEF Counted

\* A triggered stop-limit leaves its queue.
LEMMA TriggerStopLimitVolumes ==
    ASSUME IInv, Counted, TriggerStopLimit
    PROVE  Counted'
<1>1. PICK p \in Prices :
          /\ Triggered(p)
          /\ levels' = Unlink(levels, <<"stop", p>>, 1)
          /\ pc' = "convert" /\ taker'.id = Head1(<<"stop", p>>)
  BY DEF TriggerStopLimit, Run, LimitTaker, NoTaker
<1> DEFINE k == <<"stop", p>>
<1>2. k \in DOMAIN levels
  BY <1>1, StopEdgeIsLevel
<1>3. 1 \in DOMAIN levels[k].orders /\ Head1(k) = levels[k].orders[1]
  BY <1>2, HeadIsMapped DEF IInv
<1>4. Converting = {} /\ Converting' = {levels[k].orders[1]} /\ orderMap' = orderMap
  BY <1>1, <1>3 DEF TriggerStopLimit, Converting
<1> HIDE DEF k
<1>5. VolumesOK(Unlink(levels, k, 1), orderMap, {levels[k].orders[1]})
  BY <1>2, <1>3, <1>4, CountedBooks, UnlinkVolumes DEF Counted
<1> QED
  BY <1>1, <1>4, <1>5 DEF Counted, k

\* A partial fill leaves a return of marketOrderHelper.
LEMMA SweepReturnsConverting ==
    ASSUME IInv, pc = "sweep", NEW executed, SweepReturns(executed)
    PROVE  Converting' = Converting
<1>1. ASSUME NEW t \in Taker, NEW sweep, NEW n
      PROVE  [t EXCEPT !.sweep = sweep, !.executed = n].id = t.id
  BY DEF Taker
<1>2. taker \in Taker /\ pc' = taker.then /\ taker.then # "sweep"
  BY DEF IInv, TypeOK, SweepReturns, Run, Taker
<1>3. taker.then # "stops" => taker'.id = taker.id
  BY <1>1, <1>2 DEF SweepReturns, Run
<1> QED
  BY <1>2, <1>3 DEF Converting

\* The head gives some of its shares.
LEMMA PartiallyFillHeadVolumes ==
    ASSUME IInv, Counted, PartiallyFillHead
    PROVE  Counted'
<1>1. PICK p \in Prices :
          /\ IsEdge(taker.isBid, p)
          /\ orderMap' = [orderMap EXCEPT ![Head1(Maker(p))].quantity = @ - taker.sweep]
          /\ levels' = [levels EXCEPT ![Maker(p)].totalVolume = @ - taker.sweep]
  BY DEF PartiallyFillHead
<1> DEFINE k == Maker(p)
           id == Head1(k)
<1>2. k \in DOMAIN levels
  BY <1>1, EdgeIsLevel
<1>3. id \in DOMAIN orderMap \ Converting /\ orderMap[id].parentLevel = k
  BY <1>2, HeadIsMapped DEF IInv
<1>4. taker.sweep \in Int
  BY DEF IInv, TypeOK, Taker
<1>5. Converting' = Converting
  BY SweepReturnsConverting DEF PartiallyFillHead
<1> HIDE DEF k, id
<1>6. /\ orderMap' = [orderMap EXCEPT ![id].quantity = @ - taker.sweep]
      /\ levels' = [levels EXCEPT ![k].totalVolume = @ - taker.sweep]
  BY <1>1 DEF id, k
<1>7. VolumesOK(levels', orderMap', Converting)
  BY <1>2, <1>3, <1>4, <1>6, CountedBooks, PartialFillVolumes DEF Counted
<1> QED
  BY <1>5, <1>7 DEF Counted

\* Steps that move no ticket: the queues hold the same tickets as before.
LEMMA QuietVolumes ==
    ASSUME IInv, Counted,
           EndSweep \/ limitOrderAsMarketOrder \/ existingOrderAsMarketOrder \/ StopsDone
    PROVE  Counted'
<1>1. levels' = levels
  BY DEF EndSweep, limitOrderAsMarketOrder, existingOrderAsMarketOrder, StopsDone
<1>2. taker \in Taker /\ LevelsOK(levels)
  BY CountedBooks DEF IInv, TypeOK
<1>3. /\ DOMAIN orderMap' \ Converting' = DOMAIN orderMap \ Converting
      /\ \A id \in DOMAIN orderMap \ Converting : orderMap'[id] = orderMap[id]
  <2>1. CASE EndSweep
    BY <2>1, SweepReturnsConverting DEF EndSweep
  <2>2. CASE limitOrderAsMarketOrder
    <3>1. Converting = {} /\ orderMap' = orderMap
      BY <2>2 DEF limitOrderAsMarketOrder, Converting
    <3>2. PICK p : Maker(p) \in DOMAIN levels /\ (SweepRest(p) \/ SweepLevel(p))
      BY <2>2, EdgeIsLevel DEF limitOrderAsMarketOrder, AcceptsEdge
    <3>3. pc = "limit" /\ pc \in Loops \ {"sweep"}
      BY <2>2 DEF limitOrderAsMarketOrder, Loops
    <3>4. pc' = "sweep" /\ taker'.then # "convert"
      BY <1>2, <3>2, <3>3, SweepRestTaker, SweepLevelTaker
    <3> QED
      BY <3>1, <3>4 DEF Converting
  <2>3. CASE existingOrderAsMarketOrder
    <3>1. Converting = {taker.id} /\ pc = "convert" /\ pc \in Loops \ {"sweep"}
      BY <2>3 DEF existingOrderAsMarketOrder, Converting, Loops
    <3>2. PICK p : /\ Maker(p) \in DOMAIN levels
                   /\ \/ SweepRest(p) /\ orderMap' = Without(orderMap, taker.id)
                      \/ SweepLevel(p) /\ UNCHANGED orderMap
      BY <2>3, EdgeIsLevel DEF existingOrderAsMarketOrder, AcceptsEdge
    <3>3. CASE SweepRest(p) /\ orderMap' = Without(orderMap, taker.id)
      <4>1. Converting' = {}
        BY <1>2, <3>3, SweepRestTaker DEF Converting
      <4> QED
        BY <3>1, <3>3, <4>1 DEF Without, Restrict
    <3>4. CASE SweepLevel(p) /\ UNCHANGED orderMap
      <4>1. Converting' = {taker.id}
        BY <1>2, <3>1, <3>2, <3>4, SweepLevelTaker DEF Converting
      <4> QED
        BY <3>1, <3>4, <4>1
    <3> QED
      BY <3>2, <3>3, <3>4
  <2>4. CASE StopsDone
    BY <2>4 DEF StopsDone, Return, Converting
  <2> QED
    BY <2>1, <2>2, <2>3, <2>4
<1>4. VolumesOK(levels, orderMap', Converting')
  BY <1>3, CountedBooks, SameVolumes DEF Counted
<1> QED
  BY <1>1, <1>4 DEF Counted

\* The end of a limit loop: what is left of the taker rests, or nothing moves.
LEMMA LoopEndsVolumes ==
    ASSUME IInv, Counted, LimitLoopEnds \/ ConvertLoopEnds
    PROVE  Counted'
<1> DEFINE id == taker.id
           k == LimitLevel(taker.isBid, taker.limit)
<1>1. taker \in Taker /\ taker.rest \in Nat
  BY DEF IInv, TypeOK, Taker
<1>2. Converting' = {}
  BY DEF LimitLoopEnds, ConvertLoopEnds, Return, Run, Converting
<1>3. CASE UNCHANGED <<levels, orderMap>> /\ LimitLoopEnds
  <2>1. Converting = {}
    BY <1>3 DEF LimitLoopEnds, Converting
  <2> QED
    BY <1>2, <1>3, <2>1 DEF Counted
<1>4. CASE /\ levels' = Enqueue(levels, k, taker.isBid, id, taker.rest)
           /\ id \notin DOMAIN orderMap \ Converting
           /\ DOMAIN orderMap' = (DOMAIN orderMap \ Converting) \cup {id}
           /\ orderMap'[id].quantity = taker.rest
           /\ orderMap'[id].parentLevel = k
           /\ \A other \in DOMAIN orderMap \ Converting : orderMap'[other] = orderMap[other]
  <2> HIDE DEF id, k
  <2>1. DOMAIN orderMap' \ {} = (DOMAIN orderMap \ Converting) \cup {id}
    BY <1>4
  <2>2. VolumesOK(Enqueue(levels, k, taker.isBid, id, taker.rest), orderMap', {})
    BY <1>1, <1>4, <2>1, CountedBooks, EnqueueVolumes DEF Counted
  <2> QED
    BY <1>2, <1>4, <2>2 DEF Counted
<1>5. CASE LimitLoopEnds /\ taker.rest # 0
  <2>1. Converting = {} /\ id \in Ids \ DOMAIN orderMap
    BY <1>5 DEF LimitLoopEnds, Converting, IInv, TakerFitsBooks, InLoop
  <2>2. Rest(id, taker.isBid, taker.rest, taker.limit, k)
    BY <1>5 DEF LimitLoopEnds
  <2>3. /\ DOMAIN orderMap' = DOMAIN orderMap \cup {id}
        /\ orderMap'[id] = NewTicket(taker.isBid, taker.rest, taker.limit, k)
        /\ \A other \in DOMAIN orderMap \ {id} : orderMap'[other] = orderMap[other]
    BY <2>2 DEF Rest, With
  <2> QED
    BY <1>4, <2>1, <2>2, <2>3 DEF Rest, NewTicket
<1>6. CASE LimitLoopEnds /\ taker.rest = 0
  BY <1>3, <1>6 DEF LimitLoopEnds
<1>7. CASE ConvertLoopEnds
  <2>1. Converting = {id} /\ id \in DOMAIN orderMap /\ taker.rest # 0
    BY <1>7 DEF ConvertLoopEnds, Converting, IInv, TakerFitsBooks, InLoop
  <2>2. /\ levels' = Enqueue(levels, k, taker.isBid, id, taker.rest)
        /\ orderMap' = [orderMap EXCEPT ![id].quantity = taker.rest, ![id].parentLevel = k]
    BY <1>7, <2>1 DEF ConvertLoopEnds
  <2>3. /\ DOMAIN orderMap' = DOMAIN orderMap
        /\ orderMap'[id].quantity = taker.rest
        /\ orderMap'[id].parentLevel = k
        /\ \A other \in DOMAIN orderMap \ {id} : orderMap'[other] = orderMap[other]
    <3>1. orderMap[id] \in Ticket
      BY <2>1 DEF IInv, TypeOK, FunctionInto
    <3>2. ASSUME NEW ticket \in Ticket, NEW n, NEW kk
          PROVE  LET new == [ticket EXCEPT !.quantity = n, !.parentLevel = kk]
                 IN  new.quantity = n /\ new.parentLevel = kk
      BY DEF Ticket
    <3> DEFINE new == [orderMap[id] EXCEPT !.quantity = taker.rest, !.parentLevel = k]
    <3>3. orderMap' = [orderMap EXCEPT ![id] = new]
      BY <2>1, <2>2
    <3>4. new.quantity = taker.rest /\ new.parentLevel = k
      BY <3>1, <3>2
    <3> HIDE DEF id, k, new
    <3> QED
      BY <2>1, <3>3, <3>4
  <2> QED
    BY <1>4, <2>1, <2>2, <2>3
<1> QED
  BY <1>5, <1>6, <1>7

\* Every step keeps the volumes.
LEMMA NextVolumes ==
    ASSUME IInv, Counted, [Next]_vars
    PROVE  Counted'
<1>1. CASE Submit \/ Cancels \/ ModifyLimit \/ ModifyStop
  BY <1>1, SubmitVolumes, CancelsVolumes, ModifyVolumes
<1>2. CASE Engine
  BY <1>2, HeadLeavesVolumes, TriggerStopLimitVolumes, PartiallyFillHeadVolumes,
     QuietVolumes, LoopEndsVolumes DEF Engine
<1>3. CASE UNCHANGED vars
  BY <1>3 DEF vars, Counted, Converting
<1> QED
  BY <1>1, <1>2, <1>3 DEF Next

\* If no ticket is submitted or modified with 0 shares, then PriceLevel's
\* totalVolume, which append, cancel, execute and partiallyFillOrder each keep up
\* by a difference, is the sum of the shares in the level's queue in every state
\* of every call: the comparisons of the limit loops with it are right.
THEOREM VolumesAreSums ==
    ASSUME PositiveQuantities
    PROVE  Spec => []VolumeIsSum
<1>1. Init => Counted
  BY DEF Init, Counted, VolumesOK
<1>2. IInv /\ Counted /\ [Next]_vars => Counted'
  BY NextVolumes
<1>3. IInv /\ Counted => VolumeIsSum
  BY VolumesRestated, CountedBooks DEF IInv, Counted
<1> QED
  BY <1>1, <1>2, <1>3, Invariant, PTL DEF Spec

-----------------------------------------------------------------------------
(* The taker.  A sweep on behalf of a limit order is never for more        *)
(* than the edge level holds, and when the loop means to come back it is   *)
(* for all of it.  Between two sweeps nothing is being swept.              *)

SweepFitsEdge ==
    /\ taker.sweep >= 0
    /\ pc # "sweep" => taker.sweep = 0
    /\ pc = "sweep" /\ taker.limit # 0 /\ taker.sweep # 0 =>
          \E p \in Prices :
              /\ AcceptsEdge(p)
              /\ taker.sweep <= levels[Maker(p)].totalVolume
              /\ taker.then # "stops" => taker.sweep = levels[Maker(p)].totalVolume

TInv == SweepFitsEdge /\ TakerAccounted

-----------------------------------------------------------------------------
(* Levels, heads and edges.                                                *)

\* The volume of a level is a natural, and no head has more shares than that.  A
\* level with one ticket has that ticket's shares.
LEMMA HeadWithinVolume ==
    ASSUME IInv, Counted, NEW k \in DOMAIN levels
    PROVE  LET shares == orderMap[Head1(k)].quantity
               volume == levels[k].totalVolume
           IN  /\ shares \in Nat \ {0}
               /\ volume \in Nat
               /\ shares <= volume
               /\ Len(levels[k].orders) = 1 => shares = volume
<1> DEFINE queue == levels[k].orders
           f == Shares(orderMap)
           T == Members(orderMap, Converting, k)
<1>1. /\ LevelsOK(levels)
      /\ FunctionInto(orderMap, Ids, Ticket)
      /\ QueuesOK(levels, orderMap, Converting)
  BY CountedBooks
<1>2. IsFiniteSet(T) /\ T = {queue[i] : i \in DOMAIN queue}
  BY <1>1, QueueIsMembers
<1>3. /\ IntValued(f, T)
      /\ \A id \in T : f[id] = orderMap[id].quantity /\ f[id] \in Nat
  BY <1>1, SharesAreTyped
<1>4. /\ 1 \in DOMAIN queue /\ Head1(k) = queue[1]
      /\ Head1(k) \in DOMAIN orderMap
      /\ orderMap[Head1(k)].quantity \in Nat
  BY HeadIsMapped DEF IInv, Ticket
<1>5. orderMap[Head1(k)].quantity # 0
  BY <1>4 DEF IInv, NoEmptyTicket
<1>6. levels[k].totalVolume = SumFunctionOnSet(f, T)
  BY DEF Counted, VolumesOK
<1>7. Head1(k) \in T
  BY <1>2, <1>4
<1>8. Len(queue) = 1 => T = {Head1(k)}
  <2>1. queue \in Seq(Ids)
    BY <1>1 DEF LevelsOK, FunctionInto, Level
  <2>2. DOMAIN queue = 1..Len(queue)
    BY <2>1, LenProperties
  <2> HIDE DEF T
  <2> QED
    BY <1>2, <1>4, <2>2
<1> HIDE DEF f, T, queue
<1>9. SumFunctionOnSet(f, T) \in Nat /\ f[Head1(k)] <= SumFunctionOnSet(f, T)
  BY <1>2, <1>3, <1>7, SumOfNaturals
<1>10. Len(queue) = 1 => SumFunctionOnSet(f, T) = f[Head1(k)]
  <2>1. SumFunctionOnSet(f, T) = f[Head1(k)] + SumFunctionOnSet(f, T \ {Head1(k)})
    BY <1>2, <1>3, <1>7, SumWithout
  <2>2. IsFiniteSet({}) /\ IntValued(f, {})
    BY FS_EmptySet DEF IntValued
  <2>3. SumFunctionOnSet(f, {}) = 0
    BY <2>2, SumIsInteger
  <2>4. Len(queue) = 1 => T \ {Head1(k)} = {}
    BY <1>8
  <2>5. f[Head1(k)] \in Nat
    BY <1>3, <1>7
  <2>6. f[Head1(k)] + 0 = f[Head1(k)]
    BY <2>5
  <2> QED
    BY <2>1, <2>3, <2>4, <2>6
<1>11. f[Head1(k)] = orderMap[Head1(k)].quantity
  BY <1>3, <1>7
<1> QED
  BY <1>4, <1>5, <1>6, <1>9, <1>10, <1>11 DEF queue

\* A level without its head: it has disappeared, and then the head's shares were
\* its volume, or it has the head's shares less.
LEMMA HeadUnlinked ==
    ASSUME IInv, Counted, NEW k \in DOMAIN levels
    PROVE  LET shares == orderMap[Head1(k)].quantity
               after == Unlink(levels, k, 1)
           IN  /\ \/ DOMAIN after = DOMAIN levels \ {k} /\ levels[k].totalVolume = shares
                  \/ /\ DOMAIN after = DOMAIN levels
                     /\ after[k].totalVolume = levels[k].totalVolume - shares
               /\ \A j \in DOMAIN after \ {k} : after[j] = levels[j]
<1> DEFINE shares == orderMap[Head1(k)].quantity
           orders == RemoveAt(levels[k].orders, 1)
           volume == levels[k].totalVolume - shares
           left == [levels[k] EXCEPT !.orders = orders, !.totalVolume = volume]
<1>1. levels[k] \in Level
  BY DEF IInv, TypeOK, FunctionInto
<1>2. left.orders = orders /\ left.totalVolume = volume
  <2> HIDE DEF orders, volume
  <2> QED
    BY <1>1 DEF Level
<1>3. 1 \in DOMAIN levels[k].orders /\ Head1(k) = levels[k].orders[1]
  BY HeadIsMapped DEF IInv
<1>4. Unlink(levels, k, 1) =
          IF left.orders = <<>> THEN Without(levels, k) ELSE [levels EXCEPT ![k] = left]
  BY <1>3 DEF Unlink
<1>5. orders = <<>> => levels[k].totalVolume = shares
  <2>1. levels[k].orders \in Seq(Ids) /\ 1 \in 1..Len(levels[k].orders)
    BY <1>1, <1>3 DEF Level
  <2>2. Len(orders) = Len(levels[k].orders) - 1
    BY <2>1, RemoveAtProperties
  <2>3. orders = <<>> => Len(orders) = 0
    OBVIOUS
  <2>4. Len(levels[k].orders) \in Nat
    BY <2>1
  <2>5. orders = <<>> => Len(levels[k].orders) = 1
    <3> HIDE DEF orders
    <3> QED
      BY <2>2, <2>3, <2>4
  <2> QED
    BY <2>5, HeadWithinVolume
<1> HIDE DEF left
<1>6. CASE orders = <<>>
  BY <1>2, <1>4, <1>5, <1>6 DEF Without, Restrict
<1>7. CASE orders # <<>>
  BY <1>2, <1>4, <1>7
<1> QED
  BY <1>6, <1>7

-----------------------------------------------------------------------------
(* The locals a call or a loop begins with.                                *)

AtRest(t) == t.sweep = 0 /\ t.size = t.executed + t.sweep + t.rest

\* All but a market taker begin with nothing to sweep.
LEMMA TakersBeginAccounted ==
    /\ AtRest(NoTaker)
    /\ \A isBid : AtRest(StopsOf(isBid)) /\ StopsOf(isBid).isBid = isBid
    /\ \A id, isBid, price : \A quantity \in Nat :
          AtRest(LimitTaker(id, isBid, quantity, price))
    /\ \A isBid : \A quantity \in Nat :
          LET t == MarketTaker(isBid, quantity)
          IN  /\ t.sweep = quantity /\ t.limit = 0
              /\ t.size = t.executed + t.sweep + t.rest
BY DEF AtRest, NoTaker, StopsOf, LimitTaker, MarketTaker

\* Outside of marketOrderHelper nothing is being swept.
LEMMA NothingSwept ==
    ASSUME pc' # "sweep", AtRest(taker')
    PROVE  TInv'
BY DEF TInv, SweepFitsEdge, TakerAccounted, AtRest

\* For a market order any number of shares is swept.
LEMMA MarketSwept ==
    ASSUME NEW isBid, NEW quantity \in Nat, Run("sweep", MarketTaker(isBid, quantity))
    PROVE  TInv'
BY TakersBeginAccounted DEF Run, TInv, SweepFitsEdge, TakerAccounted

-----------------------------------------------------------------------------
(* The steps.                                                              *)

\* A public call begins with an account that is right.
LEMMA CallsAccount ==
    ASSUME IInv, TInv, Submit \/ Cancels \/ ModifyLimit \/ ModifyStop
    PROVE  TInv'
<1>1. Idle
  BY DEF Submit, submitMarketTicket, submitLimitTicket, submitStopTicket,
         submitStopLimitTicket, Cancels, cancelLimitTicket, cancelStopTicket,
         cancelStopLimitTicket, ModifyLimit, modifyLimitTicket, ModifyStop,
         modifyStopTicket, modifyStopLimitTicket
<1>2. \/ UNCHANGED <<pc, taker>>
      \/ \E isBid \in BOOLEAN, quantity \in Quantities :
            \/ Run("sweep", MarketTaker(isBid, quantity))
            \/ \E id \in Ids, price \in Prices :
                  Run("limit", LimitTaker(id, isBid, quantity, price))
  BY DEF Submit, submitMarketTicket, submitLimitTicket, submitStopTicket,
         submitStopLimitTicket, Cancels, cancelLimitTicket, cancelStopTicket,
         cancelStopLimitTicket, ModifyLimit, modifyLimitTicket, ModifyStop,
         modifyStopTicket, modifyStopLimitTicket, Cancel, Move
<1>3. CASE UNCHANGED <<pc, taker>>
  BY <1>1, <1>3, NothingSwept DEF Idle, TInv, SweepFitsEdge, TakerAccounted, AtRest
<1>4. ASSUME NEW isBid \in BOOLEAN, NEW quantity \in Quantities,
             Run("sweep", MarketTaker(isBid, quantity))
      PROVE  TInv'
  BY <1>4, QuantitiesAreNatural, MarketSwept
<1>5. ASSUME NEW isBid \in BOOLEAN, NEW quantity \in Quantities,
             NEW id \in Ids, NEW price \in Prices,
             Run("limit", LimitTaker(id, isBid, quantity, price))
      PROVE  TInv'
  BY <1>5, QuantitiesAreNatural, TakersBeginAccounted, NothingSwept DEF Run
<1> QED
  BY <1>2, <1>3, <1>4, <1>5

\* What a filled head had moves from what is being swept to what is executed.
\* Either the edge level is still there with as much less, or it is used up and so
\* is what a limit order may sweep.
LEMMA FillHeadAccounts ==
    ASSUME IInv, Counted, TInv, FillHead
    PROVE  TInv'
<1>1. PICK p \in Prices :
          /\ Fits(p)
          /\ levels' = Unlink(levels, Maker(p), 1)
          /\ taker' = [taker EXCEPT !.sweep = @ - orderMap[Head1(Maker(p))].quantity,
                                    !.executed = @ + orderMap[Head1(Maker(p))].quantity]
  BY DEF FillHead
<1> DEFINE k == Maker(p)
           shares == orderMap[Head1(k)].quantity
<1>2. k \in DOMAIN levels
  BY <1>1, EdgeIsLevel DEF Fits
<1>3. shares \in Nat \ {0} /\ levels[k].totalVolume \in Nat
  BY <1>2, HeadWithinVolume
<1>4. taker \in Taker
  BY DEF IInv, TypeOK
<1>5. /\ taker'.sweep = taker.sweep - shares /\ taker'.executed = taker.executed + shares
      /\ taker'.isBid = taker.isBid /\ taker'.limit = taker.limit
      /\ taker'.then = taker.then /\ taker'.rest = taker.rest /\ taker'.size = taker.size
  <2> DEFINE sweep == taker.sweep - shares
             executed == taker.executed + shares
  <2>1. taker' = [taker EXCEPT !.sweep = sweep, !.executed = executed]
    BY <1>1
  <2> HIDE DEF shares, sweep, executed
  <2>2. /\ taker'.sweep = sweep /\ taker'.executed = executed
        /\ taker'.isBid = taker.isBid /\ taker'.limit = taker.limit
        /\ taker'.then = taker.then /\ taker'.rest = taker.rest /\ taker'.size = taker.size
    BY <1>4, <2>1 DEF Taker
  <2> QED
    BY <2>2 DEF sweep, executed
<1>6. TakerAccounted'
  BY <1>3, <1>4, <1>5 DEF TInv, TakerAccounted, Taker
<1>7. pc = "sweep" /\ pc' = "sweep" /\ shares <= taker.sweep
  BY <1>1 DEF FillHead, Fits
<1>8. taker'.sweep >= 0 /\ taker.sweep # 0 /\ taker.sweep \in Int
  BY <1>3, <1>4, <1>5, <1>7 DEF Taker
<1>9. ASSUME taker'.limit # 0, taker'.sweep # 0
      PROVE  /\ AcceptsEdge(p)'
             /\ taker'.sweep <= levels'[Maker(p)'].totalVolume
             /\ taker'.then # "stops" => taker'.sweep = levels'[Maker(p)'].totalVolume
  <2>1. PICK q \in Prices :
            /\ AcceptsEdge(q)
            /\ taker.sweep <= levels[Maker(q)].totalVolume
            /\ taker.then # "stops" => taker.sweep = levels[Maker(q)].totalVolume
    BY <1>5, <1>7, <1>8, <1>9 DEF TInv, SweepFitsEdge
  <2>2. q = p
    BY <1>1, <1>4, <2>1, EdgeIsUnique DEF AcceptsEdge, Fits, Taker
  <2>3. levels[k].totalVolume # shares
    BY <1>3, <1>5, <1>7, <1>8, <1>9, <2>1, <2>2
  <2>4. DOMAIN levels' = DOMAIN levels
        /\ levels'[k].totalVolume = levels[k].totalVolume - shares
    BY <1>1, <1>2, <2>3, HeadUnlinked
  <2>5. Maker(p)' = k
    BY <1>5 DEF Maker
  <2>6. AcceptsEdge(p)'
    <3>1. \A book : BookPrices(book)' = BookPrices(book)
      BY <2>4 DEF BookPrices
    <3>2. AcceptsEdge(p)
      BY <2>1, <2>2
    <3> QED
      BY <1>5, <3>1, <3>2 DEF AcceptsEdge, IsEdge, Accepts
  <2> QED
    BY <1>3, <1>5, <1>8, <2>1, <2>2, <2>4, <2>5, <2>6
<1> QED
  BY <1>6, <1>7, <1>8, <1>9 DEF TInv, SweepFitsEdge

\* marketOrderHelper returns with nothing left to sweep, to a caller whose account
\* is right if all that was being swept has been executed.
LEMMA SweepReturnsAccounts ==
    ASSUME taker \in Taker, TakerAccounted, NEW executed \in Int, SweepReturns(executed),
           taker.then # "stops" => executed = taker.sweep
    PROVE  TInv'
<1>1. pc' # "sweep"
  BY DEF SweepReturns, Run, Taker
<1>2. CASE taker.then = "stops"
  BY <1>1, <1>2, TakersBeginAccounted, NothingSwept DEF SweepReturns, Run
<1>3. CASE taker.then # "stops"
  <2> DEFINE nothing == 0
             total == taker.executed + executed
  <2>1. taker' = [taker EXCEPT !.sweep = nothing, !.executed = total]
    BY <1>3 DEF SweepReturns, Run
  <2> HIDE DEF nothing, total
  <2>2. /\ taker'.sweep = nothing /\ taker'.executed = total
        /\ taker'.rest = taker.rest /\ taker'.size = taker.size
    BY <2>1 DEF Taker
  <2>3. AtRest(taker')
    BY <1>3, <2>2 DEF nothing, total, AtRest, TakerAccounted, Taker
  <2> QED
    BY <1>1, <2>3, NothingSwept
<1> QED
  BY <1>2, <1>3

\* A sweep ends with all of it executed, unless a market order meets an empty
\* book: on behalf of a limit order the edge is there as long as shares are left.
LEMMA SweepEndsAccount ==
    ASSUME IInv, TInv, PartiallyFillHead \/ EndSweep
    PROVE  TInv'
<1>1. taker \in Taker /\ taker.sweep \in Int /\ TakerAccounted
  BY DEF IInv, TypeOK, Taker, TInv
<1>2. CASE PartiallyFillHead
  BY <1>1, <1>2, SweepReturnsAccounts DEF PartiallyFillHead
<1>3. CASE EndSweep
  <2>1. ASSUME taker.then # "stops"
        PROVE  taker.sweep = 0
    <3>1. taker.limit # 0
      BY <1>1, <1>3, <2>1 DEF EndSweep, IInv, TakerFitsBooks, InLoop, Taker, Loops, Prices
    <3>2. ASSUME taker.sweep # 0
          PROVE  \E p \in Prices : IsEdge(taker.isBid, p)
      BY <1>3, <3>1, <3>2 DEF EndSweep, TInv, SweepFitsEdge, AcceptsEdge
    <3> QED
      BY <1>3, <3>2 DEF EndSweep
  <2> QED
    BY <1>1, <1>3, <2>1, SweepReturnsAccounts DEF EndSweep
<1> QED
  BY <1>2, <1>3

\* A round of a limit loop moves shares from what the taker holds to what is being
\* swept, and these are no more than the edge level holds.
LEMMA RoundAccounts ==
    ASSUME IInv, Counted, TInv, pc \in Loops \ {"sweep"}, levels' = levels,
           NEW p \in Prices, AcceptsEdge(p), SweepRest(p) \/ SweepLevel(p)
    PROVE  TInv'
<1> DEFINE volume == levels[Maker(p)].totalVolume
           nothing == 0
           less == taker.rest - volume
<1>1. taker \in Taker /\ taker.sweep = 0 /\ TakerAccounted
  BY DEF IInv, TypeOK, TInv, SweepFitsEdge
<1>2. volume \in Nat
  BY EdgeIsLevel, HeadWithinVolume DEF AcceptsEdge
<1>3. pc' = "sweep"
  BY DEF SweepRest, SweepLevel, Run
<1>4. ASSUME taker'.isBid = taker.isBid, taker'.limit = taker.limit,
             taker'.sweep \in Nat, taker'.sweep <= volume,
             taker'.then # "stops" => taker'.sweep = volume
      PROVE  SweepFitsEdge'
  <2>1. AcceptsEdge(p)' /\ levels'[Maker(p)'].totalVolume = volume
    BY <1>4 DEF AcceptsEdge, IsEdge, BookPrices, Maker
  <2> QED
    BY <1>3, <1>4, <2>1 DEF SweepFitsEdge
<1>5. CASE SweepRest(p)
  <2>1. taker' = [taker EXCEPT !.sweep = taker.rest, !.rest = nothing, !.then = "stops"]
    BY <1>5 DEF SweepRest, Run
  <2>2. taker.rest <= volume /\ taker.rest \in Nat
    BY <1>1, <1>5 DEF SweepRest, Taker
  <2> HIDE DEF nothing, volume
  <2>3. /\ taker'.sweep = taker.rest /\ taker'.rest = nothing /\ taker'.then = "stops"
        /\ taker'.isBid = taker.isBid /\ taker'.limit = taker.limit
        /\ taker'.executed = taker.executed /\ taker'.size = taker.size
    BY <1>1, <2>1 DEF Taker
  <2>4. TakerAccounted'
    BY <1>1, <2>3 DEF TakerAccounted, Taker, nothing
  <2> QED
    BY <1>4, <2>2, <2>3, <2>4 DEF TInv
<1>6. CASE SweepLevel(p)
  <2>1. taker' = [taker EXCEPT !.sweep = volume, !.rest = less, !.then = pc]
    BY <1>6 DEF SweepLevel, Run
  <2> HIDE DEF less, volume
  <2>2. /\ taker'.sweep = volume /\ taker'.rest = less /\ taker'.then = pc
        /\ taker'.isBid = taker.isBid /\ taker'.limit = taker.limit
        /\ taker'.executed = taker.executed /\ taker'.size = taker.size
    BY <1>1, <2>1 DEF Taker
  <2>3. TakerAccounted'
    BY <1>1, <1>2, <2>2 DEF TakerAccounted, Taker, less
  <2>4. SweepFitsEdge'
    BY <1>2, <1>4, <2>2
  <2> QED
    BY <2>3, <2>4 DEF TInv
<1> QED
  BY <1>5, <1>6

\* The other steps of the engine: a loop ends, or a stop is triggered.
LEMMA OtherStepsAccount ==
    ASSUME IInv, TInv,
           LimitLoopEnds \/ ConvertLoopEnds \/ TriggerStop \/ TriggerStopLimit \/ StopsDone
    PROVE  TInv'
<1>1. taker \in Taker
  BY DEF IInv, TypeOK
<1>2. ASSUME NEW p \in Prices, Triggered(p)
      PROVE  orderMap[Head1(<<"stop", p>>)].quantity \in Nat
  BY <1>2, StopEdgeIsLevel, HeadIsMapped DEF IInv, Ticket
<1>3. CASE LimitLoopEnds
  <2>1. pc' # "sweep" /\ (taker' = NoTaker \/ taker' = StopsOf(taker.isBid))
    BY <1>3 DEF LimitLoopEnds, Return, Run
  <2> QED
    BY <2>1, TakersBeginAccounted, NothingSwept
<1>4. CASE ConvertLoopEnds
  BY <1>4, TakersBeginAccounted, NothingSwept DEF ConvertLoopEnds, Run
<1>5. CASE TriggerStop
  <2>1. PICK p \in Prices :
            /\ Triggered(p)
            /\ Run("sweep", MarketTaker(taker.isBid, orderMap[Head1(<<"stop", p>>)].quantity))
    BY <1>5 DEF TriggerStop
  <2> QED
    BY <1>2, <2>1, MarketSwept
<1>6. CASE TriggerStopLimit
  <2>1. PICK p \in Prices :
            LET head == Head1(<<"stop", p>>)
            IN  /\ Triggered(p)
                /\ Run("convert", LimitTaker(head, taker.isBid, orderMap[head].quantity,
                                             orderMap[head].limit))
    BY <1>6 DEF TriggerStopLimit
  <2>2. pc' # "sweep" /\ AtRest(taker')
    BY <1>2, <2>1, TakersBeginAccounted DEF Run
  <2> QED
    BY <2>2, NothingSwept
<1>7. CASE StopsDone
  BY <1>7, TakersBeginAccounted, NothingSwept DEF StopsDone, Return
<1> QED
  BY <1>3, <1>4, <1>5, <1>6, <1>7

\* Every step keeps the account.
LEMMA NextAccounts ==
    ASSUME IInv, Counted, TInv, [Next]_vars
    PROVE  TInv'
<1>1. CASE limitOrderAsMarketOrder
  <2>1. pc \in Loops \ {"sweep"} /\ levels' = levels
    BY <1>1 DEF limitOrderAsMarketOrder, Loops
  <2>2. PICK p \in Prices : AcceptsEdge(p) /\ (SweepRest(p) \/ SweepLevel(p))
    BY <1>1 DEF limitOrderAsMarketOrder
  <2> QED
    BY <2>1, <2>2, RoundAccounts
<1>2. CASE existingOrderAsMarketOrder
  <2>1. pc \in Loops \ {"sweep"} /\ levels' = levels
    BY <1>2 DEF existingOrderAsMarketOrder, Loops
  <2>2. PICK p \in Prices : AcceptsEdge(p) /\ (SweepRest(p) \/ SweepLevel(p))
    BY <1>2 DEF existingOrderAsMarketOrder
  <2> QED
    BY <2>1, <2>2, RoundAccounts
<1>3. CASE UNCHANGED vars
  BY <1>3 DEF vars, TInv, SweepFitsEdge, TakerAccounted, AcceptsEdge, IsEdge,
              BookPrices, Maker
<1> QED
  BY <1>1, <1>2, <1>3, CallsAccount, FillHeadAccounts, SweepEndsAccount,
     OtherStepsAccount DEF Next, Engine

\* The invariant of the volumes and the account together.
LEMMA CountedInvariant ==
    ASSUME PositiveQuantities
    PROVE  Spec => [](IInv /\ Counted /\ TInv)
<1>1. Init => Counted /\ TInv
  <2>1. ASSUME Init
        PROVE  SweepFitsEdge /\ TakerAccounted
    BY <2>1, TakersBeginAccounted DEF Init, SweepFitsEdge, TakerAccounted, AtRest
  <2> QED
    BY <2>1 DEF Init, Counted, VolumesOK, TInv
<1>2. IInv /\ Counted /\ [Next]_vars => Counted'
  BY NextVolumes
<1>3. IInv /\ Counted /\ TInv /\ [Next]_vars => TInv'
  BY NextAccounts
<1> QED
  BY <1>1, <1>2, <1>3, Invariant, PTL DEF Spec

\* If no ticket is submitted or modified with 0 shares, then no share of an order
\* is traded twice or gets lost on the way through the loops: in every state of a
\* call the taker's size is what it has executed, what is being swept and what
\* limitOrderAsMarketOrder or existingOrderAsMarketOrder still holds for it.
THEOREM TakersAreAccounted ==
    ASSUME PositiveQuantities
    PROVE  Spec => []TakerAccounted
<1>1. TInv => TakerAccounted
  BY DEF TInv
<1> QED
  BY <1>1, CountedInvariant, PTL

-----------------------------------------------------------------------------
(* What a sweep takes.                                                     *)

\* Only marketOrderHelper runs in a sweep.
LEMMA SweepSteps ==
    ASSUME Next, pc = "sweep"
    PROVE  FillHead \/ PartiallyFillHead \/ EndSweep
BY DEF Next, Submit, submitMarketTicket, submitLimitTicket, submitStopTicket,
       submitStopLimitTicket, Cancels, cancelLimitTicket, cancelStopTicket,
       cancelStopLimitTicket, ModifyLimit, modifyLimitTicket, ModifyStop,
       modifyStopTicket, modifyStopLimitTicket, Idle, Engine,
       limitOrderAsMarketOrder, LimitLoopEnds, existingOrderAsMarketOrder,
       ConvertLoopEnds, TriggerStop, TriggerStopLimit, StopsDone

\* The ticket that a sweep for a limit order trades with is at the edge that the
\* order accepts.
LEMMA SweptIsAccepted ==
    ASSUME IInv, TInv, pc = "sweep", taker.limit # 0, taker.sweep # 0,
           NEW p \in Prices, IsEdge(taker.isBid, p)
    PROVE  /\ Accepts(taker.isBid, taker.limit, p)
           /\ Head1(Maker(p)) \in DOMAIN orderMap
           /\ orderMap[Head1(Maker(p))].parentLevel[2] = p
<1>1. PICK q \in Prices : AcceptsEdge(q)
  BY DEF TInv, SweepFitsEdge
<1>2. q = p
  BY <1>1, EdgeIsUnique DEF AcceptsEdge, IInv, TypeOK, Taker
<1>3. Accepts(taker.isBid, taker.limit, p)
  BY <1>1, <1>2 DEF AcceptsEdge
<1>4. Maker(p) \in DOMAIN levels /\ Maker(p)[2] = p
  BY EdgeIsLevel
<1> QED
  BY <1>3, <1>4, HeadIsMapped DEF IInv

\* A step of a sweep for a limit order changes no ticket beyond the limit.
LEMMA StepWithinLimit ==
    ASSUME IInv, Counted, TInv, Next, pc = "sweep", taker.limit # 0,
           NEW id \in DOMAIN orderMap,
           id \notin DOMAIN orderMap' \/ orderMap'[id].quantity # orderMap[id].quantity
    PROVE  Accepts(taker.isBid, taker.limit, orderMap[id].parentLevel[2])
<1>1. CASE FillHead
  <2>1. PICK p \in Prices : Fits(p) /\ orderMap' = Without(orderMap, Head1(Maker(p)))
    BY <1>1 DEF FillHead
  <2>2. id = Head1(Maker(p))
    BY <2>1 DEF Without, Restrict
  <2>3. taker.sweep # 0
    <3>1. orderMap[Head1(Maker(p))].quantity \in Nat \ {0}
      BY <2>1, EdgeIsLevel, HeadWithinVolume DEF Fits
    <3> QED
      BY <2>1, <3>1 DEF Fits
  <2> QED
    BY <2>1, <2>2, <2>3, SweptIsAccepted DEF Fits
<1>2. CASE PartiallyFillHead
  <2>1. PICK p \in Prices :
            /\ IsEdge(taker.isBid, p)
            /\ orderMap' = [orderMap EXCEPT ![Head1(Maker(p))].quantity = @ - taker.sweep]
    BY <1>2 DEF PartiallyFillHead
  <2>2. taker.sweep # 0
    BY <1>2 DEF PartiallyFillHead
  <2>3. id = Head1(Maker(p))
    BY <2>1
  <2> QED
    BY <2>1, <2>2, <2>3, SweptIsAccepted
<1>3. CASE EndSweep
  BY <1>3 DEF EndSweep
<1> QED
  BY <1>1, <1>2, <1>3, SweepSteps

\* If no ticket is submitted or modified with 0 shares, then every ticket that
\* loses shares to a limit taker does so at a price within the limit, although
\* marketOrderHelper, which takes them, looks at no limit.
THEOREM LimitsAreRespected ==
    ASSUME PositiveQuantities
    PROVE  Spec => LimitIsRespected
<1>1. IInv /\ Counted /\ TInv /\ [Next]_vars =>
          [pc = "sweep" /\ taker.limit # 0 =>
              \A id \in DOMAIN orderMap :
                  id \notin DOMAIN orderMap' \/ orderMap'[id].quantity # orderMap[id].quantity
                      => Accepts(taker.isBid, taker.limit, orderMap[id].parentLevel[2])]_vars
  BY StepWithinLimit
<1> QED
  BY <1>1, CountedInvariant, PTL DEF Spec, LimitIsRespected

-----------------------------------------------------------------------------
(* What marketOrderHelper forgets.                                         *)

LevelVolumes(ls, book) == [p \in Prices |-> ls[<<book, p>>].totalVolume]
PricesIn(ls, book) == {p \in Prices : <<book, p>> \in DOMAIN ls}

OfferOf(ls, book) == MapThenSumSet(LAMBDA p : ls[<<book, p>>].totalVolume, PricesIn(ls, book))

\* The shares a book offers are the sum over the prices of its levels.
LEMMA OfferIsSum ==
    ASSUME NEW ls, LevelsOK(ls), NEW book
    PROVE  /\ IsFiniteSet(PricesIn(ls, book))
           /\ IntValued(LevelVolumes(ls, book), PricesIn(ls, book))
           /\ OfferOf(ls, book) = SumFunctionOnSet(LevelVolumes(ls, book), PricesIn(ls, book))
           /\ OfferOf(ls, book) \in Int
<1> DEFINE S == PricesIn(ls, book)
           f == LevelVolumes(ls, book)
           Step(g, s) == IF s = {} THEN 0
                         ELSE ls[<<book, Chosen(s)>>].totalVolume + g[s \ {Chosen(s)}]
           sum == CHOOSE g : g = [s \in SUBSET S |-> Step(g, s)]
<1>1. IsFiniteSet(S)
  <2>1. IsFiniteSet(1..MaxPrice)
    BY FS_Interval, MaxPriceIsNatural
  <2>2. S \subseteq 1..MaxPrice
    BY DEF PricesIn, Prices
  <2> HIDE DEF S
  <2> QED
    BY <2>1, <2>2, FS_Subset
<1>2. \A p \in S : f[p] = ls[<<book, p>>].totalVolume /\ f[p] \in Int
  BY DEF PricesIn, LevelVolumes, LevelsOK, FunctionInto, Level
<1>3. IntValued(f, S)
  BY <1>2 DEF IntValued
<1>4. \A s \in SUBSET S : \A g : Step(g, s) = SumStep(g, f, s)
  <2>1. \A s \in SUBSET S : s # {} => Chosen(s) \in S
    BY DEF Chosen
  <2> HIDE DEF f, S
  <2> QED
    BY <1>2, <2>1 DEF SumStep
<1>5. PICK g : IsSum(g, f, S) /\ SumFunctionOnSet(f, S) = g[S]
  BY <1>1, FoldIsSum
<1>6. OfferOf(ls, book) = sum[S]
  BY DEF OfferOf, MapThenSumSet, MapThenFoldSet, Chosen
<1> HIDE DEF Step, f
<1>7. g = [s \in SUBSET S |-> Step(g, s)]
  BY <1>4, <1>5 DEF IsSum
<1>8. sum = [s \in SUBSET S |-> Step(sum, s)]
  BY <1>7
<1> HIDE DEF sum, S
<1>9. IsSum(sum, f, S)
  BY <1>4, <1>8 DEF IsSum
<1>10. sum[S] = g[S]
  BY <1>1, <1>3, <1>5, <1>9, SumIsUnique
<1>11. SumFunctionOnSet(f, S) \in Int
  BY <1>1, <1>3, SumIsInteger
<1> QED
  BY <1>1, <1>3, <1>5, <1>6, <1>10, <1>11 DEF S, f

\* Offered, before a step and after it, in these terms.
LEMMA OfferedIsOffer ==
    /\ Offered = OfferOf(levels, MakerBook(taker.isBid))
    /\ Offered' = OfferOf(levels', MakerBook(taker'.isBid))
BY DEF Offered, OfferOf, BookPrices, PricesIn, Maker, MapThenSumSet, MapThenFoldSet

\* partiallyFillOrder on the edge takes what is swept out of the offer.
LEMMA PartialFillLowersOffer ==
    ASSUME IInv, PartiallyFillHead
    PROVE  Offered - Offered' = taker.sweep
<1>1. PICK p \in Prices :
          /\ IsEdge(taker.isBid, p)
          /\ levels' = [levels EXCEPT ![Maker(p)].totalVolume = @ - taker.sweep]
  BY DEF PartiallyFillHead
<1> DEFINE book == MakerBook(taker.isBid)
           S == PricesIn(levels, book)
           f == LevelVolumes(levels, book)
           g == LevelVolumes(levels', book)
<1>2. taker'.isBid = taker.isBid
  <2>1. taker \in Taker
    BY DEF IInv, TypeOK
  <2>2. ASSUME NEW executed
        PROVE  [taker EXCEPT !.sweep = 0, !.executed = executed].isBid = taker.isBid
    BY <2>1 DEF Taker
  <2> QED
    BY <2>2, TakersBeginAccounted DEF PartiallyFillHead, SweepReturns, Run
<1>3. LevelsOK(levels) /\ LevelsOK(levels')
  BY CountedBooks, PartiallyFillHeadStep DEF IInv, TypeOK, LevelsOK
<1>4. Maker(p) = <<book, p>> /\ Maker(p) \in DOMAIN levels
  BY <1>1, EdgeIsLevel DEF Maker
<1>5. /\ DOMAIN levels' = DOMAIN levels
      /\ levels'[Maker(p)].totalVolume = levels[Maker(p)].totalVolume - taker.sweep
      /\ \A k \in DOMAIN levels \ {Maker(p)} : levels'[k] = levels[k]
  <2>1. levels[Maker(p)] \in Level
    BY <1>3, <1>4 DEF LevelsOK, FunctionInto
  <2> DEFINE volume == levels[Maker(p)].totalVolume - taker.sweep
             new == [levels[Maker(p)] EXCEPT !.totalVolume = volume]
  <2>2. levels' = [levels EXCEPT ![Maker(p)] = new]
    BY <1>1, <1>4
  <2>3. new.totalVolume = volume
    <3> HIDE DEF volume
    <3> QED
      BY <2>1 DEF Level
  <2> HIDE DEF new
  <2> QED
    BY <1>4, <2>2, <2>3
<1>6. PricesIn(levels', book) = S /\ p \in S
  BY <1>4, <1>5 DEF PricesIn
<1>7. g[p] = f[p] - taker.sweep /\ \A q \in S \ {p} : g[q] = f[q]
  BY <1>4, <1>5 DEF LevelVolumes, PricesIn
<1>8. /\ IsFiniteSet(S) /\ IntValued(f, S) /\ IntValued(g, S)
      /\ Offered = SumFunctionOnSet(f, S) /\ Offered' = SumFunctionOnSet(g, S)
  BY <1>2, <1>3, <1>6, OfferIsSum, OfferedIsOffer
<1> HIDE DEF S, f, g
<1>9. /\ SumFunctionOnSet(f, S) = f[p] + SumFunctionOnSet(f, S \ {p})
      /\ SumFunctionOnSet(g, S) = g[p] + SumFunctionOnSet(g, S \ {p})
      /\ SumFunctionOnSet(f, S \ {p}) \in Int
  BY <1>6, <1>8, SumWithout
<1>10. SumFunctionOnSet(g, S \ {p}) = SumFunctionOnSet(f, S \ {p})
  <2>1. IsFiniteSet(S \ {p}) /\ IntValued(g, S \ {p})
    BY <1>8, FS_Subset DEF IntValued
  <2> QED
    BY <1>7, <2>1, SumOfEqualValues
<1>11. f[p] \in Int /\ taker.sweep \in Int
  BY <1>6, <1>8 DEF IntValued, IInv, TypeOK, Taker
<1>12. Offered = f[p] + SumFunctionOnSet(f, S \ {p})
       /\ Offered' = f[p] - taker.sweep + SumFunctionOnSet(f, S \ {p})
  BY <1>7, <1>8, <1>9, <1>10
<1> QED
  BY <1>9, <1>11, <1>12

\* A sweep that returns without another trade has nothing left, or no level.
LEMMA EndSweepForgets ==
    ASSUME IInv, TInv, EndSweep
    PROVE  \/ Offered - Offered' = taker.sweep
           \/ taker.limit = 0 /\ Offered' = 0
<1>1. taker'.isBid = taker.isBid /\ levels' = levels
  <2>1. taker \in Taker
    BY DEF IInv, TypeOK
  <2>2. ASSUME NEW executed
        PROVE  [taker EXCEPT !.sweep = 0, !.executed = executed].isBid = taker.isBid
    BY <2>1 DEF Taker
  <2> QED
    BY <2>2, TakersBeginAccounted DEF EndSweep, SweepReturns, Run
<1>2. Offered' = Offered /\ Offered \in Int
  BY <1>1, CountedBooks, OfferIsSum, OfferedIsOffer
<1>3. CASE taker.sweep = 0
  BY <1>2, <1>3
<1>4. CASE taker.sweep # 0
  <2>1. \A p \in Prices : ~IsEdge(taker.isBid, p)
    BY <1>4 DEF EndSweep
  <2>2. taker.limit = 0
    BY <1>4, <2>1 DEF EndSweep, TInv, SweepFitsEdge, AcceptsEdge
  <2>3. PricesIn(levels, MakerBook(taker.isBid)) = {}
    <3>1. taker.isBid \in BOOLEAN
      BY DEF IInv, TypeOK, Taker
    <3> QED
      BY <2>1, <3>1, EdgeExists DEF PricesIn, BookPrices
  <2>4. Offered = 0
    BY <2>3, CountedBooks, OfferIsSum, OfferedIsOffer, SumIsInteger
  <2> QED
    BY <1>2, <2>2, <2>4
<1> QED
  BY <1>3, <1>4

\* If no ticket is submitted or modified with 0 shares, then the end of a sweep
\* takes all that is left of marketOrderHelper's quantity out of the book, or no
\* level of that book is left and the sweep was for a market order, the one whose
\* rest is meant to be forgotten (line 1144).
THEOREM NothingElseIsForgotten ==
    ASSUME PositiveQuantities
    PROVE  Spec => OnlyEmptyBookForgets
<1>1. ASSUME IInv, TInv, Next, pc = "sweep", pc' # "sweep"
      PROVE  \/ Offered - Offered' = taker.sweep
             \/ taker.limit = 0 /\ Offered' = 0
  <2>1. PartiallyFillHead \/ EndSweep
    BY <1>1, SweepSteps DEF FillHead
  <2> QED
    BY <1>1, <2>1, PartialFillLowersOffer, EndSweepForgets
<1>2. IInv /\ Counted /\ TInv /\ [Next]_vars =>
          [pc = "sweep" /\ pc' # "sweep" =>
              \/ Offered - Offered' = taker.sweep
              \/ taker.limit = 0 /\ Offered' = 0]_vars
  BY <1>1
<1> QED
  BY <1>2, CountedInvariant, PTL DEF Spec, OnlyEmptyBookForgets

-----------------------------------------------------------------------------
(* The work that a running call has left.                                  *)

Weights(om, out) ==
    [id \in DOMAIN om \ out |->
        IF om[id].parentLevel[1] \in LimitBooks THEN 1 ELSE 2 * om[id].quantity + 3]

WeightOf(om, out) == SumFunctionOnSet(Weights(om, out), DOMAIN om \ out)

FinitelyMany == IsFiniteSet(DOMAIN orderMap)

\* Work in these terms, before a step.
LEMMA WorkRestated == Work = WeightOf(orderMap, Converting) + 2 * taker.rest + Phase
BY DEF Work, Weight, WeightOf, Weights, IsLimit

\* ... and after it.
LEMMA WorkRestatedNext ==
    Work' = WeightOf(orderMap', Converting') + 2 * taker'.rest + Phase'
BY DEF Work, Weight, WeightOf, Weights, IsLimit

\* Every ticket weighs something, and so do finitely many together.
LEMMA WeightIsNatural ==
    ASSUME NEW om, FunctionInto(om, Ids, Ticket), IsFiniteSet(DOMAIN om), NEW out
    PROVE  /\ IsFiniteSet(DOMAIN om \ out)
           /\ \A id \in DOMAIN om \ out : Weights(om, out)[id] \in Nat
           /\ IntValued(Weights(om, out), DOMAIN om \ out)
           /\ WeightOf(om, out) \in Nat
<1> DEFINE S == DOMAIN om \ out
<1>1. IsFiniteSet(S)
  BY FS_Subset
<1>2. \A id \in S : Weights(om, out)[id] \in Nat
  BY DEF Weights, FunctionInto, Ticket
<1>3. IntValued(Weights(om, out), S)
  BY <1>2 DEF IntValued
<1> HIDE DEF S
<1>4. SumFunctionOnSet(Weights(om, out), S) \in Nat
  BY <1>1, <1>2, SumOfNaturals
<1> QED
  BY <1>1, <1>2, <1>3, <1>4 DEF WeightOf, S

\* A ticket that leaves the queues takes its weight along.
LEMMA WeightWithout ==
    ASSUME NEW om, FunctionInto(om, Ids, Ticket), IsFiniteSet(DOMAIN om), NEW out,
           NEW id \in DOMAIN om \ out,
           NEW om2, NEW out2, DOMAIN om2 \ out2 = (DOMAIN om \ out) \ {id},
           \A other \in DOMAIN om2 \ out2 : om2[other] = om[other]
    PROVE  WeightOf(om, out) = Weights(om, out)[id] + WeightOf(om2, out2)
<1> DEFINE S == DOMAIN om \ out
           f == Weights(om, out)
           g == Weights(om2, out2)
<1>1. IsFiniteSet(S) /\ IntValued(f, S)
  BY WeightIsNatural
<1>2. \A other \in S \ {id} : f[other] = g[other]
  BY DEF Weights
<1>3. DOMAIN om2 \ out2 = S \ {id} /\ id \in S
  OBVIOUS
<1> HIDE DEF S, f, g
<1>4. SumFunctionOnSet(f, S) = f[id] + SumFunctionOnSet(f, S \ {id})
  BY <1>1, <1>3, SumWithout
<1>5. IsFiniteSet(S \ {id}) /\ IntValued(f, S \ {id})
  BY <1>1, FS_Subset DEF IntValued
<1>6. SumFunctionOnSet(f, S \ {id}) = SumFunctionOnSet(g, S \ {id})
  BY <1>2, <1>5, SumOfEqualValues
<1> QED
  BY <1>3, <1>4, <1>6 DEF WeightOf, S, f, g

\* Tickets that stay where they are keep their weight: that of a limit ticket
\* does not depend on its shares.
LEMMA WeightUnchanged ==
    ASSUME NEW om, NEW out, NEW om2, NEW out2, DOMAIN om2 \ out2 = DOMAIN om \ out,
           \A id \in DOMAIN om \ out :
              \/ om2[id] = om[id]
              \/ /\ om[id].parentLevel[1] \in LimitBooks
                 /\ om2[id].parentLevel = om[id].parentLevel
    PROVE  WeightOf(om2, out2) = WeightOf(om, out)
<1>1. Weights(om2, out2) = Weights(om, out)
  BY DEF Weights
<1> QED
  BY <1>1 DEF WeightOf

\* What a step can compare.
LEMMA WorkBefore ==
    ASSUME IInv, FinitelyMany
    PROVE  /\ FunctionInto(orderMap, Ids, Ticket)
           /\ WeightOf(orderMap, Converting) \in Nat
           /\ taker \in Taker
           /\ taker.rest \in Nat
BY WeightIsNatural DEF IInv, TypeOK, FinitelyMany, Taker

\* The engine runs on until it returns: no call begins in between.
LEMMA RunningSteps ==
    ASSUME Next, pc # "idle"
    PROVE  Engine
BY DEF Next, Submit, submitMarketTicket, submitLimitTicket, submitStopTicket,
       submitStopLimitTicket, Cancels, cancelLimitTicket, cancelStopTicket,
       cancelStopLimitTicket, ModifyLimit, modifyLimitTicket, ModifyStop,
       modifyStopTicket, modifyStopLimitTicket, Idle

\* The head of a limit level weighs 1, the head of a stop level what it can cost.
LEMMA HeadWeight ==
    ASSUME IInv, NEW k \in DOMAIN levels
    PROVE  /\ Head1(k) \in DOMAIN orderMap \ Converting
           /\ orderMap[Head1(k)].parentLevel = k
           /\ orderMap[Head1(k)].quantity \in Nat
           /\ Weights(orderMap, Converting)[Head1(k)] =
                  IF k[1] \in LimitBooks THEN 1 ELSE 2 * orderMap[Head1(k)].quantity + 3
<1>1. /\ Head1(k) \in DOMAIN orderMap \ Converting
      /\ orderMap[Head1(k)] \in Ticket
      /\ orderMap[Head1(k)].parentLevel = k
  BY HeadIsMapped DEF IInv
<1> QED
  BY <1>1 DEF Weights, Ticket

-----------------------------------------------------------------------------
(* Every step of the engine takes some of it away.                         *)

\* A filled head is one ticket less.
LEMMA FillHeadWorks ==
    ASSUME IInv, FinitelyMany, FillHead
    PROVE  Work' \in Nat /\ Work' < Work
<1>1. PICK p \in Prices :
          LET head == Head1(Maker(p))
              shares == orderMap[head].quantity
          IN  /\ Fits(p)
              /\ orderMap' = Without(orderMap, head)
              /\ taker' = [taker EXCEPT !.sweep = @ - shares, !.executed = @ + shares]
  BY DEF FillHead
<1> DEFINE k == Maker(p)
           head == Head1(k)
<1>2. k \in DOMAIN levels /\ k[1] \in LimitBooks
  BY <1>1, EdgeIsLevel DEF Fits, Maker, MakerBook, LimitBook, LimitBooks
<1>3. head \in DOMAIN orderMap \ Converting /\ Weights(orderMap, Converting)[head] = 1
  BY <1>2, HeadWeight
<1>4. taker'.id = taker.id /\ taker'.then = taker.then /\ taker'.rest = taker.rest
  <2>1. ASSUME NEW t \in Taker, NEW sweep, NEW executed
        PROVE  LET new == [t EXCEPT !.sweep = sweep, !.executed = executed]
               IN  new.id = t.id /\ new.then = t.then /\ new.rest = t.rest
    BY DEF Taker
  <2> QED
    BY <1>1, <2>1, WorkBefore
<1>5. pc = "sweep" /\ pc' = "sweep"
  BY DEF FillHead
<1>6. Converting' = Converting /\ Phase' = Phase /\ Phase \in Nat
  BY <1>4, <1>5 DEF Converting, Phase
<1>7. WeightOf(orderMap, Converting) = 1 + WeightOf(orderMap', Converting')
  <2>1. /\ DOMAIN orderMap' = DOMAIN orderMap \ {head}
        /\ \A id \in DOMAIN orderMap' : orderMap'[id] = orderMap[id]
    BY <1>1 DEF Without, Restrict
  <2>2. DOMAIN orderMap' \ Converting = (DOMAIN orderMap \ Converting) \ {head}
    BY <2>1
  <2> QED
    BY <1>3, <1>6, <2>1, <2>2, WeightWithout, WorkBefore DEF FinitelyMany
<1>8. WeightOf(orderMap', Converting') \in Nat
  <2>1. /\ FunctionInto(orderMap', Ids, Ticket)
        /\ DOMAIN orderMap' \subseteq DOMAIN orderMap
    BY <1>1, WorkBefore DEF Without, Restrict, FunctionInto
  <2>2. IsFiniteSet(DOMAIN orderMap')
    BY <2>1, FS_Subset DEF FinitelyMany
  <2> QED
    BY <2>1, <2>2, WeightIsNatural
<1> QED
  BY <1>4, <1>6, <1>7, <1>8, WorkBefore, WorkRestated, WorkRestatedNext

\* marketOrderHelper's return gives control to an earlier phase.
LEMMA SweepReturnsWorks ==
    ASSUME IInv, FinitelyMany, pc = "sweep", NEW executed, SweepReturns(executed),
           WeightOf(orderMap', Converting) = WeightOf(orderMap, Converting)
    PROVE  Work' \in Nat /\ Work' < Work
<1>1. Converting' = Converting
  BY SweepReturnsConverting
<1>2. taker \in Taker /\ pc' = taker.then /\ taker.then \in {"stops", "limit", "convert"}
  BY DEF IInv, TypeOK, SweepReturns, Run, Taker, Loops
<1>3. Phase \in Nat /\ Phase' \in Nat /\ Phase' < Phase
  BY <1>2 DEF Phase
<1>4. taker'.rest \in Nat /\ taker'.rest <= taker.rest
  <2>1. \A isBid : StopsOf(isBid).rest = 0
    BY DEF StopsOf, NoTaker
  <2>2. ASSUME NEW t \in Taker, NEW sweep, NEW n
        PROVE  [t EXCEPT !.sweep = sweep, !.executed = n].rest = t.rest
    BY DEF Taker
  <2> QED
    BY <1>2, <2>1, <2>2, WorkBefore DEF SweepReturns, Run
<1> QED
  BY <1>1, <1>3, <1>4, WorkBefore, WorkRestated, WorkRestatedNext

\* The two ways in which a sweep ends.
LEMMA SweepEndsWork ==
    ASSUME IInv, FinitelyMany, PartiallyFillHead \/ EndSweep
    PROVE  Work' \in Nat /\ Work' < Work
<1>1. CASE PartiallyFillHead
  <2>1. PICK p \in Prices :
            /\ IsEdge(taker.isBid, p)
            /\ orderMap' = [orderMap EXCEPT ![Head1(Maker(p))].quantity = @ - taker.sweep]
    BY <1>1 DEF PartiallyFillHead
  <2> DEFINE head == Head1(Maker(p))
  <2>2. Maker(p) \in DOMAIN levels /\ Maker(p)[1] \in LimitBooks
    BY <2>1, EdgeIsLevel DEF Maker, MakerBook, LimitBook, LimitBooks
  <2>3. head \in DOMAIN orderMap /\ orderMap[head].parentLevel[1] \in LimitBooks
    BY <2>2, HeadWeight
  <2>4. /\ DOMAIN orderMap' = DOMAIN orderMap
        /\ \A id \in DOMAIN orderMap \ {head} : orderMap'[id] = orderMap[id]
    BY <2>1
  <2>5. orderMap'[head].parentLevel = orderMap[head].parentLevel
    <3>1. ASSUME NEW t \in Ticket, NEW quantity
          PROVE  [t EXCEPT !.quantity = quantity].parentLevel = t.parentLevel
      BY DEF Ticket
    <3>2. orderMap[head] \in Ticket
      BY <2>3, WorkBefore DEF FunctionInto
    <3>3. orderMap'[head] = [orderMap[head] EXCEPT !.quantity = @ - taker.sweep]
      BY <2>1, <2>3
    <3> QED
      BY <3>1, <3>2, <3>3
  <2>6. WeightOf(orderMap', Converting) = WeightOf(orderMap, Converting)
    BY <2>3, <2>4, <2>5, WeightUnchanged
  <2> QED
    BY <1>1, <2>6, SweepReturnsWorks DEF PartiallyFillHead
<1>2. CASE EndSweep
  <2>1. pc = "sweep" /\ orderMap' = orderMap /\ SweepReturns(0)
    BY <1>2 DEF EndSweep
  <2> QED
    BY <2>1, SweepReturnsWorks
<1> QED
  BY <1>1, <1>2

\* A round of a limit loop hands all it holds to the last sweep, or as much as the
\* level has, which is not nothing.
LEMMA RoundWorks ==
    ASSUME IInv, Counted, FinitelyMany, pc \in {"limit", "convert"},
           NEW p \in Prices, AcceptsEdge(p), SweepRest(p) \/ SweepLevel(p),
           WeightOf(orderMap', Converting') = WeightOf(orderMap, Converting)
    PROVE  Work' \in Nat /\ Work' < Work
<1>1. taker \in Taker /\ taker.rest \in Nat /\ Phase = 3
  BY WorkBefore DEF Phase
<1>2. CASE SweepRest(p)
  <2>1. Phase' = 2
    BY <1>1, <1>2, SweepRestTaker DEF Phase
  <2>2. taker'.rest = 0
    <3>1. ASSUME NEW t \in Taker, NEW sweep, NEW rest, NEW then
          PROVE  [t EXCEPT !.sweep = sweep, !.rest = rest, !.then = then].rest = rest
      BY DEF Taker
    <3> QED
      BY <1>1, <1>2, <3>1 DEF SweepRest, Run
  <2> QED
    BY <1>1, <2>1, <2>2, WorkBefore, WorkRestated, WorkRestatedNext
<1>3. CASE SweepLevel(p)
  <2> DEFINE volume == levels[Maker(p)].totalVolume
             less == taker.rest - volume
  <2>1. Maker(p) \in DOMAIN levels
    BY EdgeIsLevel DEF AcceptsEdge
  <2>2. volume \in Nat \ {0}
    BY <2>1, HeadWithinVolume
  <2>3. less \in Nat /\ less < taker.rest
    BY <1>1, <1>3, <2>2 DEF SweepLevel
  <2>4. pc' = "sweep" /\ taker'.then = pc
    BY <1>1, <1>3, <2>1, SweepLevelTaker, CountedBooks DEF Loops
  <2>5. Phase' = 4
    BY <2>4 DEF Phase
  <2>6. taker'.rest = less
    <3>1. ASSUME NEW t \in Taker, NEW sweep, NEW rest, NEW then
          PROVE  [t EXCEPT !.sweep = sweep, !.rest = rest, !.then = then].rest = rest
      BY DEF Taker
    <3>2. taker' = [taker EXCEPT !.sweep = volume, !.rest = less, !.then = pc]
      BY <1>3 DEF SweepLevel, Run
    <3> HIDE DEF volume, less
    <3> QED
      BY <1>1, <3>1, <3>2
  <2> HIDE DEF less
  <2> QED
    BY <1>1, <2>3, <2>5, <2>6, WorkBefore, WorkRestated, WorkRestatedNext
<1> QED
  BY <1>2, <1>3

\* Rounds of limitOrderAsMarketOrder and existingOrderAsMarketOrder.
LEMMA LoopsWork ==
    ASSUME IInv, Counted, FinitelyMany,
           limitOrderAsMarketOrder \/ existingOrderAsMarketOrder
    PROVE  Work' \in Nat /\ Work' < Work
<1>1. CASE limitOrderAsMarketOrder
  <2>1. PICK p \in Prices : AcceptsEdge(p) /\ (SweepRest(p) \/ SweepLevel(p))
    BY <1>1 DEF limitOrderAsMarketOrder
  <2>2. pc = "limit" /\ orderMap' = orderMap
    BY <1>1 DEF limitOrderAsMarketOrder
  <2>3. Converting = {} /\ Converting' = {}
    <3>1. CASE SweepRest(p)
      BY <2>2, <3>1, SweepRestTaker, WorkBefore DEF Converting
    <3>2. CASE SweepLevel(p)
      <4>1. Maker(p) \in DOMAIN levels
        BY <2>1, EdgeIsLevel DEF AcceptsEdge
      <4> QED
        BY <2>2, <3>2, <4>1, SweepLevelTaker, WorkBefore, CountedBooks DEF Converting, Loops
    <3> QED
      BY <2>1, <3>1, <3>2
  <2> QED
    BY <2>1, <2>2, <2>3, RoundWorks
<1>2. CASE existingOrderAsMarketOrder
  <2>1. PICK p \in Prices :
            /\ AcceptsEdge(p)
            /\ \/ SweepRest(p) /\ orderMap' = Without(orderMap, taker.id)
               \/ SweepLevel(p) /\ UNCHANGED orderMap
    BY <1>2 DEF existingOrderAsMarketOrder
  <2>2. pc = "convert" /\ Converting = {taker.id}
    BY <1>2 DEF existingOrderAsMarketOrder, Converting
  <2>3. CASE SweepRest(p) /\ orderMap' = Without(orderMap, taker.id)
    <3>1. Converting' = {}
      BY <2>3, SweepRestTaker, WorkBefore DEF Converting
    <3>2. /\ DOMAIN orderMap' \ {} = DOMAIN orderMap \ {taker.id}
          /\ \A id \in DOMAIN orderMap \ {taker.id} : orderMap'[id] = orderMap[id]
      BY <2>3 DEF Without, Restrict
    <3>3. WeightOf(orderMap', {}) = WeightOf(orderMap, {taker.id})
      BY <3>2, WeightUnchanged
    <3> QED
      BY <2>1, <2>2, <2>3, <3>1, <3>3, RoundWorks
  <2>4. CASE SweepLevel(p) /\ UNCHANGED orderMap
    <3>1. Maker(p) \in DOMAIN levels
      BY <2>1, EdgeIsLevel DEF AcceptsEdge
    <3>2. Converting' = Converting
      BY <2>2, <2>4, <3>1, SweepLevelTaker, WorkBefore, CountedBooks DEF Converting, Loops
    <3> QED
      BY <2>1, <2>2, <2>4, <3>2, RoundWorks
  <2> QED
    BY <2>1, <2>3, <2>4
<1> QED
  BY <1>1, <1>2

\* What is left of a limit order comes to rest with a weight of 1, less than the
\* shares it took into the loop.
LEMMA LimitLoopEndsWorks ==
    ASSUME IInv, IInv', FinitelyMany, FinitelyMany', LimitLoopEnds
    PROVE  Work' \in Nat /\ Work' < Work
<1>1. pc = "limit" /\ Converting = {} /\ Phase = 3
  BY DEF LimitLoopEnds, Converting, Phase
<1>2. NoTaker.rest = 0 /\ \A isBid : StopsOf(isBid).rest = 0
  BY DEF StopsOf, NoTaker
<1>3. CASE taker.rest # 0
  <2> DEFINE id == taker.id
             k == LimitLevel(taker.isBid, taker.limit)
             ticket == NewTicket(taker.isBid, taker.rest, taker.limit, k)
  <2>1. Rest(id, taker.isBid, taker.rest, taker.limit, k) /\ Return
    BY <1>3 DEF LimitLoopEnds
  <2>2. Phase' = 0 /\ Converting' = {} /\ taker'.rest = 0
    BY <1>2, <2>1 DEF Return, Phase, Converting
  <2>3. id \notin DOMAIN orderMap
    BY <1>1 DEF IInv, TakerFitsBooks, InLoop
  <2>4. orderMap' = With(orderMap, id, ticket)
    BY <2>1 DEF Rest
  <2>5. ticket.parentLevel[1] \in LimitBooks
    BY DEF NewTicket, LimitLevel, LimitBook, LimitBooks
  <2> HIDE DEF ticket, id
  <2>6. /\ DOMAIN orderMap' = DOMAIN orderMap \cup {id}
        /\ orderMap'[id] = ticket
        /\ \A other \in DOMAIN orderMap \ {id} : orderMap'[other] = orderMap[other]
    BY <2>4 DEF With
  <2>7. WeightOf(orderMap', {}) = Weights(orderMap', {})[id] + WeightOf(orderMap, {})
    <3>1. FunctionInto(orderMap', Ids, Ticket) /\ IsFiniteSet(DOMAIN orderMap')
      BY DEF IInv, TypeOK, FinitelyMany
    <3>2. /\ id \in DOMAIN orderMap' \ {}
          /\ DOMAIN orderMap \ {} = (DOMAIN orderMap' \ {}) \ {id}
          /\ \A other \in DOMAIN orderMap \ {} : orderMap[other] = orderMap'[other]
      BY <2>3, <2>6
    <3> QED
      BY <3>1, <3>2, WeightWithout
  <2>8. Weights(orderMap', {})[id] = 1
    BY <2>5, <2>6 DEF Weights
  <2> QED
    BY <1>1, <1>3, <2>2, <2>7, <2>8, WorkBefore, WorkRestated, WorkRestatedNext
<1>4. CASE taker.rest = 0
  <2>1. Run("stops", StopsOf(taker.isBid)) /\ orderMap' = orderMap
    BY <1>4 DEF LimitLoopEnds
  <2>2. Phase' = 1 /\ Converting' = {} /\ taker'.rest = 0
    BY <1>2, <2>1 DEF Run, Phase, Converting
  <2> QED
    BY <1>1, <1>4, <2>1, <2>2, WorkBefore, WorkRestated, WorkRestatedNext
<1> QED
  BY <1>3, <1>4

\* The converted ticket, which has shares left, is a limit ticket from now on.
LEMMA ConvertLoopEndsWorks ==
    ASSUME IInv, IInv', FinitelyMany, FinitelyMany', ConvertLoopEnds
    PROVE  Work' \in Nat /\ Work' < Work
<1> DEFINE id == taker.id
           k == LimitLevel(taker.isBid, taker.limit)
<1>1. pc = "convert" /\ Converting = {id} /\ Phase = 3
  BY DEF ConvertLoopEnds, Converting, Phase
<1>2. id \in DOMAIN orderMap /\ taker.rest # 0
  BY <1>1 DEF IInv, TakerFitsBooks, InLoop
<1>3. /\ orderMap' = [orderMap EXCEPT ![id].quantity = taker.rest, ![id].parentLevel = k]
      /\ Run("stops", StopsOf(taker.isBid))
  BY <1>2 DEF ConvertLoopEnds
<1>4. Phase' = 1 /\ Converting' = {} /\ taker'.rest = 0
  <2>1. \A isBid : StopsOf(isBid).rest = 0
    BY DEF StopsOf, NoTaker
  <2> QED
    BY <1>3, <2>1 DEF Run, Phase, Converting
<1>5. k[1] \in LimitBooks
  BY DEF LimitLevel, LimitBook, LimitBooks
<1>6. orderMap[id] \in Ticket
  BY <1>2, WorkBefore DEF FunctionInto
<1> HIDE DEF id, k
<1>7. /\ DOMAIN orderMap' = DOMAIN orderMap
      /\ orderMap'[id].parentLevel = k
      /\ \A other \in DOMAIN orderMap \ {id} : orderMap'[other] = orderMap[other]
  <2> DEFINE new == [orderMap[id] EXCEPT !.quantity = taker.rest, !.parentLevel = k]
  <2>1. orderMap' = [orderMap EXCEPT ![id] = new]
    BY <1>2, <1>3
  <2>2. ASSUME NEW ticket \in Ticket, NEW quantity
        PROVE  [ticket EXCEPT !.quantity = quantity, !.parentLevel = k].parentLevel = k
    BY DEF Ticket
  <2>3. new.parentLevel = k
    BY <1>6, <2>2
  <2> HIDE DEF new
  <2> QED
    BY <1>2, <2>1, <2>3
<1>8. WeightOf(orderMap', {}) = Weights(orderMap', {})[id] + WeightOf(orderMap, {id})
  <2>1. FunctionInto(orderMap', Ids, Ticket) /\ IsFiniteSet(DOMAIN orderMap')
    BY DEF IInv, TypeOK, FinitelyMany
  <2>2. /\ id \in DOMAIN orderMap' \ {}
        /\ DOMAIN orderMap \ {id} = (DOMAIN orderMap' \ {}) \ {id}
        /\ \A other \in DOMAIN orderMap \ {id} : orderMap[other] = orderMap'[other]
    BY <1>2, <1>7
  <2> QED
    BY <2>1, <2>2, WeightWithout
<1>9. Weights(orderMap', {})[id] = 1
  BY <1>2, <1>5, <1>7 DEF Weights
<1> QED
  BY <1>1, <1>2, <1>4, <1>8, <1>9, WorkBefore, WorkRestated, WorkRestatedNext

\* A triggered ticket's weight is more than what it is about to cost.
LEMMA TriggersWork ==
    ASSUME IInv, FinitelyMany, TriggerStop \/ TriggerStopLimit
    PROVE  Work' \in Nat /\ Work' < Work
<1>1. PICK p \in Prices :
          LET head == Head1(<<"stop", p>>)
          IN  /\ Triggered(p)
              /\ \/ /\ orderMap' = Without(orderMap, head)
                    /\ Run("sweep", MarketTaker(taker.isBid, orderMap[head].quantity))
                 \/ /\ orderMap' = orderMap
                    /\ Run("convert", LimitTaker(head, taker.isBid, orderMap[head].quantity,
                                                 orderMap[head].limit))
  BY DEF TriggerStop, TriggerStopLimit
<1> DEFINE k == <<"stop", p>>
           head == Head1(k)
           quantity == orderMap[head].quantity
<1>2. pc = "stops" /\ Converting = {} /\ Phase = 1
  BY DEF TriggerStop, TriggerStopLimit, Converting, Phase
<1>3. k \in DOMAIN levels /\ k[1] \notin LimitBooks
  BY <1>1, StopEdgeIsLevel DEF LimitBooks
<1>4. /\ head \in DOMAIN orderMap
      /\ quantity \in Nat
      /\ Weights(orderMap, {})[head] = 2 * quantity + 3
  BY <1>2, <1>3, HeadWeight
<1>5. /\ MarketTaker(taker.isBid, quantity).rest = 0
      /\ MarketTaker(taker.isBid, quantity).then = "stops"
      /\ LimitTaker(head, taker.isBid, quantity, orderMap[head].limit).rest = quantity
      /\ LimitTaker(head, taker.isBid, quantity, orderMap[head].limit).id = head
  <2> HIDE DEF head, quantity
  <2> QED
    BY DEF MarketTaker, LimitTaker, NoTaker
<1> HIDE DEF head, quantity
<1>6. /\ DOMAIN orderMap' \ Converting' = (DOMAIN orderMap \ {}) \ {head}
      /\ \A id \in DOMAIN orderMap' \ Converting' : orderMap'[id] = orderMap[id]
      /\ taker'.rest \in Nat /\ Phase' \in Nat
      /\ 2 * taker'.rest + Phase' <= 2 * quantity + 3
  <2>1. CASE /\ orderMap' = Without(orderMap, head)
             /\ Run("sweep", MarketTaker(taker.isBid, quantity))
    <3>1. Converting' = {} /\ Phase' = 2 /\ taker'.rest = 0
      BY <1>5, <2>1 DEF Run, Converting, Phase
    <3> QED
      BY <1>4, <2>1, <3>1 DEF Without, Restrict
  <2>2. CASE /\ orderMap' = orderMap
             /\ Run("convert", LimitTaker(head, taker.isBid, quantity, orderMap[head].limit))
    <3>1. Converting' = {head} /\ Phase' = 3 /\ taker'.rest = quantity
      BY <1>5, <2>2 DEF Run, Converting, Phase
    <3> QED
      BY <1>4, <2>2, <3>1
  <2> QED
    BY <1>1, <2>1, <2>2 DEF head, quantity
<1>7. WeightOf(orderMap, {}) = 2 * quantity + 3 + WeightOf(orderMap', Converting')
  BY <1>4, <1>6, WeightWithout, WorkBefore DEF FinitelyMany
<1>8. WeightOf(orderMap', Converting') \in Nat
  <2> DEFINE S == DOMAIN orderMap' \ Converting'
             f == Weights(orderMap', Converting')
  <2>1. IsFiniteSet(S)
    BY <1>6, FS_Subset DEF FinitelyMany
  <2>2. \A id \in S : f[id] \in Nat
    BY <1>6, WorkBefore DEF Weights, FunctionInto, Ticket
  <2> HIDE DEF S, f
  <2>3. SumFunctionOnSet(f, S) \in Nat
    BY <2>1, <2>2, SumOfNaturals
  <2> QED
    BY <2>3 DEF WeightOf, S, f
<1> QED
  BY <1>2, <1>4, <1>6, <1>7, <1>8, WorkBefore, WorkRestated, WorkRestatedNext

\* The call returns.
LEMMA StopsDoneWorks ==
    ASSUME IInv, FinitelyMany, StopsDone
    PROVE  Work' \in Nat /\ Work' < Work
<1>1. pc = "stops" /\ pc' = "idle" /\ taker' = NoTaker /\ orderMap' = orderMap
  BY DEF StopsDone, Return
<1>2. Phase = 1 /\ Phase' = 0 /\ taker'.rest = 0 /\ Converting = {} /\ Converting' = {}
  BY <1>1 DEF Phase, NoTaker, Converting
<1> QED
  BY <1>1, <1>2, WorkBefore, WorkRestated, WorkRestatedNext

\* A step maps at most one ticket more.
LEMMA NextFinite ==
    ASSUME FinitelyMany, [Next]_vars
    PROVE  FinitelyMany'
<1>1. \E id : DOMAIN orderMap' \subseteq DOMAIN orderMap \cup {id}
  <2>1. CASE Submit
    BY <2>1 DEF Submit, submitMarketTicket, submitLimitTicket, submitStopTicket,
                submitStopLimitTicket, Rest, With
  <2>2. CASE Cancels
    BY <2>2 DEF Cancels, cancelLimitTicket, cancelStopTicket, cancelStopLimitTicket,
                Cancel, Without, Restrict
  <2>3. CASE ModifyLimit \/ ModifyStop
    BY <2>3 DEF ModifyLimit, modifyLimitTicket, ModifyStop, modifyStopTicket,
                modifyStopLimitTicket, Move
  <2>4. CASE Engine
    BY <2>4 DEF Engine, FillHead, PartiallyFillHead, EndSweep, limitOrderAsMarketOrder,
                LimitLoopEnds, existingOrderAsMarketOrder, ConvertLoopEnds, TriggerStop,
                TriggerStopLimit, StopsDone, Rest, With, Without, Restrict
  <2>5. CASE UNCHANGED vars
    BY <2>5 DEF vars
  <2> QED
    BY <2>1, <2>2, <2>3, <2>4, <2>5 DEF Next
<1>2. PICK id : DOMAIN orderMap' \subseteq DOMAIN orderMap \cup {id}
  BY <1>1
<1>3. IsFiniteSet(DOMAIN orderMap \cup {id})
  BY FS_AddElement DEF FinitelyMany
<1> QED
  BY <1>2, <1>3, FS_Subset DEF FinitelyMany

\* If no ticket is submitted or modified with 0 shares, then every step of a call
\* leaves it less work than before, and never less than none.  So no call takes
\* more steps than its Work: the loops that take level after level
\* (limitOrderAsMarketOrder, existingOrderAsMarketOrder) end, and so does the
\* cascade of executeStopOrders, for any number of tickets, prices and shares.
THEOREM CallsRunOut ==
    ASSUME PositiveQuantities
    PROVE  Spec => WorkRunsOut
<1>1. ASSUME IInv, IInv', Counted, FinitelyMany, FinitelyMany', Next, pc # "idle"
      PROVE  Work' \in Nat /\ Work' < Work
  <2>1. Engine
    BY <1>1, RunningSteps
  <2>2. CASE FillHead
    BY <1>1, <2>2, FillHeadWorks
  <2>3. CASE PartiallyFillHead \/ EndSweep
    BY <1>1, <2>3, SweepEndsWork
  <2>4. CASE limitOrderAsMarketOrder \/ existingOrderAsMarketOrder
    BY <1>1, <2>4, LoopsWork
  <2>5. CASE LimitLoopEnds
    BY <1>1, <2>5, LimitLoopEndsWorks
  <2>6. CASE ConvertLoopEnds
    BY <1>1, <2>6, ConvertLoopEndsWorks
  <2>7. CASE TriggerStop \/ TriggerStopLimit
    BY <1>1, <2>7, TriggersWork
  <2>8. CASE StopsDone
    BY <1>1, <2>8, StopsDoneWorks
  <2> QED
    BY <2>1, <2>2, <2>3, <2>4, <2>5, <2>6, <2>7, <2>8 DEF Engine
<1>2. IInv /\ IInv' /\ Counted /\ FinitelyMany /\ FinitelyMany' /\ [Next]_vars =>
          [pc # "idle" => Work' \in Nat /\ Work' < Work]_vars
  BY <1>1
<1>3. Init => FinitelyMany
  BY FS_EmptySet DEF Init, FinitelyMany
<1>4. FinitelyMany /\ [Next]_vars => FinitelyMany'
  BY NextFinite
<1> QED
  BY <1>2, <1>3, <1>4, CountedInvariant, PTL DEF Spec, WorkRunsOut

=============================================================================
