# Verification of the trading engine core

TLA+ models of `src/src/MatchingEngine.cpp` and the classes it is built from,
the TLC configurations that check them, and TLAPS proofs about them. Paths of
the program are given as in the repository (`src/...`).

## 1. The system

A single-threaded limit order book for one instrument. A client calls ten
functions of `MatchingEngine`; each runs to completion. Nothing is persisted,
and nothing runs concurrently. What is hard here is *sequence*: a call works through nested
loops that change four trees, three hash maps, linked lists and cached edges in
a fixed order of statements, and one trade may trigger a cascade of others.

| Component | State | Operations |
|---|---|---|
| `MatchingEngine` (order types) | `orderMap`, `limitBuyMap`, `limitSellMap`, `stopMap` | submit (market, limit, stop, stop-limit), cancel and modify (limit, stop, stop-limit) |
| `MatchingEngine` (matching) | locals of the running call | `marketOrderHelper`, `limitOrderAsMarketOrder`, `existingOrderAsMarketOrder`, `executeStopOrders`, `stopLimitOrderToLimitOrder` |
| Price level trees | four roots; `left`, `right`, `parent`, `height` of each `PriceLevel`; `topBid`, `bestAsk`, `lowestStopBuy`, `highestStopSell` | `addLimit`/`addStop`, `deleteLimit`/`deleteStopLevel`, balance, four rotations, root and edge updates |
| Ticket queue of a level | `headOrder`, `tailOrder`, `size`, `totalVolume`; `nextOrder`, `prevOrder`, `parentLevel`, `shares` of each ticket | `append`, `cancel`, `execute`, `modifyOrder`, `partiallyFillOrder` |
| `MemoryArena` | blocks, free list | `alloc`, `free` |
| `OrderGenerator`, `main` | ticket counter, random generator | a random client, for the benchmark |
| Printing and traversals | none | read-only |

How they interact: a client calls the engine. The engine finds a ticket in `orderMap`,
its level through `parentLevel`, and the level of a price in one of the three
price maps. It changes the queue of the level, and it removes the level from its
tree and map when the queue has become empty. The matching loops always work at
the cached edge (`bestAsk` for buyers, `topBid` for sellers), which each tree operation keeps up to date.
After a market order, a limit order that is used up, or an immediately triggered stop, `executeStopOrders` turns the
stops that are reached into market or limit orders. Those match in turn, which
may move the edge to further stops. Levels and tickets live in arenas that
hand a freed cell out again at the next allocation.

What makes each component correct:

* *Order types*: each ticket known to `orderMap` is in one queue, that of its
  `parentLevel`, and nowhere else. No level is empty. `totalVolume` is the sum
  of the shares in the queue.
* *Matching*: strict price-time priority. A limit taker never trades beyond its
  limit. No share is lost or traded twice. Bids and asks do not overlap. Each
  call returns.
* *Stops*: a stop waits in the book of its side and goes when it is reached.
* *Trees*: linked both ways, sorted, balanced, complete; the edge is the best price.
* *Queue and arena*: the list is the sequence of arrivals, a freed cell is
  referred to by nobody, and no cell is lost or handed out twice.
* *OrderGenerator*: its passive orders rest, its stops wait, its ids are free, and it comes to an end.

The points of the code where these could fail and a test would hardly show it
are listed, with their lines, under "hazards" in `PROJECT.json`.
`src/tests/test_engine.cpp` exercises single calls on one or two tickets. It
never removes a level from a tree of more than one, never triggers a waiting
stop and never modifies a ticket.

## 2. The modules

| Module | Subject | Lines of the program |
|---|---|---|
| `MatchingEngine` | order types, matching loops, stop cascade | `MatchingEngine.cpp` 12-303, 883-1167, `PriceLevel.cpp`, `TradeTicket.cpp` |
| `PriceTimePriority` | abstract: one line of orders, first by price then by arrival | `src/README.md:74` |
| `EnginePriority` | the engine with arrivals as history, refining it | |
| `TriggeredCancel` | the engine with a client that cancels or modifies a triggered stop-limit as a stop-limit | `MatchingEngine.cpp` 246-287 |
| `SortedLevels` | abstract: a set of prices that knows its best | `src/README.md:61` |
| `PriceLevelTree` | one AVL tree, pointer by pointer, refining it | `MatchingEngine.cpp` 289-292, 504-880, 1169-1339 |
| `MemoryArena` | the free list of cells, as functions of an arena | `MemoryArena.hpp` |
| `TicketQueues` | abstract: a line of tickets for each price level | |
| `TicketStore` | tickets and levels in cells of two arenas, linked to lists, found through `orderMap`; refines it | `TradeTicket.cpp`, `PriceLevel.cpp`, `MatchingEngine.cpp` 97-155, 882-899, 1016-1021, 1116-1166 |
| `OrderGenerator` | the client of the benchmark, composed with `MatchingEngine` | `OrderGenerator.cpp`, `main.cpp`, `MatchingEngine.cpp` 454-502 |
| `MatchingEngine_proofs` | theorems on types, queues and crossing, on volumes, on the shares of the running order, and on the work it has left | |
| `EnginePriority_proofs` | theorem that the engine refines `PriceTimePriority` | |
| `OrderGenerator_proofs` | theorems on the benchmark's client | |
| `TicketStore_proofs`, `TicketStore_list_proofs` | theorems on pointers and `orderMap`; on lists and cells | |
| `PriceLevelTree_insert_proofs` | lemmas on search trees, rotations, heights and `addLimit` | |
| `PriceLevelTree_proofs` | lemmas on `deleteLimit`, the edge and the traversal; the theorems on the tree | |
| `SumsAndSequences` | lemmas those modules share: sums over finite sets, `Append`, `RemoveAt`, injective sequences | |
| `MC*` | instances for TLC | |

### MatchingEngine

`levels` stands for the three price maps together: `<<"buy", p>>`,
`<<"sell", p>>` and `<<"stop", p>>` are the keys of `limitBuyMap`,
`limitSellMap` and `stopMap`. The stop key has no side, as in the code. A level
has its side, its queue as a sequence of ids, and `totalVolume`. `orderMap`
maps an id to the ticket's side, shares, limit and `parentLevel`.

The best price of a book is computed (`IsEdge`, `IsStopEdge`) where the code
reads a cached pointer. That the pointer *is* the best price is the
subject of `PriceLevelTree`, which also shows when it is not.

A call that can match is cut into the iterations of its loops. `pc` is the loop
that has control and `taker` holds the locals:

| `pc` | code | actions |
|---|---|---|
| `"idle"` | between calls | the ten public calls |
| `"sweep"` | `marketOrderHelper` | `FillHead`, `PartiallyFillHead`, `EndSweep` |
| `"limit"` | `limitOrderAsMarketOrder` and the rest of `submitLimitTicket` | `limitOrderAsMarketOrder`, `LimitLoopEnds` |
| `"convert"` | `existingOrderAsMarketOrder` in `stopLimitOrderToLimitOrder` | `existingOrderAsMarketOrder`, `ConvertLoopEnds` |
| `"stops"` | `executeStopOrders` | `TriggerStop`, `TriggerStopLimit`, `StopsDone` |

`taker.sweep` is the `quantity` of `marketOrderHelper`, `taker.rest` the
quantity its caller still has, `taker.then` the loop that called it. `size` and
`executed` are history variables for `TakerAccounted`. Calls that cannot match
(cancel, modify, a stop that waits) are one step. The interruption points are
finer than any a client can see, so invariants hold *inside* calls too, where
the code dereferences what they talk about.

What is left out: `executedTicketsCount` and `AVLTreeBalanceCount` (statistics),
printing, the ticket's own id (it is the key), `size` and the list pointers of
a queue (a sequence of ids has both). Calls for an id that is not known change
nothing, and so have no step. Submissions take an id that is not in use, and cancel and modify calls are made on tickets of their
kind. The engine checks neither; all clients in the repository do so, and `Fresh`, `IsLimit`, `IsStop` and `IsStopLimit`
stand for their code (`TicketStore` has ids in use); the exception, which a client cannot avoid, is `TriggeredCancel`.

### PriceLevelTree

`heap` has the levels with their four fields, the root and the edge, and
`highestFirst` tells which end the edge is. The code has each function twice, for limit and
for stop trees, which differ only in the direction of the edge, so one module
stands for both. `addLimit` and `deleteLimit` are one step each and follow the statements of
the code: the recursion of `insert` on the way down and its rebalancing on the
way up, the edge update *before* the removal, the cases of the removal, and the
climb from the parent of the removed level. Recursions are recursive functions:
`insert` recurses over the live levels, and the climb and the two traversals have a
counter up to `MaxPrice`, which the code has not. `TreeIsWellLinked` shows that the counter cuts no
traversal short, for a path down a search tree cannot be longer than the range of prices, and the
same argument shows that the climb is over before its counter is.

The prices are added and removed in any order: a level comes with a first
ticket and goes with its last one, and tickets are cancelled at any price.

### TicketStore

`mem` is the memory: `orderPool` and `limitPool` (arenas of `MemoryArena`), `ticket` and
`level` (what is in their cells), `orderMap`, and `levelMap` for the three
maps of levels. Pointers are numbers of cells, and 0 is `nullptr`. `append`, `execute`, `cancel`,
`modifyOrder`, `setShares` and `partiallyFillOrder` are the methods, statement by
statement; among others, `append` leaves the links of the first ticket of a
level as they are, and `cancel` leaves those of the cancelled ticket. The actions
are the pieces of `MatchingEngine.cpp` that put them together:

| Action | Code |
|---|---|
| `submit` | the end of the three submit functions |
| `cancelTicket`, `modifyTicket` | the three cancel and the three modify functions |
| `executeHead` | a round of `marketOrderHelper`, or of `executeStopOrders` for a stop ticket |
| `partiallyFillHead` | the end of `marketOrderHelper` |
| `TriggerStopLimit`, then `ConvertedIsFilled` or `ConvertedRests` | `stopLimitOrderToLimitOrder`, with rounds of `marketOrderHelper` in between |

*Which* of them comes next is decided by prices, and that is the subject of
`MatchingEngine`. Here any order is allowed that the calls allow, which includes all
orders the engine takes. Two things are wider than in
`MatchingEngine`: an id may be submitted while it is in use, and `totalVolume` is an
`int` of the width `IntMax` gives. A freed cell has nothing in it, so an
operation that looked into one would stop the run with an error. The tree pointers of a level
are left to `PriceLevelTree`; the two modules together have all fields of `PriceLevel`.

`SameMap` keeps the client to calls of the ticket's own kind (`TriggeredCancel` shows what the others do).

The wrapping of `totalVolume` is what the usual hardware does; overflow of an `int` is
undefined in C++. `VolumeUpToWidth` is about the differences kept in it, and says
nothing of the decisions taken while it is negative.

### OrderGenerator

`createInitialOrders` and `createOrders` are cut into the calls of the engine that
they make. A draw is a choice, so a property holds whatever is drawn; a loop
that draws until a price is accepted takes an accepted one. Two things in
the program are only seen when the two classes are put together:

* `getRandomOrder` (`MatchingEngine.cpp:456`) draws from `limitOrders`, `stopOrders` and
  `stopLimitOrders`, and the lines that would fill them (107, 176, 1139) are commented
  out. It returns `nullptr` whenever it is called. So the benchmark's cancels and
  modifications, 95 % of its draws, all add an order instead. That is why the module has no action that cancels or modifies.
* `getBestAsk()` and `getTopBid()` are followed without a test for null. `nullEdge` is
  that step, and it ends the run of the program.

The disagreement `stop_books_by_side` of section 5 is met by this client as well: it draws
buy stops above `bestAsk` and sell stops below `topBid`, and a price is one and later the other.

## 3. What the runs check

All are exhaustive over their instance.

| Run | Instance | Shows |
|---|---|---|
| `engine_safety` | 3 ids, prices 1..2, quantities 1..2, ids symmetric | `TypeOK`, `EveryTicketQueuedOnce`, `VolumeIsSum`, `TakerAccounted`, `LimitIsRespected`, `OnlyEmptyBookForgets`, `OnlyModifyCrosses`, `WorkRunsOut` (385,765 states) |
| `engine_liveness` | 3 ids, prices 1..2, quantities 1..2, no symmetry, `SubmitModifySpec` (925,519 states) | `EveryCallReturns` |
| `engine_priority` | 3 ids, prices 1..2, quantities 1..2, ids symmetric | the engine implements `PriceTimePriority` |
| `tree_spliced` | prices 1..12 | without the two removals of section 5 that break it, the tree stays an AVL tree and implements `SortedLevels` |
| `tree_whole` | prices 1..9 | all removals but that of a root with children: well linked, complete, typed, and no pointer, the edge included, leads to a level that is gone |
| `ticket_store` | 3 tickets at a time, 2 ids, 2 limit levels and 1 stop level, quantities 1..2, `IntMax` 3, blocks of 2 cells; ids and limit levels symmetric (66,332 states) | `TypeOK`, `CellsAreAccounted`, `FoundTicketsAreLive`, `ListsAreLinked`, `VolumeUpToWidth`, and that the lists implement `TicketQueues` |
| `order_generator` | prices 1..3, quantities 1..2, 2 initial limit orders, 1 initial stop, 3 draws (235,757 states) | `GeneratedLimitsRest`, `GeneratedStopsWait`, `NextIdIsFree`, `BookNeverCrosses`, `BenchmarkEnds` |
| `stop_books_by_side`, `trades_trigger_stops`, `triggered_cancel`, `tree_root_removal`, `tree_edge` | | the disagreements of section 5 |

Bounds, and why they are enough:

* *Ids* bound the tickets alive at the same time, not their number over time:
  a filled or cancelled id is free again. Three tickets are a queue with a
  head, a middle and a tail; a maker with two waiting stops; or two makers and one
  stop, so that a cascade has two rounds and a converted order meets resting ones. The
  incoming order needs no id of its own until it rests, or has the fourth place
  if it is a market order. `trades_trigger_stops` takes a fourth id, for its scenario.
* *MaxPrice = 2* gives a better and a worse level on each side, prices at, above and
  below a limit, overlapping books after `modifyLimitTicket`, and stop levels at
  both. `engine_safety` also passes with `MaxPrice = 3` (2.4 million states, under three minutes).
* *Quantities 1..2*: partial fills of a head, levels that cover a taker
  exactly, more than enough, and not; the sums in a level reach 6.
  In `engine_liveness` a taker of 2 meets a level of 1, so `limitOrderAsMarketOrder` and
  `existingOrderAsMarketOrder` come back after a first level and sweep a second one, and a sweep fills
  one head and a part of the next.
* *Submissions and `modifyLimitTicket`* in `engine_liveness`: symmetry is unsound for liveness, and without
  it the full client has 2.3 million states, which takes too long with a temporal property. What a call goes through depends on the books
  it starts from. Submissions fill them, `modifyLimitTicket` crosses them, and trades, like cancels, empty them.
  `WorkRunsOut` has the full client, in `engine_safety` and as a theorem.
* *Twelve prices* in `tree_spliced`: the climb of a removal rotates at two
  levels only if the subtree it leaves has height 3 before and its sibling height 4,
  which takes an AVL tree of at least 4 + 1 + 7 levels.
* *Nine prices* in `tree_whole`, where trees also get out of balance: seven are needed for the
  first wrong edge (`tree_edge`), and two more let the operations that follow go on from
  stale heights. (Ten prices pass as well, with 208,406 states.)
* *Three tickets and two ids* in `ticket_store`: a list with a head, a middle and a tail; two
  tickets of one id alive with a third between them; both arenas grow after the
  first block and use freed cells in another order than they were handed out.
  Three tickets of 2 shares make 6, beyond an `IntMax` of 3. There are three
  levels, two of which a ticket can move between, and one that triggers.
* *Six orders* in `order_generator`: bids and asks that survive the first call, a
  stop that waits, and three draws, so that an order can empty a side, trigger
  the stop, and be followed by one priced by the edges that result.
  Ids 1 to 3 are followed by the counter's 4, as 11000 is by 11001. A limit is 1 beyond its stop.
* `tree_whole` asks more of its traversal than a set: `inOrderTreeTraversal` comes to all levels in rising
  order, which is what `displayEngineState` tests when it throws.
* Deadlock is checked in all runs but `order_generator`: an engine in a loop can always go on, and
  an idle one accepts a market order. The benchmark has an end, and it may crash before.

`TakerAccounted` and `OnlyEmptyBookForgets` belong together. The first follows an order through its call: size =
executed + being swept + left. The second looks at the moment at which a sweep hands back control and what it has not executed is
dropped: either nothing is left, or it is a market order (a triggered stop included) and the opposite book is empty.
For a limit order the comparison with `totalVolume` before the sweep has to have been right.

### Fairness

`Spec` has one fairness conjunct, `WF_vars(Engine)`. There is one thread, and
a call that has begun is executed until it returns, so the next iteration of
its loop is taken when there is one. No fairness is assumed of clients, who may stop calling
at any time. `EveryCallReturns` therefore says that the loops end, not that anyone calls again.

`WorkRunsOut` says why, without fairness, and for the full client. `Work` is a natural number that falls with every step of a
running call. A waiting stop of `q` shares weighs `2q + 3`: it can trigger, take level after
level, and rest as a limit ticket, which weighs 1. The taker's remainder counts twice, because a level it takes
as a whole gives it a sweep and a way back into the loop. A level whose `totalVolume` has got out of
step and is 0, or a converted ticket that went back to the stops, would leave `Work` where it was.
A running engine can take a step (the runs check deadlock), so with `WF_vars(Engine)` it returns.

`GeneratorSpec` has weak fairness of its whole next-state relation: `main` and the
engine are one thread, and it does not stop between two calls. `BenchmarkEnds` takes for
granted that a price loop finds a price it accepts, as it does with probability 1
when there is one, and then says that no call hangs. It does not say that the benchmark gets through without a crash.

## 4. What is proved

Every theorem holds for all values of the constants that satisfy the assumptions named with it.

| Theorem | Module | States |
|---|---|---|
| `TypesAreKept`, `TicketsAreQueuedOnce` | `MatchingEngine_proofs` | `Spec => []TypeOK`, `Spec => []EveryTicketQueuedOnce` |
| `BooksCrossOnlyByModify` | `MatchingEngine_proofs` | `Spec => OnlyModifyCrosses` |
| `VolumesAreSums` | `MatchingEngine_proofs` | `Spec => []VolumeIsSum` |
| `TakersAreAccounted` | `MatchingEngine_proofs` | `Spec => []TakerAccounted` |
| `LimitsAreRespected`, `NothingElseIsForgotten` | `MatchingEngine_proofs` | `Spec => LimitIsRespected`, `Spec => OnlyEmptyBookForgets` |
| `CallsRunOut` | `MatchingEngine_proofs` | `Spec => WorkRunsOut` |
| `FillsByPriority` | `EnginePriority_proofs` | `HistorySpec => PriceTimePriority`: the engine implements the price-time line |
| `HistoryBlocksNoStep` | `EnginePriority_proofs` | the history variable can follow every step of `Next` |
| `GeneratedBookNeverCrosses`, `IdsAreFree` | `OrderGenerator_proofs` | `GeneratorSpec => []BookNeverCrosses`, `GeneratorSpec => []NextIdIsFree` |
| `LimitsOfGeneratorRest`, `StopsOfGeneratorWait` | `OrderGenerator_proofs` | `GeneratorSpec => []GeneratedLimitsRest`, `GeneratorSpec => []GeneratedStopsWait` |
| `PointersLeadToObjects`, `MapFindsLiveTickets` | `TicketStore_proofs` | `Spec => []TypeOK`, `Spec => []FoundTicketsAreLive` |
| `ListsReadBothWays`, `NoCellIsLost` | `TicketStore_list_proofs` | `Spec => []ListsAreLinked`, `Spec => []CellsAreAccounted` |
| `VolumesWrap` | `TicketStore_list_proofs` | `Spec => []VolumeUpToWidth` |
| `ListsImplementQueues` | `TicketStore_list_proofs` | `Spec => ImplementsTicketQueues`: the pointers implement `TicketQueues` |

| `TreeIsTyped`, `TreeIsWellLinked` | `PriceLevelTree_proofs` | `WholeSpec => []TypeOK`, `WholeSpec => []WellLinked` |
| `TreeDoesNotDangle` | `PriceLevelTree_proofs` | `WholeSpec => []NoDanglingPointer` |
| `TreeIsBalanced` | `PriceLevelTree_proofs` | `SplicedSpec => []Balanced` |
| `TreeImplementsSortedLevels` | `PriceLevelTree_proofs` | `SplicedSpec => ImplementsSortedLevels`: the tree with its cached edge implements `SortedLevels` |

So every safety property of every passing run, and every refinement, is proved.

### The engine

**Assumptions.** Those of the module (`MaxPrice` is a natural number, 0 is no
id, quantities are natural numbers) and `PositiveQuantities == 0 \notin Quantities`,
which is a hypothesis of each theorem and not an assumption of the model. It is needed: a
stop-limit ticket that is modified to 0 shares and then triggered with no
acceptable opposite edge is neither appended nor unmapped, and
`EveryTicketQueuedOnce` fails (TLC finds it as soon as 0 is among the quantities; it is listed among the hazards at
`MatchingEngine.cpp:1128`).

**Types and queues.** The inductive invariant is

    IInv == TypeOK /\ EveryTicketQueuedOnce /\ TakerFitsBooks /\ NoEmptyTicket

`TypeOK` and `EveryTicketQueuedOnce` are not inductive alone. `TakerFitsBooks` adds
what a call has established about its locals while it is in a loop, a sweep
on behalf of that loop included. A submitted limit order has a price and an
id that is still free, so that resting cannot overwrite a ticket. A ticket that is
being converted is still mapped (it is in no queue, so no sweep can take it), has a
price, and has shares left. `NoEmptyTicket` (no mapped ticket has 0 shares) is what makes the
rest of a conversion positive, so that the ticket is appended again. There is one lemma per
action, and under it one step per conjunct that the action can disturb. Lemmas about `Enqueue` and
`Unlink` say once what they do to the domain, to the queues and to membership.

**OnlyModifyCrosses** needs more than an invariant: a limit order rests only
after its loop has found no acceptable edge. From "no *edge* is acceptable" follows "no *level* of the
opposite book is acceptable" because a nonempty set of prices has a least (and a greatest) element, which is the
edge; that is a lemma from the well-foundedness of the naturals. All other steps only take prices out of a book.

**Volumes.** `VolumeIsSum` is a sum along a queue. By `EveryTicketQueuedOnce` the tickets in the queue of a
level are the mapped tickets with that `parentLevel`, each once, so it is also the sum over that *set* of tickets
(`Members`), in which the order of the queue does not occur. `Counted`, the invariant that is proved, is stated
over the set. For sets a step is one element more or less (`SumWithout`) or leaves the
values alone (`SumOfEqualValues`), and with `SumOfNaturals`, that no share exceeds the sum, these lemmas of `SumsAndSequences` are all it takes. They rest
on `FoldIsSum`: the fold of the community modules is a `CHOOSE` of a recursive function, and one exists for every finite set.
The induction behind it is over a *set* of naturals that contains 0 and successors (`NaturalInduction`), because a lemma with
an operator as parameter could not be used. That the sum does not depend on the order in which `CHOOSE` picks elements is `SumInAnyOrder`.

**The taker.** `TInv == SweepFitsEdge /\ TakerAccounted`. `SweepFitsEdge` says why a sweep for a limit
order stays at the edge that the loop has looked at, though the sweep knows no limit: it is never for more
than `totalVolume` of that level, and when the loop is to come back after it, it is for exactly all of it. Since the volume is the
sum of what is left in the queue, the last head cannot be filled before the sweep is at 0, and a level
that has gone leaves nothing to be swept. The two action properties follow from it.

**Work.** `CallsRunOut` takes the invariants above and one more, that `orderMap` is finite (`FinitelyMany`). There is one lemma
per action (`FillHeadWorks` and so on). `Counted` is needed where a loop takes a whole level:
the level's volume is at least the shares of its head, and those are not 0 (`HeadWithinVolume`), so the remainder does fall.
`TakerFitsBooks` is needed where a converted ticket comes to rest: it has shares left, and twice those
pay for the limit ticket. Weights are summed over tickets with the lemmas of `SumsAndSequences`, as volumes are.

**Priority.** The engine does not record when an order came, so `EnginePriority` adds the history variable
`arrivals`, and the theorem compares the queues with it. The invariant is

    HistoryInv == BooksInLine /\ Counted /\ TInv
    BooksInLine == IInv /\ ConvertedIsStop /\ LinedUp(arrivals, Resting) /\ InLine(levels, arrivals)

`LinedUp` says that `arrivals` holds each resting order once, `InLine` that every queue of a limit book lists
its tickets in that order. `ConvertedIsStop` says that the ticket being converted, which is in `orderMap` but in
no queue, is not yet counted among the resting orders: with it, unmapping the ticket when its last round begins changes
no order, and appending it when the loop ends is an arrival. Each action is one of five kinds (`Quiet`, `Comes`, `Goes`, `Alters`, `Lessened`),
with a lemma per action; one lemma per kind maps it to a step of `PriceTimePriority` and keeps the line.
`HeadIsFirst` is the point of it: the head of the edge level is first of its side, by price because no level is
better than the edge, and by arrival because the others at that price are behind it in the same queue and so in the line.
`TInv` is needed for a partial fill, which must take some shares.

`LineUp` is a conjunct of `HistoryNext` and could have blocked the engine. `HistoryBlocksNoStep` shows that it does not.

### The generator

**Assumptions.** `PositiveQuantities`; those of `OrderGenerator`: the numbers of orders and the first id of the counter are
naturals, and the initial ids end below that first id (`InitialIdsEndBeforeFirst`; the source has 11001 for up to 10000 initial orders).

Every step of `GeneratorSpec` is a submission, a step of the engine, or a step that leaves the engine alone. So `IInv`
is kept by the lemmas of the engine, the lemmas of `OnlyModifyCrosses` give `BookNeverCrosses`, and what is added is

    GInv == IdsInUse /\ LimitInHand /\ StopInHand /\ CentreDivides

`IdsInUse` bounds the mapped ids by the two counters. `LimitInHand` says that the limit order which has passed the price loops finds
no acceptable edge while its call runs, so the loop of the engine ends at once; `StopInHand` that a stop is idle as soon as it
is submitted. For the initial orders, which pass no price loop, `CentreDivides` does the same:
before the first draw all bids are below the centre and all asks are not.

### The ticket store

**Assumptions.** Those of the modules: quantities are between 1 and `IntMax`, `IntMax` and `MaxTickets` are naturals, a block has at least one cell.
Ids may be submitted while in use.

**The inductive invariant** says that the memory *represents* some lists:

    SInv == /\ \E q : Store(mem, q, Out)
            /\ Full(mem, {})
            /\ converting # Null => converting \in Tickets /\ Unlinked(mem, converting)

`q` gives each live level a sequence of tickets. `Store` says that `headOrder`, `tailOrder`, `nextOrder`, `prevOrder`, `size` and `parentLevel`
are those of `q`, that every live ticket but the converting one (`Out`) is in exactly one of the sequences, that `totalVolume` is the sum of the shares in it, in an `int`, that the maps of levels
and the live levels correspond, that `orderMap` finds live tickets of its ids, and that the arenas account for the live objects. `Full` says that no level is
empty. The list is not part of the state of the program: it is what its pointers mean, and each method of
`TradeTicket` and `PriceLevel` has a lemma that gives the lists after it (`Append` for `append`, `RemoveAt` for `cancel` and `execute`). Within
a call the invariant does not hold at every statement (an unlinked ticket that is to be appended again, an emptied level before it
is deleted); the two parameters, who is out and which level may be empty, follow it from method to method.

`ListsAreLinked` and `CellsAreAccounted` are stated with `Forward` and `Backward`, walks along the pointers with at most `MaxTickets` steps. `WalkExists`
shows that the recursive function that walks exists, `WalkFollowsList` that it comes along `q`, and `Bounded`, an
invariant of its own, that no list is longer than the walk.

**Volumes in an int.** `Summed`, the conjunct of `Store` about `totalVolume`, is again a sum over the *set* of tickets of a level. That each
addition and subtraction wraps for itself does not matter, because `Wrap(Wrap(a) + b) = Wrap(a + b)` (`WrapsOnce`), which is
arithmetic modulo `2 * (IntMax + 1)` (`SameRemainder`).

**The refinement.** `LinesOf(m, q)` writes the lists `q` of a memory as the `line` of `TicketQueues`. Next to the invariant the lemmas about the methods
state what they do to it: `Longer` for `append`, `Shorter` for an unlinked ticket, `Given` for a partial fill, and
nothing for a level that is made or deleted, a modified ticket that is in no list, and the arenas. `StoreStep` is the sum of them: each step goes from the lines of
some lists to those of some lists by `Join`, `Move`, `Leave`, `GiveAway` or not at all. `LinesAreRead` says that the lines of *any* lists which the
memory represents are `Lines`, the walk along `nextOrder` that the refinement mapping is made of, so that the steps of
the two states fit together.

TLC does not evaluate `SInv`, which quantifies over all functions; its consequences are what the run `ticket_store` checks.

### The trees

**Assumptions.** That of the module: `MaxPrice` is a natural number. Which removals may be made is part of the
specification and not a hypothesis: `WholeSpec` makes all but that of a root with children, `SplicedSpec` none of a
level with two children either. Section 5 shows what happens after the others.

**Spans.** A search for a price comes to a level from above with an interval of prices that are still possible,
and that interval is what all of the proof is about. `Tree(h, L, sp)` says that the heap `h` is a search tree of the levels `L`
and that `sp` gives each level its span: the root has everything between 0 and `MaxPrice + 1`, a child has the part of its parent's span on its side, a side without a child
has no live price in its part, and each level lies in its own span. Then

* a price that is not in the tree has *one* place (`SlotIsUnique`), so that what is said of a few pointers is said of the whole tree;
* two spans are nested or apart, so what a rotation does inside one changes no other;
* a span gets narrower with each step down, so that the recursion of `insert`, the climb and the
  traversals are inductions over a *width*, a natural number. No induction over trees is needed.

The inductive invariants are

    LinkInv == /\ \E sp : Tree(heap, Levels, sp)
               /\ heap.edge \in Levels \cup {Null}
               /\ highestFirst \in BOOLEAN

    BalanceInv == LinkInv /\ AllStand(heap, Levels) /\ IsBest(Levels, heap.edge)

`WellLinked` would be hard to carry through a step as it stands. It says by a traversal of the whole tree that every level is
found, and a step rewires a few levels deep in the tree; the spans say level by level what that does. It also says nothing of the edge, which the next
operation reads: `LinkInv` has it that the edge is a live level or null. The spans are not part of the
state of the program; TLC checks their consequences (`tree_whole`, `tree_spliced`).

**Whatever the heights say.** `LinkInv` is kept by rotations of any shape of tree (`RotatesTo`), as long as the level that is to come up exists.
That it does follows from the comparison that chose the rotation: a subtree counts as too high only if it is
there, because a stored height is positive and a missing child counts 0. So the removals of levels with two children, after which heights are
stale, do not harm the links; this is why `WholeSpec` needs no balance.

**Balance.** `AllStand` says that every stored height is right and no two subtrees differ by more than one. Within an operation one level at most is off: `Even` says
that all levels stand but the one at hand, which would stand if one of its subtrees were one higher or lower. `SettleRebuilds` and `SettleKeepsEven` say that `updateLimitHeight` and
`balance` at a level keep the tree and leave at most the level above as the exception, for `insert`, which goes up its recursion, and for the climb of
`deleteLimit`, which follows `parent`. The climb ends at the root before its counter does.

**The edge.** `updateBookEdgeRemove` runs *before* the removal, and looks one pointer far: to the inner child of the edge if there is
one, and to its parent otherwise. The parent is always the next in the order. The inner child is so only if it is
a leaf, and it is one because the edge level has no outer child and *stands*, so that its inner subtree has height 1. The edge is therefore
right only as long as the tree is balanced. `tree_edge` is the case in which this argument fails.

**The refinement.** `Reached`, the set that the refinement mapping puts in place of the levels of `SortedLevels`, is a recursion along the pointers;
`LinksAreReached` says that it is `Levels` whenever `LinkInv` holds. With that a step is one price more or less, and `IsBest` is `Best`.

### Only model-checked

* `EveryCallReturns` and `BenchmarkEnds`: liveness under fairness, which the prover does not do. Of the argument for the
  first, the falling measure is proved (`CallsRunOut`); that a running engine always has a step is checked as the absence of deadlock.
* The five runs of section 5: a counterexample is a matter for TLC.

## 5. Where the code and its documents disagree

Each is a run whose property states what a document says, and which TLC finds violated.

1. `stop_books_by_side`: `src/README.md:71-72` has one tree of buy stops and one of
   sell stops. `stopMap` has one level per price: a sell stop at the price of a waiting buy
   stop is appended to that level and later executed as a *buy*.
2. `trades_trigger_stops`: `src/README.md:84`, a stop converts "when a trigger price is
   crossed". `submitLimitTicket` calls `executeStopOrders` only when the order is used up. One that
   empties a level and then rests leaves the stops it has reached waiting.
3. `triggered_cancel`: `src/README.md:87`, all order types can be cancelled. The
   client of a stop-limit order is not told of its trigger. Its `cancelStopLimitTicket` or `modifyStopLimitTicket` then
   frees the emptied limit level but leaves it in the limit map, the tree and perhaps the edge.
4. `tree_root_removal`: `PriceLevel.cpp:15` and the comment at
   `MatchingEngine.cpp:783` say `changeBookRoots` handles the removal of the root. It
   moves the root pointer only. The children of the freed level still point to it.
5. `tree_edge`: `src/README.md:61`, self-balancing, with the edges always at the leftmost and
   rightmost nodes. After the removal of a level with two children the climb starts
   too high up and heights go stale. The tree gets out of balance, and then the
   removal of the best level moves the edge past the next best. Seven prices are needed.

After 3 and 4 a pointer to a freed level exists, and what the program does next
is undefined. The models stop there: no operation starts from such a state.
That is also why the engine is modelled over sets of prices: what it promises is stated relative to trees that
work, and what the trees do is shown separately.

## 6. What is not modelled

* *Engine, trees and memory in one state.* They are checked each by itself: the engine over
  sets of prices and sequences, which `PriceLevelTree` and `TicketStore` are shown to
  implement. The disagreements 3, 4 and 5 show where the trees do not, and the
  models stop there: what a freed level that is used again does to another book is not followed.
* *Probabilities*: the generator's draws are choices.
* *Output*: `printLimit`, `printOrder`, `printBookEdges`, `displayEngineState`, and the
  pre-order and post-order traversals. They change nothing.
* *Destructors*: the end of the program. `main.cpp`'s timing and the unit tests.
* *Integer width* other than that of `totalVolume`.
* *Price 0 and 0 shares*: excluded from the runs, with the reasons under "hazards".
* *Calls for a ticket of another kind*, but for those of `TriggeredCancel`: no
  client in the repository makes them.

## 7. Plan

Done: `MatchingEngine`, `PriceTimePriority`, `EnginePriority`,
`TriggeredCancel`, `SortedLevels`, `PriceLevelTree`, `MemoryArena`, `TicketQueues`, `TicketStore`,
`OrderGenerator`, and the theorems of section 4.

Next, modelling:

1. `EngineOnTrees`: the calls of `MatchingEngine` with `PriceLevelTree` as the index of the
   books and the cached edges in place of `IsEdge`, with cells that are used
   again; to show which client behaviour keeps clear of the two broken removals.
2. Runs with 0 shares and limit price 0.

Next, proofs: the refinements compose only on paper so far. A theorem that `EngineOnTrees` implements `MatchingEngine`
would rest on `TreeImplementsSortedLevels` and `ListsImplementQueues`.

## 8. Running it

    tlc -workers 2 -config EngineSafety.cfg MCMatchingEngine
    tlapm MatchingEngine_proofs.tla

`tlapm` is run on each of the eight modules with lemmas: `SumsAndSequences` and the seven `*_proofs`.
The module and configuration of each run are in `PROJECT.json`. `mutants`
there names for each checked property a slip (an operator next to the one it stands in for, commented
"a slip") under which TLC finds the property violated.
