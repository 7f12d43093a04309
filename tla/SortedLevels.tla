---------------------------- MODULE SortedLevels ----------------------------
(***************************************************************************)
(* What one tree of price levels is for: a set of prices that always knows *)
(* its best price, the highest bid, lowest ask, lowest buy stop or highest *)
(* sell stop.                                                              *)
(***************************************************************************)
EXTENDS Integers, FiniteSetsExt

CONSTANTS LevelPrices, NoPrice

VARIABLES prices, best, highestFirst

levelVars == <<prices, best, highestFirst>>

Best(S) == IF S = {} THEN NoPrice ELSE IF highestFirst THEN Max(S) ELSE Min(S)

LevelsInit ==
    /\ prices = {}
    /\ best = NoPrice
    /\ highestFirst \in BOOLEAN

Add(p) == p \notin prices /\ prices' = prices \cup {p}
Drop(p) == p \in prices /\ prices' = prices \ {p}

LevelsNext ==
    /\ \E p \in LevelPrices : Add(p) \/ Drop(p)
    /\ best' = Best(prices')
    /\ UNCHANGED highestFirst

LevelsSpec == LevelsInit /\ [][LevelsNext]_levelVars

=============================================================================
