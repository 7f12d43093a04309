---------------------------- MODULE MCTicketStore ---------------------------
(* A small instance of TicketStore.                                        *)
EXTENDS TicketStore, TLC

CONSTANTS t1, t2, bid, ask, stop

TwoIds == {t1, t2}
TwoLimits == {bid, ask}
OneStop == {stop}
TwoQuantities == 1..2

\* The keys of the limit books are only compared for equality, as are ids.
StoreSymmetry == Permutations(TwoIds) \cup Permutations(TwoLimits)

=============================================================================
