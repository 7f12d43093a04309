-------------------------- MODULE MCMatchingEngine --------------------------
(* Small instances of MatchingEngine.                                      *)
EXTENDS MatchingEngine

CONSTANTS t1, t2, t3, t4

TwoIds == {t1, t2}
ThreeIds == {t1, t2, t3}
FourIds == {t1, t2, t3, t4}
OneQuantity == {1}
TwoQuantities == 1..2

\* Ids are only compared for equality.
IdSymmetry == Permutations(Ids)

\* A client that never cancels or modifies.
SubmitSpec == Init /\ [][Submit \/ Engine]_vars /\ WF_vars(Engine)

\* A client that modifies limit tickets only.  Every loop still runs, over books
\* that modifyLimitTicket has crossed; a cancelled or moved stop is another way
\* to books of the same kind.
SubmitModifySpec ==
    Init /\ [][Submit \/ ModifyLimit \/ Engine]_vars /\ WF_vars(Engine)

=============================================================================
