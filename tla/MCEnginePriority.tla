-------------------------- MODULE MCEnginePriority --------------------------
(* A small instance of EnginePriority.                                     *)
EXTENDS EnginePriority

CONSTANTS t1, t2, t3

ThreeIds == {t1, t2, t3}
TwoQuantities == 1..2
IdSymmetry == Permutations(Ids)

=============================================================================
