-------------------------- MODULE MCOrderGenerator --------------------------
(* A small instance of OrderGenerator.                                     *)
EXTENDS OrderGenerator

TwoQuantities == 1..2
OneDistance == {1}
IdsOfRun == 1..(FirstTicketId + NumberOfDraws)

=============================================================================
