-------------------------- MODULE MCTriggeredCancel -------------------------
(* A small instance of TriggeredCancel.                                    *)
EXTENDS TriggeredCancel

CONSTANTS t1, t2

TwoIds == {t1, t2}
OneQuantity == {1}

=============================================================================
