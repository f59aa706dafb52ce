-------------------------- MODULE MCBankSemaphores --------------------------
(* Four deposits and two withdrawals of a limit of 8 stand for the seven   *)
(* and three of 400.  The arguments: negative, zero, with a remainder, the *)
(* largest with room for all (4), too large for it, and over the limit.    *)
EXTENDS BankSemaphores

MCAmounts == {-3, 0, 1, 3, 4, 5, 9}
=============================================================================
