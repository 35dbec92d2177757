---------------------------- MODULE MCWithdrawals ----------------------------
(* Withdrawals for TLC: one withdrawal, submitted twice, and two other addresses. *)
EXTENDS Withdrawals

CONSTANTS a1, a2, a3

OneAddress == [k \in Keys |-> a1]
=============================================================================
