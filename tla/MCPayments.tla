----------------------------- MODULE MCPayments -----------------------------
(* Instances of Payments for TLC. *)
EXTENDS Payments

Amounts == [c \in Charge |-> IF c \in Deposits THEN 1 ELSE 0]
=============================================================================
