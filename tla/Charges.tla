------------------------------ MODULE Charges -------------------------------
(***************************************************************************)
(* What a charge through Paystack promises, whatever carries it out: what  *)
(* was bought is given only for a charge the user has paid, and what adds  *)
(* to the wallet is given once.  A boost's perks are given one by one, and *)
(* again whenever Paystack announces the payment again.                    *)
(***************************************************************************)
EXTENDS Naturals

CONSTANTS
  Charge,     \* the charges a user may be asked for
  Once,       \* those that are given at most once
  Amount      \* for each, the number giving it adds to the wallet

VARIABLES
  opened,     \* the charges whose checkout the user was given
  paid,       \* those the user paid
  given,      \* how much of each was given
  funds       \* the wallet's balance

vars == <<opened, paid, given, funds>>

Init ==
  /\ opened = {} /\ paid = {}
  /\ given = [c \in Charge |-> 0]
  /\ funds = 0

Open(c) ==
  /\ opened' = opened \cup {c}
  /\ UNCHANGED <<paid, given, funds>>

Pay(c) ==
  /\ c \in opened
  /\ paid' = paid \cup {c}
  /\ UNCHANGED <<opened, given, funds>>

Give(c) ==
  /\ c \in paid
  /\ c \in Once => given[c] = 0
  /\ given' = [given EXCEPT ![c] = @ + 1]
  /\ funds' = funds + Amount[c]
  /\ UNCHANGED <<opened, paid>>

Next == \E c \in Charge : Open(c) \/ Pay(c) \/ Give(c)

Spec == Init /\ [][Next]_vars
=============================================================================
