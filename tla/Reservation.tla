---------------------------- MODULE Reservation ----------------------------
(***************************************************************************)
(* What a payment out of the wallet promises, whoever carries it out: its  *)
(* money is set aside first and then leaves once, out or back, or stays    *)
(* set aside for a person to look at.  The funds grow by what is earned or *)
(* returned and by nothing else, so that money given back a second time,   *)
(* or after it was sent, is a step that no action below allows.            *)
(***************************************************************************)
EXTENDS Integers

CONSTANT Requests    \* the payments out of one wallet

VARIABLES
  funds,    \* what the owner can spend
  earned,   \* what was ever paid into the wallet from outside
  held,     \* the money each payment took out of the funds
  fate      \* "none", "held", "sent" or "returned"

Init ==
  /\ funds = 0 /\ earned = 0
  /\ held = [r \in Requests |-> 0]
  /\ fate = [r \in Requests |-> "none"]

Fund ==
  /\ earned' \in Nat /\ earned' > earned
  /\ funds' = funds + (earned' - earned)
  /\ UNCHANGED <<held, fate>>

Hold(r) ==
  /\ fate[r] = "none"
  /\ funds' \in Nat /\ funds' < funds
  /\ held' = [held EXCEPT ![r] = funds - funds']
  /\ fate' = [fate EXCEPT ![r] = "held"]
  /\ UNCHANGED earned

Leave(r) ==
  /\ fate[r] = "held"
  /\ fate' = [fate EXCEPT ![r] = "sent"]
  /\ UNCHANGED <<funds, earned, held>>

Return(r) ==
  /\ fate[r] = "held"
  /\ fate' = [fate EXCEPT ![r] = "returned"]
  /\ funds' = funds + held[r]
  /\ UNCHANGED <<earned, held>>

Next == Fund \/ \E r \in Requests : Hold(r) \/ Leave(r) \/ Return(r)

Spec == Init /\ [][Next]_<<funds, earned, held, fate>>
=============================================================================
