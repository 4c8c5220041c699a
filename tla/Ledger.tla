------------------------------- MODULE Ledger -------------------------------
(***************************************************************************)
(* What the wallet promises its callers, without transactions, races or    *)
(* crashes: money moves in postings.  A posting changes one balance, by    *)
(* the amount of the row it inserts or settles and in the same step; no    *)
(* balance goes below zero; a deposit is settled once; an insert is never  *)
(* undone.                                                                 *)
(***************************************************************************)
EXTENDS LedgerRows

VARIABLES
  balance,    \* wallets.balance, per owner
  ledger      \* wallet_transactions: the row of each request, or None

Init ==
  /\ balance = [u \in Users |-> 0]
  /\ ledger = [r \in Requests |-> None]

\* Insert a row; the balance moves by what the row says.
Post(r) == \E row \in Rows :
  /\ ledger[r] = None
  /\ row.reverses = None
  /\ balance[row.user] + Effect(row) >= 0
  /\ balance' = [balance EXCEPT ![row.user] = @ + Effect(row)]
  /\ ledger' = [ledger EXCEPT ![r] = row]

\* Settle a pending deposit: the row is completed, no second one appears.
Settle(d) ==
  /\ ledger[d] # None
  /\ ledger[d].type = "DEPOSIT"
  /\ ledger[d].status = "PENDING"
  /\ balance' = [balance EXCEPT ![ledger[d].user] = @ + ledger[d].amount]
  /\ ledger' = [ledger EXCEPT ![d].status = "SUCCESS"]

\* Give a debit back: it becomes FAILED and a REVERSAL row carries the money.
Reverse(r, o) ==
  /\ ledger[r] = None
  /\ ledger[o] # None
  /\ ledger[o].type \in DebitTypes
  /\ balance' = [balance EXCEPT ![ledger[o].user] = @ + ledger[o].amount]
  /\ ledger' = [ledger EXCEPT
       ![o].status = "FAILED",
       ![r] = [user |-> ledger[o].user, type |-> "REVERSAL", amount |-> ledger[o].amount,
               status |-> "SUCCESS", reverses |-> o]]

\* Record how an outbound payment ended; no money moves.
Mark(o) == \E s \in {"SUCCESS", "PROCESSING", "PENDING"} :
  /\ ledger[o] # None
  /\ ledger[o].type \in OutboundDebits
  /\ ledger[o].status = "PENDING"
  /\ ledger' = [ledger EXCEPT ![o].status = s]
  /\ UNCHANGED balance

Next ==
  \/ \E r \in Requests : Post(r) \/ Settle(r) \/ Mark(r)
  \/ \E r, o \in Requests : Reverse(r, o)

Spec == Init /\ [][Next]_<<balance, ledger>>
=============================================================================
