----------------------------- MODULE LedgerRows -----------------------------
(***************************************************************************)
(* The rows of the wallet ledger (table wallet_transactions) and what each *)
(* of them says about the balance of its wallet.  A row is inserted by at  *)
(* most one call of WalletService, so a row is named by the request that   *)
(* inserted it and the ledger is a function from requests to rows.         *)
(***************************************************************************)
EXTENDS Integers, FiniteSets, Functions

CONSTANTS
  Requests,   \* the calls of WalletService the model may make, one use each
  Users,      \* the wallet owners
  Amounts,    \* the amounts of money callers pass, in naira
  None        \* no row, no request

CreditTypes == {"EARNING", "REVERSAL"}      \* REFERRAL_BONUS behaves as EARNING
SettledDebits == {"ERRAND_PAYMENT"}         \* SUBSCRIPTION behaves the same
OutboundDebits == {"WITHDRAWAL"}            \* BILL_PURCHASE behaves the same
DebitTypes == SettledDebits \cup OutboundDebits
RowTypes == CreditTypes \cup DebitTypes \cup {"DEPOSIT"}
Statuses == {"PENDING", "PROCESSING", "SUCCESS", "FAILED"}

\* "reverses" is metadata.reversedTransactionId.  The column balanceAfter is a
\* variable of Wallet: what a row says about the money does not depend on it.
Rows == [user : Users, type : RowTypes, amount : Amounts, status : Statuses,
         reverses : Requests \cup {None}]

ASSUME RowsAssumption ==
  /\ Amounts \subseteq Nat \ {0}
  /\ None \notin Requests \cup Rows

\* A row's share of its wallet's balance.  A debit that was reversed stays on
\* the ledger: its REVERSAL row gives the money back.
Effect(row) ==
  IF row.type \in DebitTypes THEN -row.amount
  ELSE IF row.type = "DEPOSIT" /\ row.status # "SUCCESS" THEN 0
  ELSE row.amount

RowsOf(ledger, u) == {r \in Requests : ledger[r] # None /\ ledger[r].user = u}

\* What the ledger says the balance of u's wallet is.
Statement(ledger, u) ==
  SumFunctionOnSet([r \in RowsOf(ledger, u) |-> Effect(ledger[r])], RowsOf(ledger, u))
=============================================================================
