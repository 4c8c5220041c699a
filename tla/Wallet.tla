------------------------------- MODULE Wallet -------------------------------
(***************************************************************************)
(* WalletService (src/wallet/wallet.service.ts) over its two tables.       *)
(*                                                                         *)
(* Every call is a request that runs once, one action per database round   *)
(* trip; requests interleave at every await.  A transaction is atomic from *)
(* its UPDATE of the wallet row to its COMMIT (the row lock), but not      *)
(* before: the wallet row it may have to insert first is held under the    *)
(* unique index on userId until the transaction ends, and other inserts    *)
(* of that row wait for it.                                                *)
(***************************************************************************)
EXTENDS LedgerRows

CONSTANTS
  MaxConfirms,  \* confirmDeposit calls for one reference in flight at once;
                \* the webhook and verify endpoints set no limit, 1 isolates
                \* what holds when they do not overlap
  Faults,       \* TRUE: a statement of the database may fail
  Crashes       \* TRUE: the server process may die and restart

ASSUME WalletAssumption == MaxConfirms \in Nat /\ Faults \in BOOLEAN /\ Crashes \in BOOLEAN

VARIABLES
  balance,       \* wallets.balance per owner; 0 for an owner without a wallet
  wallets,       \* the owners whose wallet row is committed
  inserting,     \* per owner, the open transaction holding the inserted row
  ledger,        \* committed ledger rows, by the request that inserted them
  balanceAfter,  \* their balanceAfter column
  pc,            \* the step each request is at
  call,          \* what each request was asked to do
  found          \* the balance in the wallet entity each request holds

vars == <<balance, wallets, inserting, ledger, balanceAfter, pc, call, found>>
book == <<balance, ledger, balanceAfter>>

Transactional == {"credit", "debit"}
Ops == Transactional \cup {"getBalance", "createPendingDeposit", "reverseTransaction",
                           "confirmDeposit", "markTransactionStatus"}
Calls == [op : Ops, user : Users, type : RowTypes, amount : Amounts \cup {0},
          target : Requests \cup {None}]
Steps == {"new", "insert", "reread", "update", "row", "reverse", "confirm",
          "mark", "done", "failed", "dead"}
InFlight == {r \in Requests : pc[r] \notin {"new", "done", "failed", "dead"}}

Init ==
  /\ balance = [u \in Users |-> 0]
  /\ wallets = {}
  /\ inserting = [u \in Users |-> None]
  /\ ledger = [r \in Requests |-> None]
  /\ balanceAfter = [r \in Requests |-> 0]
  /\ pc = [r \in Requests |-> "new"]
  /\ call = [r \in Requests |-> None]
  /\ found = [r \in Requests |-> 0]

Goto(r, from, to) == pc[r] = from /\ pc' = [pc EXCEPT ![r] = to]

-----------------------------------------------------------------------------
(* getOrCreateWallet: find; if absent insert; if that fails find again.    *)

\* What a request does with the wallet it got.
AfterWallet(op) ==
  IF op \in Transactional THEN "update"
  ELSE IF op = "createPendingDeposit" THEN "row"
  ELSE "done"

FindWallet(r, op, u, type, a) ==
  /\ Goto(r, "new", IF u \in wallets THEN AfterWallet(op) ELSE "insert")
  /\ call' = [call EXCEPT ![r] = [op |-> op, user |-> u, type |-> type,
                                  amount |-> a, target |-> None]]
  /\ found' = [found EXCEPT ![r] = balance[u]]
  /\ UNCHANGED <<book, wallets, inserting>>

Credit(r, u, a) == FindWallet(r, "credit", u, "EARNING", a)
Debit(r, u, a) == \E type \in DebitTypes : FindWallet(r, "debit", u, type, a)
GetBalance(r, u) == FindWallet(r, "getBalance", u, "DEPOSIT", 0)
CreatePendingDeposit(r, u, a) == FindWallet(r, "createPendingDeposit", u, "DEPOSIT", a)

\* The unique index on userId: the INSERT waits for an open transaction that
\* holds the same key, then fails if the row is there.  The failure aborts the
\* caller's transaction, so its second find fails too and the call throws;
\* outside a transaction the second find runs.
OnDuplicateWallet(op) == IF op \in Transactional THEN "failed" ELSE "reread"

InsertWallet(r) ==
  LET u == call[r].user  op == call[r].op IN
  /\ pc[r] = "insert"
  /\ inserting[u] = None
  /\ Goto(r, "insert", IF u \in wallets THEN OnDuplicateWallet(op) ELSE AfterWallet(op))
  /\ IF u \in wallets
       THEN UNCHANGED <<wallets, inserting>>
       ELSE IF op \in Transactional
              THEN inserting' = [inserting EXCEPT ![u] = r] /\ UNCHANGED wallets
              ELSE wallets' = wallets \cup {u} /\ UNCHANGED inserting
  /\ UNCHANGED <<book, call, found>>

\* The second find: with no wallet to be found either, NotFoundException.
RereadWallet(r) ==
  LET u == call[r].user IN
  /\ Goto(r, "reread", IF u \in wallets THEN AfterWallet(call[r].op) ELSE "failed")
  /\ found' = [found EXCEPT ![r] = balance[u]]
  /\ UNCHANGED <<book, wallets, inserting, call>>

-----------------------------------------------------------------------------
(* credit and debit: the transaction's UPDATE, its ledger row and COMMIT.  *)

\* set balance = balance + :amount, and the slip of adding to the entity read
\* by getOrCreateWallet
NewBalance_Stale(r, u, delta) == found[r] + delta
NewBalance(r, u, delta) == balance[u] + delta

\* WHERE balance >= :amount
Covers_Stale(r, u, a) == found[r] >= a
Covers(r, u, a) == balance[u] >= a

\* The end of a transaction gives up the wallet row it held, if any.
Release(r, u) == inserting' = [inserting EXCEPT ![u] = IF @ = r THEN None ELSE @]

\* opts.status: an outbound debit reserves the money, the rest is final at once
FirstStatus_Unlisted(type) == "RESERVED"
FirstStatus(type) == IF type \in OutboundDebits THEN "PENDING" ELSE "SUCCESS"

CommitPosting(r) ==
  LET c == call[r]
      row == [user |-> c.user, type |-> c.type, amount |-> c.amount,
              status |-> FirstStatus(c.type), reverses |-> None]
      b == NewBalance(r, c.user, Effect(row))
  IN
  /\ Goto(r, "update", "done")
  /\ c.op = "debit" => Covers(r, c.user, c.amount)
  /\ balance' = [balance EXCEPT ![c.user] = b]
  /\ ledger' = [ledger EXCEPT ![r] = row]
  /\ balanceAfter' = [balanceAfter EXCEPT ![r] = b]
  /\ wallets' = wallets \cup {c.user}
  /\ Release(r, c.user)
  /\ UNCHANGED <<call, found>>

\* affected = 0: "Insufficient wallet balance", the transaction rolls back
RejectDebit(r) ==
  /\ Goto(r, "update", "failed")
  /\ call[r].op = "debit"
  /\ ~Covers(r, call[r].user, call[r].amount)
  /\ Release(r, call[r].user)
  /\ UNCHANGED <<book, wallets, call, found>>

\* createPendingDeposit: no transaction, the balance shown is the one found
InsertDeposit(r) ==
  /\ Goto(r, "row", "done")
  /\ ledger' = [ledger EXCEPT ![r] = [user |-> call[r].user, type |-> "DEPOSIT",
                                      amount |-> call[r].amount, status |-> "PENDING",
                                      reverses |-> None]]
  /\ balanceAfter' = [balanceAfter EXCEPT ![r] = found[r]]
  /\ UNCHANGED <<balance, wallets, inserting, call, found>>

-----------------------------------------------------------------------------
(* reverseTransaction, confirmDeposit, markTransactionStatus: find, then   *)
(* one transaction or one save that looks at no status again.              *)

\* Callers reverse a payment that was charged, or their own outbound debit.
Reversible(o) ==
  /\ ledger[o] # None
  /\ \/ ledger[o].type \in SettledDebits /\ ledger[o].status = "SUCCESS"
     \/ /\ ledger[o].type \in OutboundDebits /\ ledger[o].status = "PENDING"
        /\ \A r \in InFlight : call[r].target # o

AfterOriginal(op) ==
  IF op = "confirmDeposit" THEN "confirm"
  ELSE IF op = "reverseTransaction" THEN "reverse"
  ELSE "mark"

FindOriginal(r, op, o, type) ==
  /\ Goto(r, "new", AfterOriginal(op))
  /\ call' = [call EXCEPT ![r] = [op |-> op, user |-> ledger[o].user, type |-> type,
                                  amount |-> ledger[o].amount, target |-> o]]
  /\ UNCHANGED <<book, wallets, inserting, found>>

ReverseTransaction(r, o) ==
  Reversible(o) /\ FindOriginal(r, "reverseTransaction", o, "REVERSAL")

\* What the reversal leaves in the original row.
ReversedStatus_Forgotten(row) == row.status
ReversedStatus(row) == "FAILED"

CommitReversal(r) ==
  LET c == call[r]
      b == NewBalance(r, c.user, c.amount)
  IN
  /\ Goto(r, "reverse", "done")
  /\ balance' = [balance EXCEPT ![c.user] = b]
  /\ ledger' = [ledger EXCEPT
       ![c.target].status = ReversedStatus(ledger[c.target]),
       ![r] = [user |-> c.user, type |-> "REVERSAL", amount |-> c.amount,
               status |-> "SUCCESS", reverses |-> c.target]]
  /\ balanceAfter' = [balanceAfter EXCEPT ![r] = b]
  /\ UNCHANGED <<wallets, inserting, call, found>>

\* A reference that is no pending deposit returns null and changes nothing.
ConfirmDeposit(r, d) ==
  /\ ledger[d] # None
  /\ ledger[d].type = "DEPOSIT"
  /\ ledger[d].status = "PENDING"
  /\ Cardinality({q \in InFlight : call[q].target = d}) < MaxConfirms
  /\ FindOriginal(r, "confirmDeposit", d, "DEPOSIT")

\* The confirmed row's balanceAfter, and the slip of leaving it as it was.
ConfirmedBalance_Kept(d, b) == balanceAfter
ConfirmedBalance(d, b) == [balanceAfter EXCEPT ![d] = b]

CommitConfirmation(r) ==
  LET c == call[r]
      b == NewBalance(r, c.user, c.amount)
  IN
  /\ Goto(r, "confirm", "done")
  /\ balance' = [balance EXCEPT ![c.user] = b]
  /\ ledger' = [ledger EXCEPT ![c.target].status = "SUCCESS"]
  /\ balanceAfter' = ConfirmedBalance(c.target, b)
  /\ UNCHANGED <<wallets, inserting, call, found>>

\* markTransactionStatus, by the caller whose outbound debit it is: find, then
\* save what the provider answered, PENDING if that is still open.
MarkTransactionStatus(r, o) ==
  /\ Reversible(o)
  /\ ledger[o].type \in OutboundDebits
  /\ FindOriginal(r, "markTransactionStatus", o, ledger[o].type)

CommitMark(r) == \E status \in {"SUCCESS", "PROCESSING", "PENDING"} :
  /\ Goto(r, "mark", "done")
  /\ ledger' = [ledger EXCEPT ![call[r].target].status = status]
  /\ UNCHANGED <<balance, balanceAfter, wallets, inserting, call, found>>

-----------------------------------------------------------------------------

\* A statement fails: the call throws and its transaction, if it has one, rolls
\* back.  Only the INSERT of a wallet is caught, as a duplicate would be.
StatementFails(r) ==
  /\ Faults
  /\ r \in InFlight
  /\ Goto(r, pc[r], IF pc[r] = "insert" THEN OnDuplicateWallet(call[r].op) ELSE "failed")
  /\ Release(r, call[r].user)
  /\ UNCHANGED <<book, wallets, call, found>>

\* The process dies: its calls never return, its open transactions roll back.
Crash ==
  /\ Crashes
  /\ InFlight # {}
  /\ pc' = [r \in Requests |-> IF r \in InFlight THEN "dead" ELSE pc[r]]
  /\ inserting' = [u \in Users |-> None]
  /\ UNCHANGED <<book, wallets, call, found>>

Begin(r) ==
  \/ \E u \in Users : GetBalance(r, u)
  \/ \E u \in Users, a \in Amounts :
       Credit(r, u, a) \/ Debit(r, u, a) \/ CreatePendingDeposit(r, u, a)
  \/ \E o \in Requests :
       \/ ReverseTransaction(r, o)
       \/ ConfirmDeposit(r, o)
       \/ MarkTransactionStatus(r, o)

Advance(r) ==
  \/ InsertWallet(r)
  \/ RereadWallet(r)
  \/ CommitPosting(r)
  \/ RejectDebit(r)
  \/ InsertDeposit(r)
  \/ CommitReversal(r)
  \/ CommitConfirmation(r)
  \/ CommitMark(r)
  \/ StatementFails(r)

Next ==
  \/ \E r \in Requests : Begin(r) \/ Advance(r)
  \/ Crash

Spec == Init /\ [][Next]_vars

-----------------------------------------------------------------------------

TypeOK ==
  /\ balance \in [Users -> Int]
  /\ wallets \subseteq Users
  /\ inserting \in [Users -> Requests \cup {None}]
  /\ ledger \in [Requests -> Rows \cup {None}]
  /\ balanceAfter \in [Requests -> Int]
  /\ pc \in [Requests -> Steps]
  /\ call \in [Requests -> Calls \cup {None}]
  /\ found \in [Requests -> Int]

\* No interleaving of debits spends money twice: a balance never goes below
\* zero although every caller read it before its debit ran.
BalanceNonNegative == \A u \in Users : balance[u] >= 0

\* The balance column and the ledger never drift apart: every balance is the
\* sum of what its owner's rows say, after lost races, roll-backs and crashes.
LedgerBalances == \A u \in Users : balance[u] = Statement(ledger, u)

\* A debit is FAILED exactly when a REVERSAL row gave its money back: no money
\* is returned for a payment that still counts, none is lost in a failed one.
FailedIffReversed ==
  \A o \in Requests : ledger[o] # None /\ ledger[o].type \in DebitTypes =>
    (ledger[o].status = "FAILED"
       <=> \E r \in Requests : ledger[r] # None /\ ledger[r].reverses = o)

\* A statement line shows every balance: some row that moved money carries the
\* current balance in balanceAfter, whatever calls overlapped.
StatementShowsBalance ==
  \A u \in Users : balance[u] # 0 =>
    \E r \in RowsOf(ledger, u) : Effect(ledger[r]) # 0 /\ balanceAfter[r] = balance[u]

\* A ledger row always has a committed wallet behind it, and the uncommitted
\* wallet of one transaction is never taken for one: a roll-back by rejection
\* or crash leaves no row behind.
RowsHaveWallets ==
  \A u \in Users :
    /\ RowsOf(ledger, u) # {} => u \in wallets
    /\ inserting[u] # None => u \notin wallets /\ pc[inserting[u]] = "update"

\* Losing the race to create a wallet costs nobody anything: while the winner's
\* row is there, a call whose own insert is refused finds it and goes on.
LostInsertRecovered ==
  [][\A r \in Requests :
       pc[r] = "insert" /\ call[r].user \in wallets => pc'[r] # "failed"]_vars

\* The wallet implements the atomic ledger its callers rely on.
AbstractLedger == INSTANCE Ledger
ImplementsLedger == AbstractLedger!Spec
=============================================================================
