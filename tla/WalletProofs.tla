---------------------------- MODULE WalletProofs ----------------------------
(***************************************************************************)
(* What TLAPS proves of Wallet for every set of requests, users and        *)
(* amounts: types, no negative balance, rows always backed by a committed  *)
(* wallet, failed debits reversed, statements that show the balance, and,  *)
(* when confirmations of one reference do not overlap, that the wallet     *)
(* implements the atomic ledger and every balance is the sum of its rows.  *)
(***************************************************************************)
EXTENDS Wallet, Sums, TLAPS

\* A call that has started knows what it was asked, and has not written its
\* row before its last step.
CallsKnown == \A r \in Requests :
  /\ pc[r] # "new" => call[r] \in Calls
  /\ pc[r] \in {"new", "insert", "reread", "update", "row", "reverse", "mark"} => ledger[r] = None
  /\ pc[r] \in {"insert", "reread", "update", "row"} =>
       /\ call[r].op = "credit" => call[r].type \in CreditTypes
       /\ call[r].op = "debit" => call[r].type \in DebitTypes
       /\ call[r].op # "getBalance" => call[r].amount \in Amounts
       /\ call[r].op \in Transactional \cup {"getBalance", "createPendingDeposit"}
  /\ pc[r] = "update" => call[r].op \in Transactional
  /\ pc[r] = "row" => call[r].op = "createPendingDeposit"

\* The row a resolving call is about stays what it was when it was found, as
\* far as the call relies on it.
TargetsKnown == \A r \in Requests :
  pc[r] \in {"reverse", "confirm", "mark"} =>
    LET o == call[r].target IN
    /\ o \in Requests
    /\ ledger[o] # None
    /\ call[r].user = ledger[o].user
    /\ call[r].amount = ledger[o].amount
    /\ pc[r] = "reverse" => ledger[o].type \in DebitTypes
    /\ pc[r] = "confirm" => ledger[o].type = "DEPOSIT"
    /\ pc[r] = "mark" => ledger[o].type \in OutboundDebits /\ ledger[o].status = "PENDING"

\* The outbound debit a call is about to mark has no other call in flight.
MarksAlone == \A r, q \in Requests :
  /\ pc[r] = "mark"
  /\ pc[q] \in {"reverse", "mark"}
  /\ call[q].target = call[r].target
  => q = r

\* A row moves the balance up, down or, while a deposit is pending, not at all.
LEMMA EffectOfRow ==
  ASSUME NEW row \in Rows
  PROVE  /\ row.type \in CreditTypes => Effect(row) = row.amount
         /\ row.type \in DebitTypes => Effect(row) = -row.amount
         /\ row.type = "DEPOSIT" /\ row.status = "PENDING" => Effect(row) = 0
         /\ Effect(row) \in Int
BY RowsAssumption DEF Rows, Effect, CreditTypes, DebitTypes, SettledDebits, OutboundDebits, RowTypes

\* What a call carries has its type.
LEMMA CallFields ==
  ASSUME NEW c \in Calls
  PROVE  c.user \in Users /\ c.amount \in Nat /\ c.op \in Ops /\ c.type \in RowTypes
<1>1. \A a \in Amounts \cup {0} : a \in Nat
  BY RowsAssumption
<1>2. c.amount \in Amounts \cup {0}
  BY DEF Calls
<1> QED
  BY <1>1, <1>2 DEF Calls

\* Changing the status of a row changes nothing else.
LEMMA StatusChange ==
  ASSUME NEW row \in Rows, NEW s \in Statuses
  PROVE  LET new == [row EXCEPT !.status = s] IN
         /\ new \in Rows
         /\ new # None
         /\ new.user = row.user /\ new.type = row.type /\ new.amount = row.amount
         /\ new.reverses = row.reverses /\ new.status = s
<1>1. [row EXCEPT !.status = s] \in Rows
  BY DEF Rows
<1> QED
  BY <1>1, RowsAssumption DEF Rows

USE RowsAssumption, WalletAssumption

Known == TypeOK /\ CallsKnown /\ TargetsKnown /\ MarksAlone

\* The types and what the calls know hold throughout.
LEMMA KnownHolds == Spec => []Known
<1> USE DEF Known
<1>1. Init => Known
  BY SMTT(30) DEF Init, TypeOK, CallsKnown, TargetsKnown, MarksAlone, Steps
<1>2. Known /\ [Next]_vars => Known'
  <2> SUFFICES ASSUME Known, [Next]_vars PROVE Known'
    OBVIOUS
  <2> USE DEF TypeOK, CallsKnown, TargetsKnown, MarksAlone, book, Goto
  <2>1. ASSUME NEW r \in Requests, NEW op \in Ops, NEW u \in Users, NEW type \in RowTypes,
               NEW a \in Amounts \cup {0}, FindWallet(r, op, u, type, a),
               op \in Transactional \cup {"getBalance", "createPendingDeposit"},
               op = "credit" => type \in CreditTypes, op = "debit" => type \in DebitTypes,
               op # "getBalance" => a \in Amounts
        PROVE  Known'
    BY <2>1, SMTT(30) DEF FindWallet, Calls, Ops, AfterWallet, Steps, Transactional
  <2>2. ASSUME NEW r \in Requests, Begin(r) PROVE Known'
    <3>1. CASE \E u \in Users : GetBalance(r, u)
      BY <2>1, <3>1 DEF GetBalance, Ops, Transactional, RowTypes
    <3>2. CASE \E u \in Users, a \in Amounts : Credit(r, u, a)
      BY <2>1, <3>2 DEF Credit, Ops, Transactional, RowTypes, CreditTypes
    <3>3. CASE \E u \in Users, a \in Amounts : Debit(r, u, a)
      BY <2>1, <3>3 DEF Debit, Ops, Transactional, RowTypes, CreditTypes
    <3>4. CASE \E u \in Users, a \in Amounts : CreatePendingDeposit(r, u, a)
      BY <2>1, <3>4 DEF CreatePendingDeposit, Ops, Transactional, RowTypes
    <3>5. ASSUME NEW o \in Requests, ReverseTransaction(r, o) PROVE Known'
      <4>1. \A q \in Requests : pc[q] = "mark" => call[q].target # o
        BY <3>5 DEF ReverseTransaction, Reversible, InFlight, SettledDebits, OutboundDebits
      <4>2. (TypeOK /\ CallsKnown /\ TargetsKnown)'
        <5> USE DEF ReverseTransaction, Reversible, FindOriginal, AfterOriginal
        <5>1. TypeOK'
          BY <3>5 DEF Calls, Ops, Steps, Rows, RowTypes, CreditTypes
        <5>2. CallsKnown'
          BY <3>5 DEF Calls, Ops, Rows, RowTypes, CreditTypes
        <5>3. TargetsKnown'
          BY <3>5 DEF DebitTypes
        <5> QED
          BY <5>1, <5>2, <5>3
      <4>3. MarksAlone'
        BY <3>5, <4>1 DEF ReverseTransaction, FindOriginal, AfterOriginal
      <4> QED
        BY <4>2, <4>3
    <3>6. ASSUME NEW o \in Requests, ConfirmDeposit(r, o) PROVE Known'
      BY <3>6 DEF ConfirmDeposit, FindOriginal, AfterOriginal, Calls, Ops, Steps, Rows, RowTypes
    <3>7. ASSUME NEW o \in Requests, MarkTransactionStatus(r, o) PROVE Known'
      <4>1. ledger[o].status = "PENDING" /\ \A q \in InFlight : call[q].target # o
        BY <3>7 DEF MarkTransactionStatus, Reversible, SettledDebits, OutboundDebits
      <4>2. \A q \in Requests : pc[q] \in {"reverse", "mark"} => call[q].target # o
        BY <4>1 DEF InFlight
      <4>3. (TypeOK /\ CallsKnown /\ TargetsKnown)'
        <5> USE DEF MarkTransactionStatus, Reversible, FindOriginal, AfterOriginal
        <5>1. TypeOK'
          BY <3>7 DEF Calls, Ops, Steps, Rows
        <5>2. CallsKnown'
          BY <3>7 DEF Calls, Ops, Rows
        <5>3. TargetsKnown'
          BY <3>7, <4>1
        <5> QED
          BY <5>1, <5>2, <5>3
      <4>4. MarksAlone'
        BY <3>7, <4>2 DEF MarkTransactionStatus, FindOriginal, AfterOriginal
      <4> QED
        BY <4>3, <4>4
    <3> QED
      BY <2>2, <3>1, <3>2, <3>3, <3>4, <3>5, <3>6, <3>7 DEF Begin
  <2>3. ASSUME NEW r \in Requests, InsertWallet(r) PROVE Known'
    BY <2>3 DEF InsertWallet, AfterWallet, OnDuplicateWallet, Steps, Transactional, Calls
  <2>4. ASSUME NEW r \in Requests, RereadWallet(r) PROVE Known'
    BY <2>4 DEF RereadWallet, AfterWallet, Steps, Transactional, Calls
  <2>5. ASSUME NEW r \in Requests, CommitPosting(r) PROVE Known'
    <3> DEFINE row == [user |-> call[r].user, type |-> call[r].type, amount |-> call[r].amount,
                       status |-> FirstStatus(call[r].type), reverses |-> None]
    <3>1. row \in Rows
      BY <2>5 DEF CommitPosting, FirstStatus, Rows, Calls, Statuses, Transactional
    <3>2. Effect(row) \in Int
      BY <3>1, EffectOfRow
    <3> HIDE DEF row
    <3>3. ledger' = [ledger EXCEPT ![r] = row] /\ row # None
      BY <2>5, <3>1 DEF CommitPosting, row
    <3>4. /\ balance' = [balance EXCEPT ![call[r].user] = balance[call[r].user] + Effect(row)]
          /\ balanceAfter' = [balanceAfter EXCEPT ![r] = balance[call[r].user] + Effect(row)]
      BY <2>5 DEF CommitPosting, NewBalance, row
    <3> QED
      BY <2>5, <3>1, <3>2, <3>3, <3>4 DEF CommitPosting, Steps, Release, Calls
  <2>6. ASSUME NEW r \in Requests, RejectDebit(r) PROVE Known'
    BY <2>6, ZenonT(30) DEF RejectDebit, Release, Steps
  <2>7. ASSUME NEW r \in Requests, InsertDeposit(r) PROVE Known'
    BY <2>7 DEF InsertDeposit, Steps, Rows, Calls, RowTypes, Statuses, Ops
  <2>8. ASSUME NEW r \in Requests, CommitReversal(r) PROVE Known'
    <3>1. \A q \in Requests : pc[q] = "mark" => call[q].target # call[r].target
      BY <2>8 DEF CommitReversal
    <3>2. (TypeOK /\ CallsKnown /\ TargetsKnown)'
      <4> USE DEF CommitReversal
      <4>1. TypeOK'
        <5> DEFINE o == call[r].target
                   failed == [ledger[o] EXCEPT !.status = "FAILED"]
                   row == [user |-> call[r].user, type |-> "REVERSAL", amount |-> call[r].amount,
                           status |-> "SUCCESS", reverses |-> o]
        <5>1. o \in Requests /\ ledger[o] \in Rows /\ call[r] \in Calls
              /\ call[r].user = ledger[o].user /\ call[r].amount = ledger[o].amount
          BY <2>8
        <5>2. failed \in Rows
          BY <5>1, StatusChange DEF Statuses
        <5>3. row \in Rows
          BY <5>1 DEF Rows, RowTypes, CreditTypes, Statuses
        <5>4. ledger' = [ledger EXCEPT ![o] = failed, ![r] = row]
          BY <2>8, <5>1 DEF ReversedStatus
        <5>5. ledger' \in [Requests -> Rows \cup {None}]
          <6> HIDE DEF failed, row
          <6> QED
            BY ONLY <5>2, <5>3, <5>4, TypeOK DEF TypeOK
        <5>6. call[r].user \in Users /\ balance[call[r].user] + call[r].amount \in Int
          BY <5>1, CallFields
        <5>7. /\ balance' \in [Users -> Int]
              /\ balanceAfter' \in [Requests -> Int]
          BY <2>8, <5>6 DEF NewBalance
        <5>8. pc' \in [Requests -> Steps]
          BY <2>8 DEF Steps
        <5> QED
          BY <2>8, <5>5, <5>7, <5>8
      <4>2. CallsKnown'
        BY <2>8
      <4>3. TargetsKnown'
        <5>1. call[r].target \in Requests /\ ledger[call[r].target] \in Rows /\ ledger[r] = None
          BY <2>8
        <5>2. /\ ledger'[call[r].target] # None
              /\ ledger'[call[r].target].user = ledger[call[r].target].user
              /\ ledger'[call[r].target].type = ledger[call[r].target].type
              /\ ledger'[call[r].target].amount = ledger[call[r].target].amount
          <6>1. ledger'[call[r].target] = [ledger[call[r].target] EXCEPT !.status = "FAILED"]
            BY <2>8, <5>1 DEF ReversedStatus
          <6>2. "FAILED" \in Statuses
            BY DEF Statuses
          <6> QED
            BY ONLY <5>1, <6>1, <6>2, StatusChange
        <5>3. \A o \in Requests : o # call[r].target /\ ledger[o] # None => ledger'[o] = ledger[o]
          BY <2>8, <5>1
        <5>4. \A q \in Requests : pc'[q] \in {"reverse", "confirm", "mark"} => pc'[q] = pc[q]
          BY <2>8
        <5>5. call' = call
          BY <2>8
        <5> QED
          BY <3>1, <5>2, <5>3, <5>4, <5>5
      <4> QED
        BY <4>1, <4>2, <4>3
    <3>3. MarksAlone'
      BY <2>8 DEF CommitReversal
    <3> QED
      BY <3>2, <3>3
  <2>9. ASSUME NEW r \in Requests, CommitConfirmation(r) PROVE Known'
    <3> USE DEF CommitConfirmation
    <3>1. TypeOK'
      BY <2>9 DEF Steps, Rows, Calls, RowTypes, Statuses, ConfirmedBalance, NewBalance
    <3>2. CallsKnown'
      BY <2>9
    <3>3. TargetsKnown'
      <4>1. \A q \in Requests : pc[q] = "mark" => call[q].target # call[r].target
        BY <2>9 DEF OutboundDebits
      <4>2. call[r].target \in Requests /\ ledger[call[r].target] \in Rows
        BY <2>9
      <4>3. /\ ledger'[call[r].target] # None
            /\ ledger'[call[r].target].user = ledger[call[r].target].user
            /\ ledger'[call[r].target].type = ledger[call[r].target].type
            /\ ledger'[call[r].target].amount = ledger[call[r].target].amount
        <5>1. ledger'[call[r].target] = [ledger[call[r].target] EXCEPT !.status = "SUCCESS"]
          BY <2>9, <4>2
        <5>2. "SUCCESS" \in Statuses
          BY DEF Statuses
        <5> QED
          BY ONLY <4>2, <5>1, <5>2, StatusChange
      <4>4. \A o \in Requests : o # call[r].target => ledger'[o] = ledger[o]
        BY <2>9, <4>2
      <4>5. \A q \in Requests : pc'[q] \in {"reverse", "confirm", "mark"} => pc'[q] = pc[q]
        BY <2>9
      <4>6. call' = call
        BY <2>9
      <4> QED
        BY <4>1, <4>3, <4>4, <4>5, <4>6
    <3>4. MarksAlone'
      BY <2>9
    <3> QED
      BY <3>1, <3>2, <3>3, <3>4
  <2>10. ASSUME NEW r \in Requests, CommitMark(r)
         PROVE  Known'
    <3>1. PICK s \in {"SUCCESS", "PROCESSING", "PENDING"} :
            ledger' = [ledger EXCEPT ![call[r].target].status = s]
      BY <2>10 DEF CommitMark
    <3>2. ledger[call[r].target] \in Rows /\ call[r].target \in Requests
      BY <2>10 DEF CommitMark
    <3> DEFINE row == [ledger[call[r].target] EXCEPT !.status = s]
    <3>3. /\ row \in Rows /\ row # None /\ row.user = ledger[call[r].target].user
          /\ row.type = ledger[call[r].target].type /\ row.amount = ledger[call[r].target].amount
      <4>1. s \in Statuses
        BY DEF Statuses
      <4> QED
        BY ONLY <3>2, <4>1, StatusChange
    <3>4. ledger' = [ledger EXCEPT ![call[r].target] = row]
      BY <3>1
    <3> HIDE DEF row
    <3>5. \A q \in Requests : pc'[q] = "mark" => call[q].target # call[r].target
      BY <2>10 DEF CommitMark
    <3> QED
      BY <2>10, <3>2, <3>3, <3>4, <3>5 DEF CommitMark, Steps
  <2>11. CASE Crash
    BY <2>11 DEF Crash, Steps, InFlight
  <2>12. CASE UNCHANGED vars
    BY <2>12 DEF vars
  <2>13. ASSUME NEW r \in Requests, StatementFails(r) PROVE Known'
    BY <2>13, ZenonT(40)
    DEF StatementFails, Release, OnDuplicateWallet, Steps, InFlight, Transactional
  <2> QED
    BY <2>2, <2>3, <2>4, <2>5, <2>6, <2>7, <2>8, <2>9, <2>10, <2>11, <2>12, <2>13 DEF Next, Advance
<1> QED
  BY <1>1, <1>2, PTL DEF Spec

\* Every variable keeps its type, for any number of overlapping calls.
THEOREM TypeCorrect == Spec => []TypeOK
BY KnownHolds, PTL DEF Known

-----------------------------------------------------------------------------

\* No interleaving of credits, debits, reversals, confirmations and crashes
\* takes a balance below zero (WalletService.debit's conditional UPDATE).
THEOREM NeverNegative == Spec => []BalanceNonNegative
<1>1. Init => BalanceNonNegative
  BY DEF Init, BalanceNonNegative
<1>2. Known /\ BalanceNonNegative /\ [Next]_vars => BalanceNonNegative'
  <2> SUFFICES ASSUME Known, BalanceNonNegative, [Next]_vars PROVE BalanceNonNegative'
    OBVIOUS
  <2> USE DEF Known, TypeOK, BalanceNonNegative
  <2>1. ASSUME NEW r \in Requests, CommitPosting(r) PROVE BalanceNonNegative'
    <3> DEFINE row == [user |-> call[r].user, type |-> call[r].type, amount |-> call[r].amount,
                       status |-> FirstStatus(call[r].type), reverses |-> None]
    <3>1. row \in Rows /\ call[r] \in Calls /\ call[r].op \in Transactional
      BY <2>1 DEF CommitPosting, CallsKnown, Goto, FirstStatus, Rows, Calls, Statuses, Transactional
    <3>2. /\ call[r].op = "credit" => Effect(row) = call[r].amount
          /\ call[r].op = "debit" => Effect(row) = -call[r].amount
      BY <2>1, <3>1, EffectOfRow DEF CommitPosting, CallsKnown, Goto, Transactional
    <3>3. balance' = [balance EXCEPT ![call[r].user] = balance[call[r].user] + Effect(row)]
      BY <2>1 DEF CommitPosting, NewBalance
    <3>4. call[r].op = "debit" => balance[call[r].user] >= call[r].amount
      BY <2>1 DEF CommitPosting, Covers
    <3>5. call[r].user \in Users /\ call[r].amount \in Nat
      BY <3>1, CallFields
    <3> QED
      BY <3>1, <3>2, <3>3, <3>4, <3>5 DEF Transactional
  <2>2. ASSUME NEW r \in Requests, CommitReversal(r) \/ CommitConfirmation(r)
        PROVE  BalanceNonNegative'
    <3>1. call[r].user \in Users /\ call[r].amount \in Nat
      BY <2>2 DEF CommitReversal, CommitConfirmation, Goto, CallsKnown, Calls
    <3>2. balance' = [balance EXCEPT ![call[r].user] = balance[call[r].user] + call[r].amount]
      BY <2>2 DEF CommitReversal, CommitConfirmation, NewBalance
    <3> QED
      BY <3>1, <3>2
  <2>3. ASSUME NEW r \in Requests, Begin(r) PROVE UNCHANGED balance
    BY <2>3 DEF Begin, GetBalance, Credit, Debit, CreatePendingDeposit, ReverseTransaction,
       ConfirmDeposit, MarkTransactionStatus, FindWallet, FindOriginal, book
  <2>4. ASSUME NEW r \in Requests,
               InsertWallet(r) \/ RereadWallet(r) \/ RejectDebit(r) \/ InsertDeposit(r)
                 \/ StatementFails(r)
        PROVE  UNCHANGED balance
    BY <2>4 DEF InsertWallet, RereadWallet, RejectDebit, InsertDeposit, StatementFails, book
  <2>5. ASSUME NEW r \in Requests, CommitMark(r)
        PROVE  UNCHANGED balance
    BY <2>5 DEF CommitMark
  <2>6. Crash \/ UNCHANGED vars => UNCHANGED balance
    BY DEF Crash, vars, book
  <2> QED
    BY <2>1, <2>2, <2>3, <2>4, <2>5, <2>6 DEF Next, Advance
<1> QED
  BY <1>1, <1>2, KnownHolds, PTL DEF Spec

-----------------------------------------------------------------------------

\* A transaction past getOrCreateWallet has a wallet row to update: one that is
\* committed, or the one it holds itself.
WalletAtHand == \A r \in Requests :
  /\ pc[r] = "update" => call[r].user \in wallets \/ inserting[call[r].user] = r
  /\ pc[r] = "row" => call[r].user \in wallets

\* RowsHaveWallets row by row and holder by holder.
Backed ==
  /\ \A r \in Requests : ledger[r] # None => ledger[r].user \in wallets
  /\ \A u \in Users : inserting[u] # None =>
       u \notin wallets /\ pc[inserting[u]] = "update" /\ call[inserting[u]].user = u

\* A ledger row always has a committed wallet behind it and a rolled-back
\* transaction leaves none (getOrCreateWallet inside credit and debit).
THEOREM RowsBacked == Spec => []RowsHaveWallets
<1> USE DEF WalletAtHand, Backed
<1>1. Init => WalletAtHand /\ Backed
  BY DEF Init
<1>2. Known /\ WalletAtHand /\ Backed /\ [Next]_vars => WalletAtHand' /\ Backed'
  <2> SUFFICES ASSUME Known, WalletAtHand, Backed, [Next]_vars PROVE WalletAtHand' /\ Backed'
    OBVIOUS
  <2> USE DEF Known, TypeOK, CallsKnown, book, Goto
  <2>1. ASSUME NEW r \in Requests, NEW op \in Ops, NEW u \in Users, NEW type, NEW a,
               FindWallet(r, op, u, type, a)
        PROVE  WalletAtHand' /\ Backed'
    BY <2>1 DEF FindWallet, AfterWallet
  <2>2. ASSUME NEW r \in Requests, Begin(r) PROVE WalletAtHand' /\ Backed'
    <3>1. ASSUME NEW o \in Requests,
                 ReverseTransaction(r, o) \/ ConfirmDeposit(r, o) \/ MarkTransactionStatus(r, o)
          PROVE  WalletAtHand' /\ Backed'
      BY <3>1 DEF ReverseTransaction, ConfirmDeposit, MarkTransactionStatus, FindOriginal, AfterOriginal
    <3> QED
      BY <2>1, <2>2, <3>1 DEF Begin, GetBalance, Credit, Debit, CreatePendingDeposit, Ops, Transactional
  <2>3. ASSUME NEW r \in Requests, InsertWallet(r) PROVE WalletAtHand' /\ Backed'
    BY <2>3, CallFields DEF InsertWallet, AfterWallet, OnDuplicateWallet
  <2>4. ASSUME NEW r \in Requests, RereadWallet(r) PROVE WalletAtHand' /\ Backed'
    BY <2>4 DEF RereadWallet, AfterWallet
  <2>5. ASSUME NEW r \in Requests, CommitPosting(r) PROVE WalletAtHand' /\ Backed'
    <3>1. call[r].user \in Users /\ inserting[call[r].user] \in {None, r}
      BY <2>5, CallFields DEF CommitPosting
    <3>2. /\ wallets' = wallets \cup {call[r].user}
          /\ inserting' = [inserting EXCEPT ![call[r].user] = None]
          /\ pc' = [pc EXCEPT ![r] = "done"]
          /\ call' = call
      BY <2>5, <3>1 DEF CommitPosting, Release
    <3>3. \A q \in Requests : q # r => ledger'[q] = ledger[q]
      BY <2>5 DEF CommitPosting
    <3>4. ledger'[r].user = call[r].user
      BY <2>5 DEF CommitPosting
    <3> QED
      BY <2>5, <3>1, <3>2, <3>3, <3>4
  <2>6. ASSUME NEW r \in Requests, RejectDebit(r) PROVE WalletAtHand' /\ Backed'
    BY <2>6, CallFields DEF RejectDebit, Release
  <2>7. ASSUME NEW r \in Requests, InsertDeposit(r) PROVE WalletAtHand' /\ Backed'
    BY <2>7, CallFields DEF InsertDeposit
  <2>8. ASSUME NEW r \in Requests, CommitReversal(r) PROVE WalletAtHand' /\ Backed'
    <3> DEFINE o == call[r].target
    <3>1. o \in Requests /\ ledger[o] \in Rows /\ ledger[o] # None /\ call[r].user = ledger[o].user
      BY <2>8 DEF CommitReversal, TargetsKnown
    <3>2. [ledger[o] EXCEPT !.status = "FAILED"].user = ledger[o].user
      BY <3>1, StatusChange DEF Statuses
    <3>3. \A q \in Requests : ledger'[q] # None =>
            \/ ledger[q] # None /\ ledger'[q].user = ledger[q].user
            \/ ledger'[q].user = call[r].user
      BY <2>8, <3>1, <3>2, ZenonT(30) DEF CommitReversal, ReversedStatus
    <3> QED
      BY <2>8, <3>1, <3>3 DEF CommitReversal
  <2>9. ASSUME NEW r \in Requests, CommitConfirmation(r) PROVE WalletAtHand' /\ Backed'
    <3> DEFINE o == call[r].target
    <3>1. o \in Requests /\ ledger[o] \in Rows /\ ledger[o] # None /\ call[r].user = ledger[o].user
      BY <2>9 DEF CommitConfirmation, TargetsKnown
    <3>2. [ledger[o] EXCEPT !.status = "SUCCESS"].user = ledger[o].user
      BY <3>1, StatusChange DEF Statuses
    <3>3. \A q \in Requests : ledger'[q] # None =>
            \/ ledger[q] # None /\ ledger'[q].user = ledger[q].user
            \/ ledger'[q].user = call[r].user
      BY <2>9, <3>1, <3>2 DEF CommitConfirmation
    <3> QED
      BY <2>9, <3>1, <3>3 DEF CommitConfirmation
  <2>10. ASSUME NEW r \in Requests, CommitMark(r)
         PROVE  WalletAtHand' /\ Backed'
    <3> DEFINE o == call[r].target
    <3>1. PICK s \in {"SUCCESS", "PROCESSING", "PENDING"} :
            ledger' = [ledger EXCEPT ![o].status = s]
      BY <2>10 DEF CommitMark
    <3>2. o \in Requests /\ ledger[o] \in Rows /\ ledger[o] # None
      BY <2>10 DEF CommitMark, TargetsKnown
    <3>3. [ledger[o] EXCEPT !.status = s].user = ledger[o].user
      BY <3>2, StatusChange DEF Statuses
    <3>4. \A q \in Requests : ledger'[q] # None =>
            ledger[q] # None /\ ledger'[q].user = ledger[q].user
      BY <3>1, <3>2, <3>3
    <3> QED
      BY <2>10, <3>4 DEF CommitMark
  <2>11. CASE Crash
    BY <2>11 DEF Crash, InFlight
  <2>12. CASE UNCHANGED vars
    BY <2>12 DEF vars
  <2>13. ASSUME NEW r \in Requests, StatementFails(r) PROVE WalletAtHand' /\ Backed'
    <3>1. call[r] \in Calls /\ call[r].user \in Users
      BY <2>13, CallFields DEF StatementFails, InFlight
    <3>2. inserting[call[r].user] # None => inserting[call[r].user] \in Requests
      BY <3>1
    <3>3. \A u \in Users : /\ inserting'[u] # None => inserting'[u] = inserting[u] /\ inserting[u] # r
                           /\ inserting[u] # r => inserting'[u] = inserting[u]
      <4>1. \A u \in Users : inserting[u] = r => u = call[r].user
        OBVIOUS
      <4> QED
        BY <2>13, <3>1, <4>1 DEF StatementFails, Release
    <3>4. \A q \in Requests : q # r => pc'[q] = pc[q]
      BY <2>13 DEF StatementFails
    <3>5. pc'[r] \in {"failed", "reread"} /\ (pc'[r] = "reread" => pc[r] = "insert")
      BY <2>13 DEF StatementFails, OnDuplicateWallet
    <3>6. ledger' = ledger /\ wallets' = wallets /\ call' = call
      BY <2>13 DEF StatementFails
    <3>7. WalletAtHand'
      <4> SUFFICES ASSUME NEW q \in Requests
                   PROVE  /\ pc'[q] = "update" =>
                                call[q].user \in wallets \/ inserting'[call[q].user] = q
                          /\ pc'[q] = "row" => call[q].user \in wallets
        BY <3>6
      <4>1. pc'[q] \in {"update", "row"} => q # r /\ pc[q] = pc'[q] /\ call[q].user \in Users
        BY <3>4, <3>5, CallFields
      <4> QED
        BY <3>3, <4>1
    <3>8. Backed'
      <4> SUFFICES ASSUME NEW u \in Users, inserting'[u] # None
                   PROVE  /\ u \notin wallets
                          /\ pc'[inserting'[u]] = "update" /\ call[inserting'[u]].user = u
        BY <3>6
      <4>1. inserting'[u] = inserting[u] /\ inserting[u] \in Requests /\ inserting[u] # r
        BY <3>3
      <4> QED
        BY <3>4, <4>1
    <3> QED
      BY <3>7, <3>8
  <2> QED
    BY <2>2, <2>3, <2>4, <2>5, <2>6, <2>7, <2>8, <2>9, <2>10, <2>11, <2>12, <2>13 DEF Next, Advance
<1>3. Known /\ Backed => RowsHaveWallets
  BY DEF RowsHaveWallets, RowsOf, Known, TypeOK
<1> QED
  BY <1>1, <1>2, <1>3, KnownHolds, PTL DEF Spec

-----------------------------------------------------------------------------

\* When confirmations of one reference do not overlap, the deposit each of
\* them found pending is still pending when its transaction runs.
ConfirmsApart == \A r \in Requests : pc[r] = "confirm" =>
  /\ ledger[call[r].target].status = "PENDING"
  /\ \A q \in Requests : pc[q] = "confirm" /\ call[q].target = call[r].target => q = r

\* With one confirmation of a reference at a time, the deposit a confirming call
\* found pending is still pending.
LEMMA ConfirmsStayApart ==
  ASSUME MaxConfirms <= 1, IsFiniteSet(Requests)
  PROVE  Spec => []ConfirmsApart
<1> USE DEF ConfirmsApart
<1>1. Init => ConfirmsApart
  BY DEF Init
<1>2. Known /\ ConfirmsApart /\ [Next]_vars => ConfirmsApart'
  <2> SUFFICES ASSUME Known, ConfirmsApart, [Next]_vars PROVE ConfirmsApart'
    OBVIOUS
  <2> USE DEF Known, TypeOK, CallsKnown, TargetsKnown, book, Goto
  <2>1. ASSUME NEW r \in Requests, NEW o \in Requests, ConfirmDeposit(r, o) PROVE ConfirmsApart'
    <3> DEFINE Others == {q \in InFlight : call[q].target = o}
    <3>1. IsFiniteSet(Others)
      BY FS_Subset DEF InFlight
    <3>2. Cardinality(Others) < MaxConfirms
      BY <2>1 DEF ConfirmDeposit
    <3>3. Others = {}
      <4> HIDE DEF Others
      <4>1. Cardinality(Others) \in Nat
        BY <3>1, FS_CardinalityType
      <4>2. Cardinality(Others) = 0
        BY <3>2, <4>1
      <4> QED
        BY <3>1, <4>2, FS_EmptySet
    <3>4. \A q \in Requests : pc[q] = "confirm" => call[q].target # o
      BY <3>3 DEF InFlight
    <3> QED
      BY <2>1, <3>4 DEF ConfirmDeposit, FindOriginal, AfterOriginal
  <2>2. ASSUME NEW r \in Requests, Begin(r), \A o \in Requests : ~ConfirmDeposit(r, o)
        PROVE  ConfirmsApart'
    BY <2>2 DEF Begin, GetBalance, Credit, Debit, CreatePendingDeposit, ReverseTransaction,
       MarkTransactionStatus, FindWallet, FindOriginal, AfterOriginal, AfterWallet
  <2>3. ASSUME NEW r \in Requests,
               InsertWallet(r) \/ RereadWallet(r) \/ RejectDebit(r) \/ StatementFails(r)
        PROVE  ConfirmsApart'
    BY <2>3 DEF InsertWallet, RereadWallet, RejectDebit, StatementFails, AfterWallet, OnDuplicateWallet
  <2>4. ASSUME NEW r \in Requests, CommitPosting(r) \/ InsertDeposit(r) PROVE ConfirmsApart'
    BY <2>4 DEF CommitPosting, InsertDeposit
  <2>5. ASSUME NEW r \in Requests, CommitReversal(r) PROVE ConfirmsApart'
    <3>1. \A q \in Requests : pc[q] = "confirm" => call[q].target \notin {r, call[r].target}
      BY <2>5 DEF CommitReversal, DebitTypes, SettledDebits, OutboundDebits
    <3>2. /\ pc' = [pc EXCEPT ![r] = "done"] /\ UNCHANGED call
          /\ \A o \in Requests \ {r, call[r].target} : ledger'[o] = ledger[o]
      BY <2>5 DEF CommitReversal
    <3>3. \A q \in Requests : pc'[q] = "confirm" =>
            /\ pc[q] = "confirm"
            /\ call[q].target \in Requests
            /\ ledger'[call[q].target] = ledger[call[q].target]
      BY <3>1, <3>2
    <3> QED
      BY <3>2, <3>3
  <2>6. ASSUME NEW r \in Requests, CommitConfirmation(r) PROVE ConfirmsApart'
    <3>1. /\ pc' = [pc EXCEPT ![r] = "done"] /\ UNCHANGED call
          /\ \A o \in Requests \ {call[r].target} : ledger'[o] = ledger[o]
      BY <2>6 DEF CommitConfirmation
    <3> QED
      BY <2>6, <3>1 DEF CommitConfirmation
  <2>7. ASSUME NEW r \in Requests, CommitMark(r)
        PROVE  ConfirmsApart'
    <3>1. \A q \in Requests : pc[q] = "confirm" => call[q].target # call[r].target
      BY <2>7 DEF CommitMark, OutboundDebits
    <3>2. /\ pc' = [pc EXCEPT ![r] = "done"] /\ UNCHANGED call
          /\ \A o \in Requests \ {call[r].target} : ledger'[o] = ledger[o]
      BY <2>7 DEF CommitMark
    <3> QED
      BY <3>1, <3>2
  <2>8. CASE Crash
    BY <2>8 DEF Crash, InFlight
  <2>9. CASE UNCHANGED vars
    BY <2>9 DEF vars
  <2> QED
    BY <2>1, <2>2, <2>3, <2>4, <2>5, <2>6, <2>7, <2>8, <2>9 DEF Next, Advance
<1> QED
  BY <1>1, <1>2, KnownHolds, PTL DEF Spec

\* The instance reads the vocabulary of ledger rows as Wallet does.
LEMMA SameRows ==
  /\ AbstractLedger!Rows = Rows
  /\ AbstractLedger!DebitTypes = DebitTypes
  /\ AbstractLedger!OutboundDebits = OutboundDebits
  /\ \A row : AbstractLedger!Effect(row) = Effect(row)
BY DEF AbstractLedger!Rows, Rows, AbstractLedger!RowTypes, RowTypes, AbstractLedger!Statuses, Statuses,
   AbstractLedger!CreditTypes, CreditTypes, AbstractLedger!DebitTypes, DebitTypes,
   AbstractLedger!SettledDebits, SettledDebits, AbstractLedger!OutboundDebits, OutboundDebits,
   AbstractLedger!Effect, Effect

\* With confirmations of one reference apart, every step of the wallet is one
\* posting of the atomic ledger, or none: callers may rely on Ledger alone.
THEOREM WalletImplementsLedger ==
  ASSUME MaxConfirms <= 1, IsFiniteSet(Requests)
  PROVE  Spec => ImplementsLedger
<1>1. Init => AbstractLedger!Init
  BY DEF Init, AbstractLedger!Init
<1>2. Known /\ ConfirmsApart /\ BalanceNonNegative /\ [Next]_vars
        => [AbstractLedger!Next]_<<balance, ledger>>
  <2> SUFFICES ASSUME Known, ConfirmsApart, BalanceNonNegative, Next
               PROVE  AbstractLedger!Next \/ UNCHANGED <<balance, ledger>>
    BY DEF vars
  <2> USE DEF Known, TypeOK, CallsKnown, book, Goto
  <2>1. ASSUME NEW r \in Requests, Begin(r) PROVE UNCHANGED <<balance, ledger>>
    BY <2>1 DEF Begin, GetBalance, Credit, Debit, CreatePendingDeposit, ReverseTransaction,
       ConfirmDeposit, MarkTransactionStatus, FindWallet, FindOriginal
  <2>2. ASSUME NEW r \in Requests,
               InsertWallet(r) \/ RereadWallet(r) \/ RejectDebit(r) \/ StatementFails(r)
        PROVE  UNCHANGED <<balance, ledger>>
    BY <2>2 DEF InsertWallet, RereadWallet, RejectDebit, StatementFails
  <2>3. ASSUME NEW r \in Requests, CommitPosting(r) PROVE AbstractLedger!Post(r)
    <3> DEFINE row == [user |-> call[r].user, type |-> call[r].type, amount |-> call[r].amount,
                       status |-> FirstStatus(call[r].type), reverses |-> None]
    <3>1. row \in Rows /\ call[r] \in Calls
      BY <2>3 DEF CommitPosting, FirstStatus, Rows, Calls, Statuses, Transactional
    <3>2. /\ call[r].op = "credit" => Effect(row) = call[r].amount
          /\ call[r].op = "debit" => Effect(row) = -call[r].amount
          /\ Effect(row) \in Int
          /\ call[r].op \in {"credit", "debit"}
      BY <2>3, <3>1, EffectOfRow DEF CommitPosting, Transactional
    <3>3. /\ balance' = [balance EXCEPT ![call[r].user] = balance[call[r].user] + Effect(row)]
          /\ ledger' = [ledger EXCEPT ![r] = row]
          /\ call[r].op = "debit" => balance[call[r].user] >= call[r].amount
      BY <2>3 DEF CommitPosting, NewBalance, Covers
    <3>4. balance[call[r].user] + Effect(row) >= 0
      BY <3>1, <3>2, <3>3, CallFields DEF BalanceNonNegative
    <3>5. row.user = call[r].user /\ row.reverses = None /\ ledger[r] = None
      BY <2>3 DEF CommitPosting
    <3> HIDE DEF row
    <3> QED
      BY <3>1, <3>3, <3>4, <3>5, SameRows DEF AbstractLedger!Post
  <2>4. ASSUME NEW r \in Requests, InsertDeposit(r) PROVE AbstractLedger!Post(r)
    <3> DEFINE row == [user |-> call[r].user, type |-> "DEPOSIT", amount |-> call[r].amount,
                       status |-> "PENDING", reverses |-> None]
    <3>1. row \in Rows /\ call[r].user \in Users
      BY <2>4 DEF InsertDeposit, Rows, Calls, Statuses, RowTypes
    <3>2. Effect(row) = 0
      BY <3>1, EffectOfRow
    <3>3. balance' = [balance EXCEPT ![row.user] = balance[row.user] + Effect(row)]
      BY <2>4, <3>1, <3>2 DEF InsertDeposit
    <3>4. ledger' = [ledger EXCEPT ![r] = row] /\ row.reverses = None /\ ledger[r] = None
      BY <2>4 DEF InsertDeposit
    <3>5. balance[row.user] + Effect(row) >= 0
      BY <3>1, <3>2 DEF BalanceNonNegative
    <3> HIDE DEF row
    <3> QED
      BY <3>1, <3>3, <3>4, <3>5, SameRows DEF AbstractLedger!Post
  <2>5. ASSUME NEW r \in Requests, CommitReversal(r) PROVE \E o \in Requests : AbstractLedger!Reverse(r, o)
    BY <2>5, SameRows DEF CommitReversal, TargetsKnown, ReversedStatus, NewBalance, AbstractLedger!Reverse
  <2>6. ASSUME NEW r \in Requests, CommitConfirmation(r) PROVE \E d \in Requests : AbstractLedger!Settle(d)
    BY <2>6 DEF CommitConfirmation, TargetsKnown, ConfirmsApart, NewBalance, AbstractLedger!Settle
  <2>7. ASSUME NEW r \in Requests, CommitMark(r)
        PROVE  \E o \in Requests : AbstractLedger!Mark(o)
    <3>1. /\ call[r].target \in Requests /\ ledger[call[r].target] # None
          /\ ledger[call[r].target].type \in OutboundDebits
          /\ ledger[call[r].target].status = "PENDING"
      BY <2>7 DEF CommitMark, TargetsKnown
    <3>2. AbstractLedger!Mark(call[r].target)
      BY <2>7, <3>1, SameRows DEF CommitMark, AbstractLedger!Mark
    <3> QED
      BY <3>1, <3>2
  <2>8. Crash => UNCHANGED <<balance, ledger>>
    BY DEF Crash
  <2> QED
    BY <2>1, <2>2, <2>3, <2>4, <2>5, <2>6, <2>7, <2>8 DEF Next, Advance, AbstractLedger!Next
<1> QED
  BY <1>1, <1>2, KnownHolds, ConfirmsStayApart, NeverNegative, PTL
     DEF Spec, ImplementsLedger, AbstractLedger!Spec

-----------------------------------------------------------------------------

\* A row that settled with money moved some.
LEMMA EffectNotZero ==
  ASSUME NEW row \in Rows, row.type # "DEPOSIT" \/ row.status = "SUCCESS"
  PROVE  Effect(row) # 0
<1>1. row.amount \in Nat \ {0}
  BY DEF Rows
<1>2. Effect(row) \in {row.amount, -row.amount}
  BY DEF Effect
<1> QED
  BY <1>1, <1>2

\* The steps that leave every row and balance as they were.
Quiet == UNCHANGED book

\* Beginning a call, creating its wallet or giving up are such steps.
LEMMA QuietSteps ==
  ASSUME NEW r \in Requests,
         \/ Begin(r) \/ InsertWallet(r) \/ RereadWallet(r) \/ RejectDebit(r)
         \/ StatementFails(r) \/ Crash \/ UNCHANGED vars
  PROVE  Quiet
BY DEF Quiet, Begin, GetBalance, Credit, Debit, CreatePendingDeposit, ReverseTransaction,
   ConfirmDeposit, MarkTransactionStatus, FindWallet, FindOriginal, InsertWallet, RereadWallet, RejectDebit,
   StatementFails, Crash, vars, book

\* What the steps that do write leave in the tables.  A posting ...
LEMMA PostingWrites ==
  ASSUME Known, NEW r \in Requests, CommitPosting(r)
  PROVE  \E row \in Rows :
           /\ row.type # "DEPOSIT" /\ row.status # "FAILED" /\ row.reverses = None
           /\ ledger[r] = None
           /\ ledger' = [ledger EXCEPT ![r] = row]
           /\ balance' = [balance EXCEPT ![row.user] = balance[row.user] + Effect(row)]
           /\ balanceAfter' = [balanceAfter EXCEPT ![r] = balance[row.user] + Effect(row)]
<1> DEFINE row == [user |-> call[r].user, type |-> call[r].type, amount |-> call[r].amount,
                   status |-> FirstStatus(call[r].type), reverses |-> None]
<1>1. row \in Rows
  BY DEF Known, TypeOK, CallsKnown, Goto, CommitPosting, FirstStatus, Rows, Calls, Statuses, Transactional
<1>2. call[r].type # "DEPOSIT"
  BY DEF Known, TypeOK, CallsKnown, Goto, CommitPosting, Transactional, CreditTypes, DebitTypes,
     SettledDebits, OutboundDebits
<1>3. row.status # "FAILED"
  BY DEF FirstStatus
<1>4. /\ ledger[r] = None
      /\ ledger' = [ledger EXCEPT ![r] = row]
      /\ balance' = [balance EXCEPT ![row.user] = balance[row.user] + Effect(row)]
      /\ balanceAfter' = [balanceAfter EXCEPT ![r] = balance[row.user] + Effect(row)]
  BY DEF Known, CallsKnown, Goto, CommitPosting, NewBalance
<1> HIDE DEF row
<1>5. row.type # "DEPOSIT" /\ row.reverses = None
  BY <1>2 DEF row
<1> QED
  BY <1>1, <1>3, <1>4, <1>5

\* ... a pending deposit ...
LEMMA DepositWrites ==
  ASSUME Known, NEW r \in Requests, InsertDeposit(r)
  PROVE  \E row \in Rows :
           /\ row.type = "DEPOSIT" /\ row.status = "PENDING" /\ row.reverses = None
           /\ ledger[r] = None
           /\ ledger' = [ledger EXCEPT ![r] = row]
           /\ UNCHANGED balance
           /\ balanceAfter' = [balanceAfter EXCEPT ![r] = found[r]]
<1> DEFINE row == [user |-> call[r].user, type |-> "DEPOSIT", amount |-> call[r].amount,
                   status |-> "PENDING", reverses |-> None]
<1>1. row \in Rows
  BY DEF Known, TypeOK, CallsKnown, Goto, InsertDeposit, Rows, Calls, Statuses, RowTypes
<1> QED
  BY <1>1 DEF Known, CallsKnown, Goto, InsertDeposit

\* ... a reversal ...
LEMMA ReversalWrites ==
  ASSUME Known, NEW r \in Requests, CommitReversal(r)
  PROVE  \E o \in Requests, row \in Rows, failed \in Rows :
           /\ ledger[r] = None /\ ledger[o] \in Rows /\ ledger[o].type \in DebitTypes
           /\ row.type = "REVERSAL" /\ row.user = ledger[o].user /\ row.amount = ledger[o].amount
           /\ row.reverses = o
           /\ failed = [ledger[o] EXCEPT !.status = "FAILED"]
           /\ o # r
           /\ ledger' = [ledger EXCEPT ![o] = failed, ![r] = row]
           /\ balance' = [balance EXCEPT ![row.user] = balance[row.user] + row.amount]
           /\ balanceAfter' = [balanceAfter EXCEPT ![r] = balance[row.user] + row.amount]
<1> DEFINE o == call[r].target
           row == [user |-> call[r].user, type |-> "REVERSAL", amount |-> call[r].amount,
                   status |-> "SUCCESS", reverses |-> o]
           failed == [ledger[o] EXCEPT !.status = "FAILED"]
<1>1. /\ o \in Requests /\ ledger[o] # None /\ ledger[o].type \in DebitTypes
      /\ call[r].user = ledger[o].user /\ call[r].amount = ledger[o].amount
      /\ ledger[r] = None
  BY DEF Known, CallsKnown, TargetsKnown, Goto, CommitReversal
<1>2. ledger[o] \in Rows
  BY <1>1 DEF Known, TypeOK
<1>3. row \in Rows
  BY <1>1, <1>2 DEF Rows, RowTypes, CreditTypes, Statuses
<1>4. failed \in Rows
  BY <1>2, StatusChange DEF Statuses
<1>5. /\ ledger' = [ledger EXCEPT ![o] = failed, ![r] = row]
      /\ balance' = [balance EXCEPT ![row.user] = balance[row.user] + row.amount]
      /\ balanceAfter' = [balanceAfter EXCEPT ![r] = balance[row.user] + row.amount]
  BY DEF CommitReversal, NewBalance, ReversedStatus
<1>6. row.type = "REVERSAL" /\ row.user = ledger[o].user /\ row.amount = ledger[o].amount
        /\ row.reverses = o
  BY <1>1
<1> HIDE DEF o, row, failed
<1> QED
  BY <1>1, <1>2, <1>3, <1>4, <1>5, <1>6 DEF failed

\* ... and a confirmation.
LEMMA ConfirmationWrites ==
  ASSUME Known, NEW r \in Requests, CommitConfirmation(r)
  PROVE  \E d \in Requests, row \in Rows :
           /\ ledger[d] \in Rows /\ ledger[d].type = "DEPOSIT"
           /\ row = [ledger[d] EXCEPT !.status = "SUCCESS"]
           /\ d = call[r].target
           /\ ledger' = [ledger EXCEPT ![d] = row]
           /\ balance' = [balance EXCEPT ![row.user] = balance[row.user] + row.amount]
           /\ balanceAfter' = [balanceAfter EXCEPT ![d] = balance[row.user] + row.amount]
<1> DEFINE d == call[r].target
           row == [ledger[d] EXCEPT !.status = "SUCCESS"]
<1>1. /\ d \in Requests /\ ledger[d] # None /\ ledger[d].type = "DEPOSIT"
      /\ call[r].user = ledger[d].user /\ call[r].amount = ledger[d].amount
  BY DEF Known, TargetsKnown, Goto, CommitConfirmation
<1>2. ledger[d] \in Rows
  BY <1>1 DEF Known, TypeOK
<1>3. row \in Rows /\ row.user = ledger[d].user /\ row.amount = ledger[d].amount
  BY <1>2, StatusChange DEF Statuses
<1>4. /\ ledger' = [ledger EXCEPT ![d] = row]
      /\ balance' = [balance EXCEPT ![row.user] = balance[row.user] + row.amount]
      /\ balanceAfter' = [balanceAfter EXCEPT ![d] = balance[row.user] + row.amount]
  <2>1. ledger' = [ledger EXCEPT ![d] = row]
    BY DEF CommitConfirmation
  <2>2. /\ balance' = [balance EXCEPT ![call[r].user] = balance[call[r].user] + call[r].amount]
        /\ balanceAfter' = [balanceAfter EXCEPT ![d] = balance[call[r].user] + call[r].amount]
    BY DEF CommitConfirmation, NewBalance, ConfirmedBalance
  <2> QED
    BY <1>1, <1>3, <2>1, <2>2
<1> HIDE DEF row
<1> QED
  BY <1>1, <1>2, <1>3, <1>4 DEF row

\* A mark rewrites one outbound debit and no amount.
LEMMA MarkWrites ==
  ASSUME Known, NEW r \in Requests, CommitMark(r)
  PROVE  \E o \in Requests, s \in {"SUCCESS", "PROCESSING", "PENDING"}, row \in Rows :
           /\ ledger[o] \in Rows /\ ledger[o].type \in OutboundDebits /\ ledger[o].status = "PENDING"
           /\ row = [ledger[o] EXCEPT !.status = s]
           /\ ledger' = [ledger EXCEPT ![o] = row]
           /\ UNCHANGED <<balance, balanceAfter>>
<1> DEFINE o == call[r].target
<1>1. PICK s \in {"SUCCESS", "PROCESSING", "PENDING"} : ledger' = [ledger EXCEPT ![o].status = s]
  BY DEF CommitMark
<1>2. /\ o \in Requests /\ ledger[o] \in Rows
      /\ ledger[o].type \in OutboundDebits /\ ledger[o].status = "PENDING"
  BY DEF CommitMark, TargetsKnown, Goto, Known, TypeOK
<1>3. [ledger[o] EXCEPT !.status = s] \in Rows
  BY <1>2, StatusChange DEF Statuses
<1>4. UNCHANGED <<balance, balanceAfter>>
  BY DEF CommitMark
<1> HIDE DEF o
<1> QED
  BY <1>1, <1>2, <1>3, <1>4

\* Every step of the wallet writes one of these, or nothing.
LEMMA StepWrites ==
  ASSUME Known, [Next]_vars
  PROVE  \/ Quiet
         \/ \E r \in Requests : \/ CommitPosting(r) \/ InsertDeposit(r)
                                \/ CommitReversal(r) \/ CommitConfirmation(r)
                                \/ CommitMark(r)
<1>1. UNCHANGED vars \/ Crash => Quiet
  BY DEF Quiet, Crash, vars, book
<1> QED
  BY <1>1, QuietSteps DEF Next, Advance

-----------------------------------------------------------------------------

\* A reversal refers to a row that is there.
ReversesRow == \A q \in Requests :
  ledger[q] # None /\ ledger[q].reverses # None =>
    ledger[q].reverses \in Requests /\ ledger[ledger[q].reverses] # None

\* A debit is FAILED exactly when a REVERSAL row gave its money back, however
\* many reversals, confirmations and marks overlap (reverseTransaction writes
\* both in one transaction, markTransactionStatus is its own debit's only caller).
THEOREM FailedMeansReversed == Spec => []FailedIffReversed
<1> USE DEF FailedIffReversed, ReversesRow
<1>1. Init => FailedIffReversed /\ ReversesRow
  BY DEF Init
<1>2. Known /\ FailedIffReversed /\ ReversesRow /\ [Next]_vars => FailedIffReversed' /\ ReversesRow'
  <2> SUFFICES ASSUME Known, FailedIffReversed, ReversesRow, [Next]_vars
               PROVE  FailedIffReversed' /\ ReversesRow'
    OBVIOUS
  <2>typed. ledger \in [Requests -> Rows \cup {None}]
    BY DEF Known, TypeOK
  <2>1. ASSUME NEW r \in Requests, CommitPosting(r) \/ InsertDeposit(r)
        PROVE  FailedIffReversed' /\ ReversesRow'
    <3>1. PICK row \in Rows : /\ row.status # "FAILED" /\ row.reverses = None
                              /\ ledger[r] = None
                              /\ ledger' = [ledger EXCEPT ![r] = row]
      BY <2>1, PostingWrites, DepositWrites
    <3> QED
      BY <2>typed, <3>1
  <2>2. ASSUME NEW r \in Requests, CommitReversal(r) PROVE FailedIffReversed' /\ ReversesRow'
    <3>1. PICK o \in Requests, row \in Rows, failed \in Rows :
           /\ ledger[r] = None /\ ledger[o] \in Rows /\ ledger[o].type \in DebitTypes
           /\ row.type = "REVERSAL" /\ row.user = ledger[o].user /\ row.amount = ledger[o].amount
           /\ row.reverses = o
           /\ failed = [ledger[o] EXCEPT !.status = "FAILED"]
           /\ o # r
           /\ ledger' = [ledger EXCEPT ![o] = failed, ![r] = row]
           /\ balance' = [balance EXCEPT ![row.user] = balance[row.user] + row.amount]
           /\ balanceAfter' = [balanceAfter EXCEPT ![r] = balance[row.user] + row.amount]
      BY <2>2, ReversalWrites
    <3>2. failed.status = "FAILED" /\ failed.reverses = ledger[o].reverses /\ failed.type = ledger[o].type
      BY <3>1, StatusChange DEF Statuses
    <3>3. row.type \notin DebitTypes
      BY <3>1 DEF DebitTypes, SettledDebits, OutboundDebits
    <3>4. /\ ledger'[o] = failed /\ ledger'[r] = row
          /\ \A q \in Requests : q # o /\ q # r => ledger'[q] = ledger[q]
      BY <2>typed, <3>1
    <3>5. failed # None /\ row # None
      OBVIOUS
    <3> HIDE DEF FailedIffReversed, ReversesRow
    <3>6. ReversesRow'
      <4> SUFFICES ASSUME NEW q \in Requests, ledger'[q] # None, ledger'[q].reverses # None
                   PROVE  ledger'[q].reverses \in Requests /\ ledger'[ledger'[q].reverses] # None
        BY DEF ReversesRow
      <4>1. \A p \in Requests : ledger[p] # None => ledger'[p] # None
        BY <3>4, <3>5
      <4>2. CASE q = r
        BY <3>1, <3>4, <3>5, <4>2, ZenonT(30)
      <4>3. CASE q # r
        <5>1. ledger[q] # None /\ ledger'[q].reverses = ledger[q].reverses
          BY <3>1, <3>2, <3>4, <4>3
        <5> QED
          BY <4>1, <5>1 DEF ReversesRow
      <4> QED
        BY <4>2, <4>3
    <3>7. ASSUME NEW p \in Requests, ledger'[p] # None, ledger'[p].type \in DebitTypes
          PROVE  ledger'[p].status = "FAILED"
                   <=> \E q \in Requests : ledger'[q] # None /\ ledger'[q].reverses = p
      <4>1. CASE p = o
        BY <3>1, <3>2, <3>4, <3>5, <4>1
      <4>2. CASE p # o
        <5>1. p # r /\ ledger'[p] = ledger[p]
          BY <3>3, <3>4, <3>7, <4>2
        <5>2. \A q \in Requests : (ledger'[q] # None /\ ledger'[q].reverses = p)
                                    <=> (ledger[q] # None /\ ledger[q].reverses = p)
          <6> SUFFICES ASSUME NEW q \in Requests
                       PROVE  (ledger'[q] # None /\ ledger'[q].reverses = p)
                                <=> (ledger[q] # None /\ ledger[q].reverses = p)
            OBVIOUS
          <6>1. CASE q = r
            BY <3>1, <3>4, <4>2, <6>1
          <6>2. CASE q = o
            BY <2>typed, <3>1, <3>2, <3>4, <3>5, <6>2
          <6> QED
            BY <3>4, <6>1, <6>2
        <5> QED
          BY <3>7, <5>1, <5>2 DEF FailedIffReversed
      <4> QED
        BY <4>1, <4>2
    <3> QED
      BY <3>6, <3>7 DEF FailedIffReversed
  <2>3. ASSUME NEW r \in Requests, CommitConfirmation(r) PROVE FailedIffReversed' /\ ReversesRow'
    <3>1. PICK d \in Requests, row \in Rows :
                /\ ledger[d] \in Rows /\ ledger[d].type = "DEPOSIT"
                /\ row = [ledger[d] EXCEPT !.status = "SUCCESS"]
                /\ ledger' = [ledger EXCEPT ![d] = row]
      BY ONLY Known, <2>3, ConfirmationWrites, RowsAssumption, WalletAssumption
    <3>2. row.type = "DEPOSIT" /\ row.reverses = ledger[d].reverses /\ row # None /\ ledger[d] # None
      BY <3>1, StatusChange DEF Statuses
    <3>3. "DEPOSIT" \notin DebitTypes
      BY DEF DebitTypes, SettledDebits, OutboundDebits
    <3>4. ledger'[d] = row /\ \A q \in Requests : q # d => ledger'[q] = ledger[q]
      BY <2>typed, <3>1
    <3> QED
      BY <2>typed, <3>2, <3>3, <3>4
  <2>4. ASSUME NEW r \in Requests, CommitMark(r)
        PROVE  FailedIffReversed' /\ ReversesRow'
    <3>1. PICK o \in Requests, s \in {"SUCCESS", "PROCESSING", "PENDING"}, row \in Rows :
                /\ ledger[o] \in Rows /\ ledger[o].status = "PENDING"
                /\ row = [ledger[o] EXCEPT !.status = s]
                /\ ledger' = [ledger EXCEPT ![o] = row]
      BY <2>4, MarkWrites
    <3>2. /\ row.type = ledger[o].type /\ row.reverses = ledger[o].reverses /\ row.status = s
          /\ row # None /\ ledger[o] # None
      BY <3>1, StatusChange DEF Statuses
    <3>4. ledger'[o] = row /\ \A q \in Requests : q # o => ledger'[q] = ledger[q]
      BY <2>typed, <3>1
    <3> QED
      BY <2>typed, <3>1, <3>2, <3>4
  <2>5. Quiet => FailedIffReversed' /\ ReversesRow'
    BY DEF Quiet, book
  <2> QED
    BY <2>1, <2>2, <2>3, <2>4, <2>5, StepWrites
<1> QED
  BY <1>1, <1>2, KnownHolds, PTL DEF Spec

-----------------------------------------------------------------------------

\* A statement line shows every balance: some row that moved money carries the
\* current balance, for any overlap (balanceAfter is computed from the balance
\* the UPDATE returned, in the same transaction).
THEOREM StatementShows == Spec => []StatementShowsBalance
<1> USE DEF StatementShowsBalance, RowsOf
<1>1. Init => StatementShowsBalance
  BY DEF Init
<1>2. Known /\ StatementShowsBalance /\ [Next]_vars => StatementShowsBalance'
  <2> SUFFICES ASSUME Known, StatementShowsBalance, [Next]_vars PROVE StatementShowsBalance'
    OBVIOUS
  <2>typed. /\ ledger \in [Requests -> Rows \cup {None}]
        /\ balance \in [Users -> Int]
        /\ balanceAfter \in [Requests -> Int]
    BY DEF Known, TypeOK
  <2>owner. \A row \in Rows : row.user \in Users /\ row # None
    BY DEF Rows
  <2>1. ASSUME NEW r \in Requests, CommitPosting(r) PROVE StatementShowsBalance'
    <3>1. PICK row \in Rows :
           /\ row.type # "DEPOSIT" /\ ledger[r] = None
           /\ ledger' = [ledger EXCEPT ![r] = row]
           /\ balance' = [balance EXCEPT ![row.user] = balance[row.user] + Effect(row)]
           /\ balanceAfter' = [balanceAfter EXCEPT ![r] = balance[row.user] + Effect(row)]
      BY <2>1, PostingWrites
    <3>2. Effect(row) # 0
      BY <3>1, EffectNotZero
    <3> QED
      BY <2>typed, <2>owner, <3>1, <3>2
  <2>2. ASSUME NEW r \in Requests, InsertDeposit(r) PROVE StatementShowsBalance'
    BY <2>typed, <2>owner, <2>2, DepositWrites
  <2>3. ASSUME NEW r \in Requests, CommitReversal(r) PROVE StatementShowsBalance'
    <3>1. PICK o \in Requests, row \in Rows, failed \in Rows :
           /\ ledger[r] = None /\ ledger[o] \in Rows
           /\ row.type = "REVERSAL" /\ row.user = ledger[o].user /\ row.amount = ledger[o].amount
           /\ failed = [ledger[o] EXCEPT !.status = "FAILED"]
           /\ o # r
           /\ ledger' = [ledger EXCEPT ![o] = failed, ![r] = row]
           /\ balance' = [balance EXCEPT ![row.user] = balance[row.user] + row.amount]
           /\ balanceAfter' = [balanceAfter EXCEPT ![r] = balance[row.user] + row.amount]
      BY <2>3, ReversalWrites
    <3>2. Effect(row) # 0
      BY <3>1, EffectNotZero
    <3>3. failed.user = ledger[o].user
      BY <3>1, StatusChange DEF Statuses
    <3> QED
      BY <2>typed, <2>owner, <3>1, <3>2, <3>3
  <2>4. ASSUME NEW r \in Requests, CommitConfirmation(r) PROVE StatementShowsBalance'
    <3>1. PICK d \in Requests, row \in Rows :
           /\ ledger[d] \in Rows
           /\ row = [ledger[d] EXCEPT !.status = "SUCCESS"]
           /\ ledger' = [ledger EXCEPT ![d] = row]
           /\ balance' = [balance EXCEPT ![row.user] = balance[row.user] + row.amount]
           /\ balanceAfter' = [balanceAfter EXCEPT ![d] = balance[row.user] + row.amount]
      BY <2>4, ConfirmationWrites
    <3>2. row.status = "SUCCESS" /\ row.user = ledger[d].user
      BY <3>1, StatusChange DEF Statuses
    <3>3. Effect(row) # 0
      BY <3>2, EffectNotZero
    <3> QED
      BY <2>typed, <2>owner, <3>1, <3>2, <3>3
  <2>5. ASSUME NEW r \in Requests, CommitMark(r)
        PROVE  StatementShowsBalance'
    <3>1. PICK o \in Requests, s \in {"SUCCESS", "PROCESSING", "PENDING"}, row \in Rows :
           /\ ledger[o] \in Rows /\ ledger[o].type \in OutboundDebits
           /\ row = [ledger[o] EXCEPT !.status = s]
           /\ ledger' = [ledger EXCEPT ![o] = row]
           /\ UNCHANGED <<balance, balanceAfter>>
      BY <2>5, MarkWrites
    <3>2. row.type = ledger[o].type /\ row.user = ledger[o].user
      BY <3>1, StatusChange DEF Statuses
    <3>3. Effect(row) # 0
      BY <3>1, <3>2, EffectNotZero DEF OutboundDebits
    <3> QED
      BY <2>typed, <2>owner, <3>1, <3>2, <3>3
  <2>6. Quiet => StatementShowsBalance'
    BY DEF Quiet, book
  <2> QED
    BY <2>1, <2>2, <2>3, <2>4, <2>5, <2>6, StepWrites
<1> QED
  BY <1>1, <1>2, KnownHolds, PTL DEF Spec

-----------------------------------------------------------------------------

\* The effects of u's rows, the function whose sum Statement is.
EffectsOf(book_, u) == [r \in RowsOf(book_, u) |-> Effect(book_[r])]

\* A statement is an amount of money.
LEMMA StatementType ==
  ASSUME IsFiniteSet(Requests), NEW old \in [Requests -> Rows \cup {None}], NEW u \in Users
  PROVE  Statement(old, u) \in Int
<1>1. IsFiniteSet(RowsOf(old, u))
  BY FS_Subset DEF RowsOf
<1>2. \A q \in RowsOf(old, u) : EffectsOf(old, u)[q] \in Int
  BY EffectOfRow DEF EffectsOf, RowsOf
<1> QED
  BY <1>1, <1>2, SumType DEF Statement, EffectsOf

\* Between two ledgers v's statement moves by d and nobody else's moves.
Adds(old, new, v, d) ==
  \A u \in Users : Statement(new, u) = Statement(old, u) + (IF u = v THEN d ELSE 0)

\* A row that is inserted adds its effect to its owner's statement.
LEMMA StatementInsert ==
  ASSUME IsFiniteSet(Requests), NEW old \in [Requests -> Rows \cup {None}],
         NEW r \in Requests, old[r] = None, NEW row \in Rows,
         NEW new, new = [old EXCEPT ![r] = row]
  PROVE  Adds(old, new, row.user, Effect(row))
<1> SUFFICES ASSUME NEW u \in Users
             PROVE  Statement(new, u) = Statement(old, u) + (IF u = row.user THEN Effect(row) ELSE 0)
  BY DEF Adds
<1> DEFINE S == RowsOf(old, u)
           f == EffectsOf(old, u)
           g == EffectsOf(new, u)
<1>1. /\ Statement(old, u) = SumFunctionOnSet(f, S)
      /\ Statement(new, u) = SumFunctionOnSet(g, RowsOf(new, u))
  BY DEF Statement, EffectsOf
<1>2. S \in SUBSET Requests /\ IsFiniteSet(S) /\ r \notin S
  BY FS_Subset DEF RowsOf
<1>3. RowsOf(new, u) = IF u = row.user THEN S \cup {r} ELSE S
  BY DEF RowsOf
<1>4. \A q \in S : f[q] = Effect(old[q]) /\ old[q] \in Rows /\ new[q] = old[q]
  BY <1>2 DEF EffectsOf, RowsOf
<1>5. \A q \in RowsOf(new, u) : g[q] = Effect(new[q]) /\ new[q] \in Rows
  BY DEF EffectsOf, RowsOf
<1> HIDE DEF S, f, g
<1>6. \A q \in S : f[q] = g[q]
  BY <1>3, <1>4, <1>5
<1>7. u = row.user => g[r] = Effect(row)
  BY <1>3, <1>5
<1>8. \A q \in RowsOf(new, u) : g[q] \in Int
  BY <1>5, EffectOfRow
<1>9. Statement(old, u) \in Int /\ Effect(row) \in Int
  BY StatementType, EffectOfRow
<1>10. CASE u = row.user
  <2>1. \A q \in S \cup {r} : g[q] \in Int
    BY <1>3, <1>8, <1>10
  <2>2. SumFunctionOnSet(g, S \cup {r}) = SumFunctionOnSet(f, S) + g[r]
    BY <1>2, <1>6, <2>1, SumWith
  <2> QED
    BY <1>9, <1>1, <1>3, <1>7, <1>10, <2>2
<1>11. CASE u # row.user
  <2>1. SumFunctionOnSet(f, S) = SumFunctionOnSet(g, S)
    BY <1>2, <1>6, SumSame
  <2> QED
    BY <1>9, <1>1, <1>3, <1>11, <2>1
<1> QED
  BY <1>10, <1>11

\* A row that is rewritten moves its owner's statement by the difference.
LEMMA StatementChange ==
  ASSUME IsFiniteSet(Requests), NEW old \in [Requests -> Rows \cup {None}],
         NEW o \in Requests, old[o] \in Rows, NEW row \in Rows, row.user = old[o].user,
         NEW new, new = [old EXCEPT ![o] = row]
  PROVE  Adds(old, new, row.user, Effect(row) - Effect(old[o]))
<1> SUFFICES ASSUME NEW u \in Users
             PROVE  Statement(new, u) =
                      Statement(old, u) + (IF u = row.user THEN Effect(row) - Effect(old[o]) ELSE 0)
  BY DEF Adds
<1> DEFINE S == RowsOf(old, u)
           f == EffectsOf(old, u)
           g == EffectsOf(new, u)
<1>1. /\ Statement(old, u) = SumFunctionOnSet(f, S)
      /\ Statement(new, u) = SumFunctionOnSet(g, RowsOf(new, u))
  BY DEF Statement, EffectsOf
<1>2. S \in SUBSET Requests /\ IsFiniteSet(S)
  BY FS_Subset DEF RowsOf
<1>3. RowsOf(new, u) = S
  BY DEF RowsOf
<1>4. \A q \in S : f[q] = Effect(old[q]) /\ old[q] \in Rows
  BY DEF EffectsOf, RowsOf
<1>5. \A q \in S : g[q] = Effect(new[q]) /\ new[q] \in Rows
  BY <1>3 DEF EffectsOf, RowsOf
<1>6. \A q \in S \ {o} : f[q] = g[q]
  BY <1>2, <1>4, <1>5
<1>7. u = row.user <=> o \in S
  BY DEF RowsOf
<1> HIDE DEF S, f, g
<1>8. \A q \in S : f[q] \in Int /\ g[q] \in Int
  BY <1>4, <1>5, EffectOfRow
<1>9. o \in S => g[o] = Effect(row) /\ f[o] = Effect(old[o])
  BY <1>4, <1>5
<1>10. Statement(old, u) \in Int /\ Effect(row) \in Int /\ Effect(old[o]) \in Int
  BY StatementType, EffectOfRow
<1>11. CASE o \in S
  <2>1. SumFunctionOnSet(g, S) = SumFunctionOnSet(f, S) + g[o] - f[o]
    BY <1>2, <1>6, <1>8, <1>11, SumChanged
  <2> QED
    BY <1>10, <1>1, <1>3, <1>7, <1>9, <1>11, <2>1
<1>12. CASE o \notin S
  <2>1. SumFunctionOnSet(f, S) = SumFunctionOnSet(g, S)
    BY <1>2, <1>6, <1>12, SumSame
  <2> QED
    BY <1>10, <1>1, <1>3, <1>7, <1>12, <2>1
<1> QED
  BY <1>11, <1>12

\* If a step adds the same to u's balance and to u's statement they still agree.
LEMMA MovesTogether ==
  ASSUME Known, LedgerBalances, IsFiniteSet(Requests), NEW v \in Users, NEW d \in Int,
         balance' = [balance EXCEPT ![v] = balance[v] + d],
         Adds(ledger, ledger', v, d)
  PROVE  LedgerBalances'
<1>1. balance \in [Users -> Int] /\ ledger \in [Requests -> Rows \cup {None}]
  BY DEF Known, TypeOK
<1>2. ASSUME NEW u \in Users PROVE balance'[u] = Statement(ledger', u)
  <2>1. balance[u] = Statement(ledger, u) /\ balance[u] \in Int
    BY <1>1 DEF LedgerBalances
  <2> QED
    BY <1>1, <2>1 DEF Adds
<1> QED
  BY <1>2 DEF LedgerBalances

\* The balance column is the sum of what the rows say, after lost races,
\* roll-backs and crashes (every transaction of WalletService writes both), if
\* no two confirmations of one reference overlap.
THEOREM BalancesMatchLedger ==
  ASSUME MaxConfirms <= 1, IsFiniteSet(Requests)
  PROVE  Spec => []LedgerBalances
<1>1. Init => LedgerBalances
  <2> SUFFICES ASSUME Init, NEW u \in Users PROVE Statement(ledger, u) = 0
    BY DEF Init, LedgerBalances
  <2>1. RowsOf(ledger, u) = {}
    BY DEF Init, RowsOf
  <2> QED
    BY <2>1, FS_EmptySet, SumUnfolds DEF Statement
<1>2. Known /\ ConfirmsApart /\ LedgerBalances /\ [Next]_vars => LedgerBalances'
  <2> SUFFICES ASSUME Known, ConfirmsApart, LedgerBalances, [Next]_vars PROVE LedgerBalances'
    OBVIOUS
  <2>typed. /\ ledger \in [Requests -> Rows \cup {None}]
        /\ balance \in [Users -> Int]
    BY DEF Known, TypeOK
  <2>owner. \A row \in Rows : row.user \in Users
    BY DEF Rows
  <2>1. ASSUME NEW r \in Requests, CommitPosting(r) PROVE LedgerBalances'
    <3>1. PICK row \in Rows :
           /\ row.type # "DEPOSIT" /\ row.status # "FAILED" /\ row.reverses = None
           /\ ledger[r] = None
           /\ ledger' = [ledger EXCEPT ![r] = row]
           /\ balance' = [balance EXCEPT ![row.user] = balance[row.user] + Effect(row)]
           /\ balanceAfter' = [balanceAfter EXCEPT ![r] = balance[row.user] + Effect(row)]
      BY <2>1, PostingWrites
    <3>2. Adds(ledger, ledger', row.user, Effect(row))
      BY <2>typed, <3>1, StatementInsert
    <3> QED
      BY <2>owner, <3>1, <3>2, EffectOfRow, MovesTogether
  <2>2. ASSUME NEW r \in Requests, InsertDeposit(r) PROVE LedgerBalances'
    <3>1. PICK row \in Rows :
           /\ row.type = "DEPOSIT" /\ row.status = "PENDING" /\ row.reverses = None
           /\ ledger[r] = None
           /\ ledger' = [ledger EXCEPT ![r] = row]
           /\ UNCHANGED balance
           /\ balanceAfter' = [balanceAfter EXCEPT ![r] = found[r]]
      BY <2>2, DepositWrites
    <3>2. Adds(ledger, ledger', row.user, Effect(row))
      BY <2>typed, <3>1, StatementInsert
    <3>3. Effect(row) = 0
      BY <3>1, EffectOfRow
    <3>4. \A u \in Users : Statement(ledger', u) = Statement(ledger, u)
      BY <2>typed, <3>2, <3>3, StatementType DEF Adds
    <3> QED
      BY <3>1, <3>4 DEF LedgerBalances
  <2>3. ASSUME NEW r \in Requests, CommitReversal(r) PROVE LedgerBalances'
    <3>1. PICK o \in Requests, row \in Rows, failed \in Rows :
           /\ ledger[r] = None /\ ledger[o] \in Rows /\ ledger[o].type \in DebitTypes
           /\ row.type = "REVERSAL" /\ row.user = ledger[o].user /\ row.amount = ledger[o].amount
           /\ row.reverses = o
           /\ failed = [ledger[o] EXCEPT !.status = "FAILED"]
           /\ o # r
           /\ ledger' = [ledger EXCEPT ![o] = failed, ![r] = row]
           /\ balance' = [balance EXCEPT ![row.user] = balance[row.user] + row.amount]
           /\ balanceAfter' = [balanceAfter EXCEPT ![r] = balance[row.user] + row.amount]
      BY <2>3, ReversalWrites
    <3> DEFINE mid == [ledger EXCEPT ![o] = failed]
    <3>2. failed.user = ledger[o].user /\ failed.type = ledger[o].type /\ failed.amount = ledger[o].amount
      BY <3>1, StatusChange DEF Statuses
    <3>3. Effect(failed) = Effect(ledger[o]) /\ Effect(failed) \in Int
      BY <3>1, <3>2, EffectOfRow
    <3>4. Effect(row) = row.amount
      BY <3>1, EffectOfRow DEF CreditTypes
    <3>5. mid \in [Requests -> Rows \cup {None}] /\ mid[r] = None /\ ledger' = [mid EXCEPT ![r] = row]
      BY <2>typed, <3>1
    <3> HIDE DEF mid
    <3>mid. mid = [ledger EXCEPT ![o] = failed]
      BY DEF mid
    <3>6. Adds(ledger, mid, failed.user, Effect(failed) - Effect(ledger[o]))
      BY <2>typed, <3>1, <3>2, <3>mid, StatementChange
    <3>7. \A u \in Users : Statement(ledger, u) \in Int
      BY <2>typed, StatementType
    <3>8. \A u \in Users : Statement(mid, u) = Statement(ledger, u)
      BY <3>3, <3>6, <3>7 DEF Adds
    <3>9. Adds(mid, ledger', row.user, Effect(row))
      BY <3>5, StatementInsert
    <3>10. Adds(ledger, ledger', row.user, row.amount) /\ row.amount \in Int
      BY <3>4, <3>8, <3>9, EffectOfRow DEF Adds
    <3> QED
      BY <2>owner, <3>1, <3>10, MovesTogether
  <2>4. ASSUME NEW r \in Requests, CommitConfirmation(r) PROVE LedgerBalances'
    <3>1. PICK d \in Requests, row \in Rows :
           /\ ledger[d] \in Rows /\ ledger[d].type = "DEPOSIT"
           /\ row = [ledger[d] EXCEPT !.status = "SUCCESS"]
           /\ d = call[r].target
           /\ ledger' = [ledger EXCEPT ![d] = row]
           /\ balance' = [balance EXCEPT ![row.user] = balance[row.user] + row.amount]
           /\ balanceAfter' = [balanceAfter EXCEPT ![d] = balance[row.user] + row.amount]
      BY <2>4, ConfirmationWrites
    <3>2. row.user = ledger[d].user /\ row.type = "DEPOSIT" /\ row.status = "SUCCESS"
      BY <3>1, StatusChange DEF Statuses
    <3>3. ledger[d].status = "PENDING"
      BY <2>4, <3>1 DEF CommitConfirmation, Goto, ConfirmsApart
    <3>4. Effect(ledger[d]) = 0 /\ Effect(row) = row.amount
      BY <3>1, <3>2, <3>3 DEF Effect, DebitTypes, SettledDebits, OutboundDebits
    <3>5. Adds(ledger, ledger', row.user, Effect(row) - Effect(ledger[d]))
      BY <2>typed, <3>1, <3>2, StatementChange
    <3>6. row.amount \in Int
      BY DEF Rows
    <3>7. Adds(ledger, ledger', row.user, row.amount)
      BY <3>4, <3>5, <3>6
    <3> QED
      BY <2>owner, <3>1, <3>6, <3>7, MovesTogether
  <2>5. ASSUME NEW r \in Requests, CommitMark(r)
        PROVE  LedgerBalances'
    <3>1. PICK o \in Requests, s \in {"SUCCESS", "PROCESSING", "PENDING"}, row \in Rows :
           /\ ledger[o] \in Rows /\ ledger[o].type \in OutboundDebits /\ ledger[o].status = "PENDING"
           /\ row = [ledger[o] EXCEPT !.status = s]
           /\ ledger' = [ledger EXCEPT ![o] = row]
           /\ UNCHANGED <<balance, balanceAfter>>
      BY <2>5, MarkWrites
    <3>2. row.type = ledger[o].type /\ row.user = ledger[o].user /\ row.amount = ledger[o].amount
      BY <3>1, StatusChange DEF Statuses
    <3>3. Effect(row) = Effect(ledger[o]) /\ Effect(row) \in Int
      BY <3>1, <3>2, EffectOfRow DEF DebitTypes
    <3>4. Adds(ledger, ledger', row.user, Effect(row) - Effect(ledger[o]))
      BY <2>typed, <3>1, <3>2, StatementChange
    <3>5. \A u \in Users : Statement(ledger', u) = Statement(ledger, u)
      BY <2>typed, <3>3, <3>4, StatementType DEF Adds
    <3> QED
      BY <3>1, <3>5 DEF LedgerBalances
  <2>6. Quiet => LedgerBalances'
    BY DEF Quiet, book, LedgerBalances
  <2> QED
    BY <2>1, <2>2, <2>3, <2>4, <2>5, <2>6, StepWrites
<1> QED
  BY <1>1, <1>2, KnownHolds, ConfirmsStayApart, PTL DEF Spec
=============================================================================
