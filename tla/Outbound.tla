------------------------------ MODULE Outbound ------------------------------
(***************************************************************************)
(* Money that leaves one user's wallet for another company: withdrawals to *)
(* a bank (PaymentsService.initiateWithdrawal, through Paystack), bill     *)
(* purchases (BillsService, through VTpass), and the user's KYC row, which *)
(* says where a withdrawal goes and which withdrawals write too            *)
(* (UsersService).                                                         *)
(*                                                                         *)
(* A request is one withdrawal or purchase, a desk one KYC handler; one    *)
(* action is what runs between two awaits.  The wallet calls are atomic,   *)
(* as Wallet shows.  Saving the KYC entity reads the row again and then    *)
(* writes the columns in which the two differ, the ones another handler    *)
(* wrote since the first read included.  An external call acts at the      *)
(* provider and gets its answer, or does not, in one step; a crash may     *)
(* follow before the answer is used.                                       *)
(***************************************************************************)
EXTENDS Integers, FiniteSets

CONSTANTS
  Requests,         \* the withdrawals and purchases, each made at most once
  Desks,            \* the KYC handlers that can be in flight at once
  Accounts,         \* bank accounts: account number and bank name together
  NoAccount,        \* no bank details, no recipient code, nobody paid
  Biller,           \* where the money of a purchase goes
  Prices,           \* what airtime and data plans cost
  Threshold,        \* min_withdrawal_amount_ngn
  MaxFunds,         \* bound: the most that is earned in all
  UnclearTransfer,  \* the answers after which Paystack may have done it
  UnclearPurchase,  \* the answers after which VTpass may have done it
  KycRaces,         \* FALSE: a KYC handler runs alone; the code lets it overlap
                    \* with anything, FALSE isolates what holds when it does not
  Faults,           \* TRUE: a database statement may fail once money is reserved
  Crashes           \* TRUE: the server process may die and restart

Answers == {"done", "refused", "serverError", "timeout"}
Where == Accounts \cup {NoAccount}

ASSUME OutboundAssumption ==
  /\ NoAccount \notin Accounts /\ Biller \notin Where
  /\ Requests \cap Desks = {}
  /\ Prices \subseteq Nat \ {0} /\ Threshold \in Nat \ {0} /\ MaxFunds \in Nat
  /\ UnclearTransfer \subseteq Answers \ {"done"}
  /\ UnclearPurchase \subseteq Answers \ {"done"}
  /\ KycRaces \in BOOLEAN /\ Faults \in BOOLEAN /\ Crashes \in BOOLEAN

VARIABLES
  balance,     \* wallets.balance of the user
  earned,      \* what its EARNING and DEPOSIT rows add up to
  debit,       \* the status of each request's WITHDRAWAL or BILL_PURCHASE row
  amount,      \* its amount
  unclear,     \* the requests whose answer did not tell what the provider did
  sent,        \* whom the provider paid for it, NoAccount if nobody
  kyc,         \* the user's KYC row
  change,      \* the bank account in the pending BANK_CHANGE code, or NoAccount
  approved,    \* the accounts on the rows that approveKyc read; what an admin
               \* was shown in the listing before is not modelled
  pc,          \* what each handler does next
  entity,      \* the KYC entity each handler holds
  seen         \* the row its save found, Blank outside a save

vars == <<balance, earned, debit, amount, unclear, sent, kyc, change, approved, pc, entity, seen>>
money == <<balance, earned, debit, amount>>
outside == <<unclear, sent>>
file == <<kyc, change, approved>>

Handlers == Requests \cup Desks
KycStatus == {"none", "pending", "approved", "rejected"}   \* "none": no row
DebitStatus == {"none", "PENDING", "PROCESSING", "SUCCESS", "FAILED"}
Kyc == [status : KycStatus, account : Where, recipient : Where]
Row(s, a, r) == [status |-> s, account |-> a, recipient |-> r]
Blank == Row("none", NoAccount, NoAccount)
Steps == {"new", "findKyc", "reserve", "reservePurchase", "recipient", "saveRecipient",
          "writeRecipient", "transfer", "purchase", "processing", "bought", "reverse",
          "insert", "save", "write", "applyChange", "idle", "done", "hanging", "cutOff"}
Ended == {"new", "idle", "done", "hanging", "cutOff"}

Init ==
  /\ balance = 0 /\ earned = 0
  /\ debit = [r \in Requests |-> "none"]
  /\ amount = [r \in Requests |-> 0]
  /\ unclear = {}
  /\ sent = [r \in Requests |-> NoAccount]
  /\ kyc = Blank
  /\ change = NoAccount
  /\ approved = {}
  /\ pc = [h \in Handlers |-> IF h \in Requests THEN "new" ELSE "idle"]
  /\ entity = [h \in Handlers |-> Blank]
  /\ seen = [h \in Handlers |-> Blank]

\* The next step of a handler, with the entity it holds from then on.
Move(h, here, next, row) ==
  /\ pc[h] = here
  /\ pc' = [pc EXCEPT ![h] = next]
  /\ entity' = [entity EXCEPT ![h] = row]
Take(h, here, next, row) == Move(h, here, next, row) /\ UNCHANGED seen

Goto(h, here, next) == Take(h, here, next, IF next \in Ended THEN Blank ELSE entity[h])

\* A KYC handler and a withdrawal or another KYC handler, one at a time.
Quiet(h) ==
  KycRaces \/ \A g \in Handlers : pc[g] \in Ended \/ (h \in Requests /\ g \in Requests)

\* Errands pay the user; the wallet is credited.
Earn(a) ==
  /\ earned + a <= MaxFunds
  /\ earned' = earned + a
  /\ balance' = balance + a
  /\ UNCHANGED <<debit, amount, outside, file, pc, entity, seen>>

-----------------------------------------------------------------------------
(* kycRepository.save: a SELECT, then an UPDATE of the columns that differ. *)

Compare(h, here, next) ==
  /\ Move(h, here, next, entity[h])
  /\ seen' = [seen EXCEPT ![h] = kyc]
  /\ UNCHANGED <<money, outside, file>>

Column(mine, found, now) == IF mine = found THEN now ELSE mine

Write(h, here, next) ==
  LET e == entity[h]  s == seen[h] IN
  /\ Move(h, here, next, IF next \in Ended THEN Blank ELSE e)
  /\ kyc' = Row(Column(e.status, s.status, kyc.status),
                Column(e.account, s.account, kyc.account),
                Column(e.recipient, s.recipient, kyc.recipient))
  /\ seen' = [seen EXCEPT ![h] = Blank]
  /\ UNCHANGED <<money, outside, change, approved>>

-----------------------------------------------------------------------------
(* Reserving the money.                                                    *)

\* initiateWithdrawal asks for the whole balance it reads here.
Withdraw(r) ==
  /\ Quiet(r)
  /\ Goto(r, "new", "findKyc")
  /\ balance >= Threshold
  /\ amount' = [amount EXCEPT ![r] = balance]
  /\ UNCHANGED <<balance, earned, debit, outside, file>>

\* kyc.status !== APPROVED || !kyc.bankAccountNumber || !kyc.bankName
MayWithdraw(k) == k.status = "approved" /\ k.account # NoAccount

FindKyc(r) ==
  /\ IF MayWithdraw(kyc)
       THEN Take(r, "findKyc", "reserve", kyc)
       ELSE Goto(r, "findKyc", "done")
  /\ UNCHANGED <<money, outside, file>>

\* purchaseAirtime, purchaseData; a data plan that VTpass does not list ends it
Purchase(r, price) ==
  /\ Quiet(r)
  /\ Goto(r, "new", "reservePurchase")
  /\ amount' = [amount EXCEPT ![r] = price]
  /\ UNCHANGED <<balance, earned, debit, outside, file>>

\* WalletService.debit with status PENDING; a balance that no longer covers it
\* rejects the request.
Reserve(r, here, next) ==
  /\ \/ /\ balance >= amount[r]
        /\ Goto(r, here, next)
        /\ balance' = balance - amount[r]
        /\ debit' = [debit EXCEPT ![r] = "PENDING"]
     \/ /\ balance < amount[r]
        /\ Goto(r, here, "done")
        /\ UNCHANGED <<balance, debit>>
  /\ UNCHANGED <<earned, amount, outside, file>>

ReserveWithdrawal(r) ==
  Reserve(r, "reserve", IF entity[r].recipient = NoAccount THEN "recipient" ELSE "transfer")
ReservePurchase(r) == Reserve(r, "reservePurchase", "purchase")

-----------------------------------------------------------------------------
(* Calling the provider.                                                   *)

\* The recipient code Paystack gives stands for the account it was made for.
WithRecipient(k) == Row(k.status, k.account, k.account)

\* The slip of a catch that only throws.
CreateRecipient_Kept(r) ==
  \/ /\ Goto(r, "recipient", "done")
     /\ UNCHANGED <<money, outside, file>>
  \/ /\ Take(r, "recipient", "saveRecipient", WithRecipient(entity[r]))
     /\ UNCHANGED <<money, outside, file>>

\* resolveBankCode finds nothing, or createTransferRecipient throws: reverse.
CreateRecipient(r) ==
  \/ /\ Goto(r, "recipient", "reverse")
     /\ UNCHANGED <<money, outside, file>>
  \/ /\ Take(r, "recipient", "saveRecipient", WithRecipient(entity[r]))
     /\ UNCHANGED <<money, outside, file>>

\* kycRepository.save(kyc): status and bank details go back as they were read.
SaveRecipient(r) == Compare(r, "saveRecipient", "writeRecipient")
WriteRecipient(r) == Write(r, "writeRecipient", "transfer")

\* Its SELECT or its UPDATE throws into the same catch.
SaveRecipientFails(r) ==
  /\ Faults
  /\ \E here \in {"saveRecipient", "writeRecipient"} : Move(r, here, "reverse", entity[r])
  /\ seen' = [seen EXCEPT ![r] = Blank]
  /\ UNCHANGED <<money, outside, file>>

\* The provider has done it, has not, or cannot be told from here.
Call(r, a, mayHaveHappened, to) ==
  /\ unclear' = IF a \in {"serverError", "timeout"} THEN unclear \cup {r} ELSE unclear
  /\ \E who \in {to, NoAccount} :
       /\ a = "done" => who = to
       /\ a \notin mayHaveHappened \cup {"done"} => who = NoAccount
       /\ sent' = [sent EXCEPT ![r] = who]
  /\ UNCHANGED <<money, file>>

\* isDefiniteRejection: a 4xx answer; the rest stays PENDING.
AfterTransfer_AnyError(a) == IF a = "done" THEN "processing" ELSE "reverse"
AfterTransfer(a) ==
  IF a = "done" THEN "processing" ELSE IF a = "refused" THEN "reverse" ELSE "done"

InitiateTransfer(r, a) ==
  /\ Goto(r, "transfer", AfterTransfer(a))
  /\ Call(r, a, UnclearTransfer, entity[r].recipient)

\* settle: no answer at all stays PENDING; any other code or error is final,
\* an error before the call (no credentials) included.
AfterPurchase(a) ==
  IF a = "done" THEN "bought" ELSE IF a = "timeout" THEN "done" ELSE "reverse"

Settle(r, a) ==
  /\ Goto(r, "purchase", AfterPurchase(a))
  /\ Call(r, a, UnclearPurchase, Biller)

\* Neither HTTP client has a timeout: a provider that takes the request and never
\* answers leaves the handler waiting for ever.
CallHangs(r) ==
  \/ /\ Goto(r, "recipient", "hanging")
     /\ UNCHANGED <<money, outside, file>>
  \/ /\ Goto(r, "transfer", "hanging")
     /\ Call(r, "timeout", UnclearTransfer, entity[r].recipient)
  \/ /\ Goto(r, "purchase", "hanging")
     /\ Call(r, "timeout", UnclearPurchase, Biller)

\* WalletService.markTransactionStatus; when it throws the row stays PENDING.
MarkStatus(r, here, status) ==
  /\ \/ Goto(r, here, "done") /\ debit' = [debit EXCEPT ![r] = status]
     \/ Faults /\ Goto(r, here, "cutOff") /\ UNCHANGED debit
  /\ UNCHANGED <<balance, earned, amount, outside, file>>

Paid_Unlisted == "PAID"
Paid == "SUCCESS"
MarkProcessing(r) == MarkStatus(r, "processing", "PROCESSING")
MarkBought(r) == MarkStatus(r, "bought", Paid)

\* WalletService.reverseTransaction; when it throws nothing is retried.
GivenBack_Nothing(r) == 0
GivenBack(r) == amount[r]

Reverse(r) ==
  /\ \/ /\ Goto(r, "reverse", "done")
        /\ balance' = balance + GivenBack(r)
        /\ debit' = [debit EXCEPT ![r] = "FAILED"]
     \/ Faults /\ Goto(r, "reverse", "cutOff") /\ UNCHANGED <<balance, debit>>
  /\ UNCHANGED <<earned, amount, outside, file>>

-----------------------------------------------------------------------------
(* The KYC row.                                                            *)

\* What a desk read of the row, with what it will write into it.
Prepare(d, next, row) ==
  /\ Quiet(d)
  /\ Take(d, "idle", next, row)
  /\ UNCHANGED <<money, outside>>

\* submitKyc, with bank details or without: new ones on an approved row wait
\* for a code, every other edit is saved after the checks with Dojah.
SubmitKyc(d, a) ==
  \/ /\ kyc.status = "approved" /\ a # kyc.account
     /\ Quiet(d) /\ pc[d] = "idle"
     /\ change' = a
     /\ UNCHANGED <<money, outside, kyc, approved, pc, entity, seen>>
  \/ /\ kyc.status = "approved" /\ a = kyc.account
     /\ Prepare(d, "save", kyc)
     /\ UNCHANGED file
  \/ /\ kyc.status \in {"pending", "rejected"}
     /\ Prepare(d, "save", Row("pending", a, kyc.recipient))
     /\ UNCHANGED file
  \/ /\ kyc.status = "none"
     /\ Prepare(d, "insert", Row("pending", a, NoAccount))
     /\ UNCHANGED file

\* The unique index on kyc.userId lets one of two first submissions in.
InsertKyc(d) ==
  /\ Goto(d, "insert", "idle")
  /\ kyc' = IF kyc.status = "none" THEN entity[d] ELSE kyc
  /\ UNCHANGED <<money, outside, change, approved>>

SaveKyc(d) == Compare(d, "save", "write")
WriteKyc(d) == Write(d, "write", "idle")

\* confirmBankChange: the code is used up, then the row is read and saved.
ChangedStatus_Kept == kyc.status
ChangedStatus == "pending"

ConfirmBankChange(d) ==
  /\ change # NoAccount
  /\ Prepare(d, "applyChange", Row("none", change, NoAccount))
  /\ change' = NoAccount
  /\ UNCHANGED <<kyc, approved>>

ApplyChange(d) ==
  /\ Take(d, "applyChange", "save", Row(ChangedStatus, entity[d].account, kyc.recipient))
  /\ UNCHANGED <<money, outside, file>>

\* The code of a bank change expires.
ChangeExpires ==
  /\ change # NoAccount
  /\ change' = NoAccount
  /\ UNCHANGED <<money, outside, kyc, approved, pc, entity, seen>>

ApproveKyc(d) ==
  /\ kyc.status # "none"
  /\ Prepare(d, "save", Row("approved", kyc.account, kyc.recipient))
  /\ approved' = approved \cup ({kyc.account} \cap Accounts)
  /\ UNCHANGED <<kyc, change>>

RejectKyc(d) ==
  /\ kyc.status # "none"
  /\ Prepare(d, "save", Row("rejected", kyc.account, kyc.recipient))
  /\ UNCHANGED file

-----------------------------------------------------------------------------

Crash ==
  /\ Crashes
  /\ \E h \in Handlers : pc[h] \notin Ended
  /\ pc' = [h \in Handlers |->
       IF pc[h] \in Ended THEN pc[h] ELSE IF h \in Requests THEN "cutOff" ELSE "idle"]
  /\ entity' = [h \in Handlers |-> Blank]
  /\ seen' = [h \in Handlers |-> Blank]
  /\ UNCHANGED <<money, outside, file>>

Advance(r) ==
  \/ FindKyc(r)
  \/ ReserveWithdrawal(r)
  \/ ReservePurchase(r)
  \/ CreateRecipient(r)
  \/ SaveRecipient(r) \/ WriteRecipient(r) \/ SaveRecipientFails(r)
  \/ \E a \in Answers : InitiateTransfer(r, a) \/ Settle(r, a)
  \/ CallHangs(r)
  \/ MarkProcessing(r)
  \/ MarkBought(r)
  \/ Reverse(r)

Handle(d) ==
  \/ \E a \in Accounts \cup {kyc.account} : SubmitKyc(d, a)
  \/ InsertKyc(d)
  \/ SaveKyc(d) \/ WriteKyc(d)
  \/ ConfirmBankChange(d)
  \/ ApplyChange(d)
  \/ ApproveKyc(d)
  \/ RejectKyc(d)

Next ==
  \/ \E a \in Prices : Earn(a)
  \/ \E r \in Requests :
       \/ Withdraw(r)
       \/ \E price \in Prices : Purchase(r, price)
       \/ Advance(r)
  \/ \E d \in Desks : Handle(d)
  \/ ChangeExpires
  \/ Crash

Spec == Init /\ [][Next]_vars

\* The event loop goes on and the database answers or fails; a provider answers,
\* fails or hangs, and hanging is a step of the handler.  Nothing obliges a user or
\* an admin to ask for anything.
LiveSpec == Spec /\ \A r \in Requests : WF_vars(Advance(r))

-----------------------------------------------------------------------------

TypeOK ==
  /\ balance \in Nat /\ earned \in Nat
  /\ debit \in [Requests -> DebitStatus]
  /\ amount \in [Requests -> Nat]
  /\ unclear \subseteq Requests
  /\ sent \in [Requests -> Where \cup {Biller}]
  /\ kyc \in Kyc
  /\ change \in Where
  /\ approved \subseteq Accounts
  /\ pc \in [Handlers -> Steps]
  /\ entity \in [Handlers -> Kyc]
  /\ seen \in [Handlers -> Kyc]

\* No withdrawal and no bill is both paid and given back, whatever the provider
\* answers, whenever the server dies and whatever else spends the balance.
NeverPaidAndReturned ==
  \A r \in Requests : sent[r] # NoAccount => debit[r] \in {"PENDING", "PROCESSING", "SUCCESS"}

\* A withdrawal goes only to bank details that stood on the row when an admin
\* approved it, through resubmissions, changes confirmed by code and rejections.
TransfersApproved ==
  \A r \in Requests : sent[r] \in Accounts => sent[r] \in approved

\* Money set aside does not stay so for want of care: only an answer that does
\* not tell or does not come, or a server or database that failed, leaves a debit
\* PENDING.
OnlyUnclearStaysPending ==
  \A r \in Requests :
    debit[r] = "PENDING" ~>
      debit[r] # "PENDING" \/ r \in unclear \/ pc[r] \in {"hanging", "cutOff"}

\* A withdrawal goes to the bank account on file, also after it was changed.
TransfersFollowKyc ==
  [][\A r \in Requests :
       sent'[r] \in Accounts /\ sent'[r] # sent[r] => sent'[r] = kyc.account]_vars

\* Whatever carries it out, a payment keeps the promise of Reservation.
Fate(r) ==
  IF sent[r] # NoAccount THEN "sent"
  ELSE IF debit[r] = "FAILED" THEN "returned"
  ELSE IF debit[r] = "none" THEN "none"
  ELSE "held"
Promise == INSTANCE Reservation WITH
  funds <- balance,
  held <- [r \in Requests |-> IF debit[r] = "none" THEN 0 ELSE amount[r]],
  fate <- [r \in Requests |-> Fate(r)]
KeepsReservation == Promise!Spec
=============================================================================
