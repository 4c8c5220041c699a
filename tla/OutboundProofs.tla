--------------------------- MODULE OutboundProofs ---------------------------
(***************************************************************************)
(* What Outbound keeps for any number of withdrawals, purchases and KYC    *)
(* handlers, any amounts, overlaps, faults and crashes.                    *)
(***************************************************************************)
EXTENDS Outbound, TLAPS

\* How the step a request is at, its debit and the provider fit together.
Stage(r) ==
  /\ pc[r] \in {"new", "findKyc", "reserve", "reservePurchase"} =>
       debit[r] = "none" /\ sent[r] = NoAccount
  /\ pc[r] \in {"recipient", "saveRecipient", "writeRecipient", "transfer", "purchase",
                "reverse"} => debit[r] = "PENDING" /\ sent[r] = NoAccount
  /\ pc[r] \in {"processing", "bought"} => debit[r] = "PENDING" /\ sent[r] # NoAccount
  /\ pc[r] \in {"findKyc", "reserve", "reservePurchase"} => amount[r] > 0
  /\ pc[r] \in {"reserve", "recipient"} => entity[r].account # NoAccount
  /\ pc[r] \in {"saveRecipient", "writeRecipient", "transfer"} =>
       entity[r].recipient # NoAccount
  /\ sent[r] # NoAccount => debit[r] \in {"PENDING", "PROCESSING", "SUCCESS"}

IInv == TypeOK /\ \A r \in Requests : Stage(r)

\* Only answers after which nothing is given back may hide a payment.
AnswersTold ==
  /\ UnclearTransfer \subseteq {"serverError", "timeout"}
  /\ UnclearPurchase \subseteq {"timeout"}

-----------------------------------------------------------------------------

\* A row of three known columns is a KYC row and keeps them.
LEMMA RowShape ==
  ASSUME NEW s \in KycStatus, NEW a \in Where, NEW w \in Where
  PROVE  /\ Row(s, a, w) \in Kyc
         /\ Row(s, a, w).status = s
         /\ Row(s, a, w).account = a
         /\ Row(s, a, w).recipient = w
BY DEF Row, Kyc

\* The columns of a KYC row.
LEMMA KycColumns ==
  ASSUME NEW k \in Kyc
  PROVE  k.status \in KycStatus /\ k.account \in Where /\ k.recipient \in Where
BY DEF Kyc

\* The blank entity.
LEMMA BlankShape == Blank \in Kyc
BY RowShape DEF Blank, KycStatus, Where

\* Moving a handler keeps the handlers well typed.
LEMMA MoveTypes ==
  ASSUME TypeOK, NEW h \in Handlers, NEW here, NEW next \in Steps, NEW row \in Kyc,
         Move(h, here, next, row)
  PROVE  pc' \in [Handlers -> Steps] /\ entity' \in [Handlers -> Kyc]
BY DEF TypeOK, Move

\* So does going on with the entity at hand.
LEMMA GotoTypes ==
  ASSUME TypeOK, NEW h \in Handlers, NEW here, NEW next \in Steps, Goto(h, here, next)
  PROVE  /\ pc' \in [Handlers -> Steps] /\ entity' \in [Handlers -> Kyc]
         /\ seen' \in [Handlers -> Kyc]
<1>1. (IF next \in Ended THEN Blank ELSE entity[h]) \in Kyc
  BY BlankShape DEF TypeOK
<1> QED
  BY <1>1, MoveTypes DEF Goto, Take, TypeOK

\* A save writes a KYC row, whatever mixture of columns it is.
LEMMA WriteTypes ==
  ASSUME TypeOK, NEW h \in Handlers, NEW here, NEW next \in Steps, Write(h, here, next)
  PROVE  TypeOK'
<1>1. /\ entity[h] \in Kyc /\ seen[h] \in Kyc
      /\ (IF next \in Ended THEN Blank ELSE entity[h]) \in Kyc
  BY BlankShape DEF TypeOK
<1>2. pc' \in [Handlers -> Steps] /\ entity' \in [Handlers -> Kyc]
  BY <1>1, MoveTypes DEF Write
<1>3. kyc' \in Kyc
  <2>1. /\ Column(entity[h].status, seen[h].status, kyc.status) \in KycStatus
        /\ Column(entity[h].account, seen[h].account, kyc.account) \in Where
        /\ Column(entity[h].recipient, seen[h].recipient, kyc.recipient) \in Where
    BY <1>1, KycColumns DEF Column, TypeOK
  <2> QED
    BY <2>1, RowShape DEF Write
<1> QED
  BY <1>2, <1>3, BlankShape DEF Write, TypeOK, money, outside

\* A comparison keeps the types.
LEMMA CompareTypes ==
  ASSUME TypeOK, NEW h \in Handlers, NEW here, NEW next \in Steps, Compare(h, here, next)
  PROVE  TypeOK'
<1>1. entity[h] \in Kyc
  BY DEF TypeOK
<1> QED
  BY <1>1, MoveTypes DEF Compare, TypeOK, money, outside, file

\* Preparing a KYC write keeps the handlers well typed.
LEMMA PrepareTypes ==
  ASSUME TypeOK, NEW d \in Desks, NEW next \in Steps, NEW row \in Kyc, Prepare(d, next, row)
  PROVE  /\ pc' \in [Handlers -> Steps] /\ entity' \in [Handlers -> Kyc]
         /\ UNCHANGED <<seen, money, outside>>
BY MoveTypes DEF Prepare, Take, Handlers

\* A call without an answer ends its request and pays at most one other.
LEMMA HangingCall ==
  ASSUME TypeOK, NEW r \in Requests, CallHangs(r)
  PROVE  /\ pc[r] \in {"recipient", "transfer", "purchase"}
         /\ pc' = [pc EXCEPT ![r] = "hanging"] /\ pc' \in [Handlers -> Steps]
         /\ entity' = [entity EXCEPT ![r] = Blank] /\ entity' \in [Handlers -> Kyc]
         /\ UNCHANGED <<balance, earned, debit, amount, kyc, change, approved, seen>>
         /\ \/ sent' = sent
            \/ pc[r] = "transfer" /\ sent' = [sent EXCEPT ![r] = entity[r].recipient]
            \/ pc[r] = "purchase" /\ sent' = [sent EXCEPT ![r] = Biller]
            \/ sent' = [sent EXCEPT ![r] = NoAccount]
         /\ sent' \in [Requests -> Where \cup {Biller}]
         /\ unclear \subseteq unclear' /\ unclear' \subseteq Requests
<1> USE DEF money, outside, file
<1>1. r \in Handlers /\ "hanging" \in Steps /\ entity[r].recipient \in Where
  BY KycColumns DEF Handlers, Steps, TypeOK
<1>2. \E here \in {"recipient", "transfer", "purchase"} : Goto(r, here, "hanging")
  BY DEF CallHangs
<1>3. /\ pc[r] \in {"recipient", "transfer", "purchase"}
      /\ pc' = [pc EXCEPT ![r] = "hanging"] /\ pc' \in [Handlers -> Steps]
      /\ entity' = [entity EXCEPT ![r] = Blank] /\ entity' \in [Handlers -> Kyc]
  BY <1>1, <1>2, GotoTypes DEF Goto, Take, Move, Ended
<1>4. UNCHANGED <<balance, earned, debit, amount, kyc, change, approved, seen>>
  BY DEF CallHangs, Call, Goto, Take
<1>5. \/ UNCHANGED <<unclear, sent>>
      \/ /\ pc[r] = "transfer" /\ unclear' = unclear \cup {r}
         /\ \E who \in {entity[r].recipient, NoAccount} : sent' = [sent EXCEPT ![r] = who]
      \/ /\ pc[r] = "purchase" /\ unclear' = unclear \cup {r}
         /\ \E who \in {Biller, NoAccount} : sent' = [sent EXCEPT ![r] = who]
  BY DEF CallHangs, Call, Goto, Take, Move
<1>6. unclear \subseteq unclear' /\ unclear' \subseteq Requests
  BY <1>5 DEF TypeOK
<1>7. sent' \in [Requests -> Where \cup {Biller}]
  BY <1>1, <1>5 DEF TypeOK, Where
<1>8. \/ sent' = sent
      \/ pc[r] = "transfer" /\ sent' = [sent EXCEPT ![r] = entity[r].recipient]
      \/ pc[r] = "purchase" /\ sent' = [sent EXCEPT ![r] = Biller]
      \/ sent' = [sent EXCEPT ![r] = NoAccount]
  BY <1>5
<1> QED
  BY <1>3, <1>4, <1>6, <1>7, <1>8

\* Every step of a request keeps the types.
LEMMA TypeAdvance ==
  ASSUME TypeOK, NEW r \in Requests, Advance(r)
  PROVE  TypeOK'
<1> USE DEF money, outside, file
<1>0. r \in Handlers
  BY DEF Handlers
<1>1. CASE FindKyc(r)
  <2>1. CASE Take(r, "findKyc", "reserve", kyc)
    BY <1>0, <1>1, <2>1, MoveTypes DEF FindKyc, Take, TypeOK, Steps
  <2>2. CASE Goto(r, "findKyc", "done")
    BY <1>0, <1>1, <2>2, GotoTypes DEF FindKyc, TypeOK, Steps
  <2> QED
    BY <1>1, <2>1, <2>2 DEF FindKyc
<1>2. CASE ReserveWithdrawal(r) \/ ReservePurchase(r)
  <2>1. \E here \in Steps, next \in {"recipient", "transfer", "purchase"} : Reserve(r, here, next)
    BY <1>2 DEF ReserveWithdrawal, ReservePurchase, Steps
  <2>2. PICK here \in Steps, next \in {"recipient", "transfer", "purchase"} : Reserve(r, here, next)
    BY <2>1
  <2>3. /\ pc' \in [Handlers -> Steps] /\ entity' \in [Handlers -> Kyc]
        /\ seen' \in [Handlers -> Kyc]
    BY <1>0, <2>2, GotoTypes DEF Reserve, Steps
  <2>4. balance' \in Nat /\ debit' \in [Requests -> DebitStatus]
    BY <2>2 DEF Reserve, TypeOK, DebitStatus
  <2> QED
    BY <2>2, <2>3, <2>4 DEF Reserve, TypeOK
<1>3. CASE CreateRecipient(r)
  <2>1. CASE Goto(r, "recipient", "reverse")
    BY <1>0, <1>3, <2>1, GotoTypes DEF CreateRecipient, TypeOK, Steps
  <2>2. CASE Take(r, "recipient", "saveRecipient", WithRecipient(entity[r]))
    <3>1. WithRecipient(entity[r]) \in Kyc
      BY <1>0, RowShape, KycColumns DEF WithRecipient, TypeOK
    <3>2. pc' \in [Handlers -> Steps] /\ entity' \in [Handlers -> Kyc]
      BY <1>0, <2>2, <3>1, MoveTypes DEF Take, Steps
    <3> QED
      BY <1>3, <2>2, <3>2 DEF CreateRecipient, TypeOK, Take
  <2> QED
    BY <1>3, <2>1, <2>2 DEF CreateRecipient
<1>4. CASE SaveRecipient(r)
  BY <1>0, <1>4, CompareTypes DEF SaveRecipient, Steps
<1>5. CASE WriteRecipient(r)
  BY <1>0, <1>5, WriteTypes DEF WriteRecipient, Steps
<1>6. CASE SaveRecipientFails(r)
  <2>1. PICK here : Move(r, here, "reverse", entity[r])
    BY <1>6 DEF SaveRecipientFails
  <2>2. entity[r] \in Kyc /\ "reverse" \in Steps
    BY <1>0 DEF TypeOK, Steps
  <2> QED
    BY <1>0, <1>6, <2>1, <2>2, MoveTypes, BlankShape DEF SaveRecipientFails, TypeOK
<1>7. ASSUME NEW a \in Answers, InitiateTransfer(r, a) PROVE TypeOK'
  <2>1. AfterTransfer(a) \in Steps
    BY DEF AfterTransfer, Steps
  <2>2. entity[r].recipient \in Where
    BY <1>0, KycColumns DEF TypeOK
  <2> QED
    BY <1>0, <1>7, <2>1, <2>2, GotoTypes DEF InitiateTransfer, Call, TypeOK, Where
<1>8. ASSUME NEW a \in Answers, Settle(r, a) PROVE TypeOK'
  <2>1. AfterPurchase(a) \in Steps
    BY DEF AfterPurchase, Steps
  <2> QED
    BY <1>0, <1>8, <2>1, GotoTypes DEF Settle, Call, TypeOK, Where
<1>9. CASE MarkProcessing(r)
  BY <1>0, <1>9, GotoTypes DEF MarkProcessing, MarkStatus, TypeOK, Steps, DebitStatus
<1>10. CASE MarkBought(r)
  BY <1>0, <1>10, GotoTypes DEF MarkBought, MarkStatus, Paid, TypeOK, Steps, DebitStatus
<1>11. CASE Reverse(r)
  BY <1>0, <1>11, GotoTypes DEF Reverse, GivenBack, TypeOK, Steps, DebitStatus
<1>12. CASE CallHangs(r)
  BY <1>12, HangingCall DEF TypeOK
<1> QED
  BY <1>1, <1>2, <1>3, <1>4, <1>5, <1>6, <1>7, <1>8, <1>9, <1>10, <1>11, <1>12 DEF Advance

\* Every step of a KYC handler keeps the types.
LEMMA TypeHandle ==
  ASSUME TypeOK, NEW d \in Desks, Handle(d)
  PROVE  TypeOK'
<1> USE DEF money, outside, file
<1>0. d \in Handlers
  BY DEF Handlers
<1>1. ASSUME NEW a \in Accounts \cup {kyc.account}, SubmitKyc(d, a) PROVE TypeOK'
  <2>0. a \in Where /\ kyc \in Kyc
    BY KycColumns DEF TypeOK, Where
  <2>1. Row("pending", a, kyc.recipient) \in Kyc /\ Row("pending", a, NoAccount) \in Kyc
    BY <2>0, RowShape, KycColumns DEF KycStatus, Where
  <2> HIDE DEF Row
  <2>2. CASE Prepare(d, "save", kyc) /\ UNCHANGED file
    BY <2>0, <2>2, PrepareTypes DEF TypeOK, Steps
  <2>3. CASE Prepare(d, "save", Row("pending", a, kyc.recipient)) /\ UNCHANGED file
    BY <2>1, <2>3, PrepareTypes DEF TypeOK, Steps
  <2>4. CASE Prepare(d, "insert", Row("pending", a, NoAccount)) /\ UNCHANGED file
    BY <2>1, <2>4, PrepareTypes DEF TypeOK, Steps
  <2>5. CASE change' = a /\ UNCHANGED <<money, outside, kyc, approved, pc, entity, seen>>
    BY <2>0, <2>5 DEF TypeOK
  <2> QED
    BY <1>1, <2>2, <2>3, <2>4, <2>5 DEF SubmitKyc
<1>2. CASE InsertKyc(d)
  BY <1>0, <1>2, GotoTypes DEF InsertKyc, TypeOK, Steps
<1>3. CASE SaveKyc(d)
  BY <1>0, <1>3, CompareTypes DEF SaveKyc, Steps
<1>4. CASE WriteKyc(d)
  BY <1>0, <1>4, WriteTypes DEF WriteKyc, Steps
<1>5. CASE ConfirmBankChange(d)
  <2>1. Row("none", change, NoAccount) \in Kyc
    BY RowShape DEF KycStatus, Where, TypeOK
  <2> QED
    BY <1>5, <2>1, PrepareTypes DEF ConfirmBankChange, TypeOK, Steps, Where
<1>6. CASE ApplyChange(d)
  <2>1. Row(ChangedStatus, entity[d].account, kyc.recipient) \in Kyc
    BY <1>0, RowShape, KycColumns DEF KycStatus, TypeOK, ChangedStatus
  <2>2. pc' \in [Handlers -> Steps] /\ entity' \in [Handlers -> Kyc]
    BY <1>0, <1>6, <2>1, MoveTypes DEF ApplyChange, Take, Steps
  <2> QED
    BY <1>6, <2>2 DEF ApplyChange, Take, TypeOK
<1>7. CASE ApproveKyc(d)
  <2>1. Row("approved", kyc.account, kyc.recipient) \in Kyc
    BY RowShape, KycColumns DEF KycStatus, TypeOK
  <2> QED
    BY <1>7, <2>1, PrepareTypes DEF ApproveKyc, TypeOK, Steps
<1>8. CASE RejectKyc(d)
  <2>1. Row("rejected", kyc.account, kyc.recipient) \in Kyc
    BY RowShape, KycColumns DEF KycStatus, TypeOK
  <2> QED
    BY <1>8, <2>1, PrepareTypes DEF RejectKyc, TypeOK, Steps
<1> QED
  BY <1>1, <1>2, <1>3, <1>4, <1>5, <1>6, <1>7, <1>8 DEF Handle

\* Every step keeps the types.
LEMMA TypeStep == TypeOK /\ [Next]_vars => TypeOK'
<1> SUFFICES ASSUME TypeOK, [Next]_vars PROVE TypeOK'
  OBVIOUS
<1> USE OutboundAssumption DEF money, outside, file
<1>1. ASSUME NEW a \in Prices, Earn(a) PROVE TypeOK'
  BY <1>1 DEF Earn, TypeOK
<1>2. ASSUME NEW r \in Requests, Withdraw(r) PROVE TypeOK'
  BY <1>2, GotoTypes DEF Withdraw, TypeOK, Handlers, Steps
<1>3. ASSUME NEW r \in Requests, NEW price \in Prices, Purchase(r, price) PROVE TypeOK'
  BY <1>3, GotoTypes DEF Purchase, TypeOK, Handlers, Steps
<1>4. ASSUME NEW r \in Requests, Advance(r) PROVE TypeOK'
  BY <1>4, TypeAdvance
<1>5. ASSUME NEW d \in Desks, Handle(d) PROVE TypeOK'
  BY <1>5, TypeHandle
<1>6. CASE ChangeExpires
  BY <1>6 DEF ChangeExpires, TypeOK, Where
<1>7. CASE Crash
  BY <1>7, BlankShape DEF Crash, TypeOK, Steps
<1>8. CASE UNCHANGED vars
  BY <1>8 DEF vars, TypeOK
<1> QED
  BY <1>1, <1>2, <1>3, <1>4, <1>5, <1>6, <1>7, <1>8 DEF Next

\* The initial state is well typed.
LEMMA TypeInit == Init => TypeOK
BY BlankShape DEF Init, TypeOK, DebitStatus, Where, Steps, Handlers

\* Every column and every handler keeps its type.
THEOREM TypeCorrect == Spec => []TypeOK
BY TypeInit, TypeStep, PTL DEF Spec

-----------------------------------------------------------------------------

\* A request keeps its stage when nothing about it changes.
LEMMA SameStage ==
  ASSUME NEW q \in Requests, Stage(q), pc'[q] = pc[q], entity'[q] = entity[q],
         debit'[q] = debit[q], amount'[q] = amount[q], sent'[q] = sent[q]
  PROVE  Stage(q)'
BY DEF Stage

\* A KYC handler touches no request.
LEMMA DeskLeavesStages ==
  ASSUME IInv, NEW d \in Desks, Handle(d), NEW q \in Requests
  PROVE  Stage(q)'
<1>1. /\ UNCHANGED <<balance, debit, amount, unclear, sent>>
      /\ pc'[q] = pc[q] /\ entity'[q] = entity[q]
  BY OutboundAssumption
     DEF Handle, SubmitKyc, InsertKyc, SaveKyc, WriteKyc, ConfirmBankChange, ApplyChange,
         ApproveKyc, RejectKyc, Prepare, Compare, Write, Goto, Take, Move, money, outside,
         IInv, TypeOK, Handlers
<1> QED
  BY <1>1, SameStage DEF IInv

\* A step of one request touches no other.
LEMMA RequestLeavesOthers ==
  ASSUME IInv, NEW r \in Requests, NEW q \in Requests \ {r},
         Advance(r) \/ Withdraw(r) \/ \E price \in Prices : Purchase(r, price)
  PROVE  Stage(q)'
<1> USE DEF money, outside, file, Goto, Take, Move, IInv, TypeOK, Handlers
<1>1. CASE Withdraw(r) \/ \E price \in Prices : Purchase(r, price)
  BY <1>1, SameStage DEF Withdraw, Purchase
<1>2. CASE FindKyc(r) \/ CreateRecipient(r)
  BY <1>2, SameStage DEF FindKyc, CreateRecipient
<1>3. CASE ReserveWithdrawal(r) \/ ReservePurchase(r)
  BY <1>3, SameStage DEF ReserveWithdrawal, ReservePurchase, Reserve
<1>4. CASE SaveRecipient(r) \/ WriteRecipient(r) \/ SaveRecipientFails(r)
  BY <1>4, SameStage DEF SaveRecipient, WriteRecipient, SaveRecipientFails, Compare, Write
<1>5. CASE \E a \in Answers : InitiateTransfer(r, a) \/ Settle(r, a)
  BY <1>5, SameStage DEF InitiateTransfer, Settle, Call
<1>6. CASE MarkProcessing(r) \/ MarkBought(r) \/ Reverse(r)
  BY <1>6, SameStage DEF MarkProcessing, MarkBought, MarkStatus, Reverse
<1>7. CASE CallHangs(r)
  BY <1>7, HangingCall, SameStage
<1> QED
  BY <1>1, <1>2, <1>3, <1>4, <1>5, <1>6, <1>7 DEF Advance

\* The steps up to the call of the provider.
LEMMA ReserveKeepsStage ==
  ASSUME IInv, NEW r \in Requests,
         FindKyc(r) \/ ReserveWithdrawal(r) \/ ReservePurchase(r) \/ CreateRecipient(r)
  PROVE  Stage(r)'
<1> USE DEF money, outside, file, Goto, Take, Move
<1>0. r \in Handlers /\ Stage(r) /\ TypeOK
  BY DEF Handlers, IInv
<1>1. CASE FindKyc(r)
  BY <1>0, <1>1 DEF FindKyc, MayWithdraw, Stage, TypeOK
<1>2. CASE ReserveWithdrawal(r)
  BY <1>0, <1>2 DEF ReserveWithdrawal, Reserve, Stage, TypeOK, Ended
<1>3. CASE ReservePurchase(r)
  BY <1>0, <1>3 DEF ReservePurchase, Reserve, Stage, TypeOK, Ended
<1>4. CASE CreateRecipient(r)
  <2>1. pc[r] = "recipient" /\ entity[r] \in Kyc /\ entity[r].account # NoAccount
    BY <1>0, <1>4 DEF CreateRecipient, Stage, TypeOK
  <2>2. WithRecipient(entity[r]).recipient # NoAccount
    BY <2>1, RowShape, KycColumns DEF WithRecipient
  <2> QED
    BY <1>0, <1>4, <2>1, <2>2 DEF CreateRecipient, Stage, TypeOK
<1> QED
  BY <1>1, <1>2, <1>3, <1>4

\* Saving the recipient code.
LEMMA SaveKeepsStage ==
  ASSUME IInv, NEW r \in Requests,
         SaveRecipient(r) \/ WriteRecipient(r) \/ SaveRecipientFails(r)
  PROVE  Stage(r)'
<1>0. r \in Handlers /\ Stage(r) /\ TypeOK
  BY DEF Handlers, IInv
<1>1. /\ pc[r] \in {"saveRecipient", "writeRecipient"}
      /\ pc'[r] \in {"writeRecipient", "transfer", "reverse"}
      /\ entity'[r] = entity[r]
      /\ UNCHANGED <<debit, amount, sent>>
  BY <1>0 DEF SaveRecipient, WriteRecipient, SaveRecipientFails, Compare, Write, Goto, Take,
     Move, Ended, money, outside, TypeOK
<1> QED
  BY <1>0, <1>1 DEF Stage

\* Calling the provider: no answer after which the money goes back hides a
\* payment.
LEMMA CallKeepsStage ==
  ASSUME AnswersTold, IInv, NEW r \in Requests, NEW a \in Answers,
         InitiateTransfer(r, a) \/ Settle(r, a)
  PROVE  Stage(r)'
<1>0. r \in Handlers /\ Stage(r) /\ TypeOK /\ Biller # NoAccount
  BY OutboundAssumption DEF Handlers, IInv, Where
<1>1. CASE InitiateTransfer(r, a)
  <2>1. pc[r] = "transfer" /\ debit[r] = "PENDING" /\ entity[r].recipient # NoAccount
    BY <1>0, <1>1 DEF InitiateTransfer, Goto, Take, Move, Stage
  <2>2. /\ pc'[r] = AfterTransfer(a) /\ debit' = debit
        /\ a = "done" => sent'[r] # NoAccount
        /\ a = "refused" => sent'[r] = NoAccount
    BY <1>0, <1>1, <2>1 DEF InitiateTransfer, Call, Goto, Take, Move, money, AnswersTold, TypeOK
  <2> QED
    BY <2>1, <2>2 DEF AfterTransfer, Stage
<1>2. CASE Settle(r, a)
  <2>1. pc[r] = "purchase" /\ debit[r] = "PENDING"
    BY <1>0, <1>2 DEF Settle, Goto, Take, Move, Stage
  <2>2. /\ pc'[r] = AfterPurchase(a) /\ debit' = debit
        /\ a = "done" => sent'[r] # NoAccount
        /\ a \in {"refused", "serverError"} => sent'[r] = NoAccount
    BY <1>0, <1>2, <2>1 DEF Settle, Call, Goto, Take, Move, money, AnswersTold, TypeOK
  <2> QED
    BY <2>1, <2>2 DEF AfterPurchase, Stage, Answers
<1> QED
  BY <1>1, <1>2

\* A call without an answer leaves the money set aside.
LEMMA HangingKeepsStage ==
  ASSUME IInv, NEW r \in Requests, CallHangs(r)
  PROVE  Stage(r)'
<1>1. pc[r] \in {"recipient", "transfer", "purchase"} /\ pc'[r] = "hanging" /\ debit' = debit
  BY HangingCall DEF IInv, TypeOK, Handlers
<1> QED
  BY <1>1 DEF IInv, Stage

\* Recording the outcome.
LEMMA OutcomeKeepsStage ==
  ASSUME IInv, NEW r \in Requests, MarkProcessing(r) \/ MarkBought(r) \/ Reverse(r)
  PROVE  Stage(r)'
<1>0. r \in Handlers /\ Stage(r) /\ TypeOK
  BY DEF Handlers, IInv
<1>1. pc'[r] \in {"done", "cutOff"} /\ sent' = sent
  BY <1>0 DEF MarkProcessing, MarkBought, MarkStatus, Reverse, Goto, Take, Move, outside, TypeOK
<1>2. sent[r] # NoAccount => debit'[r] \in {"PENDING", "PROCESSING", "SUCCESS"}
  BY <1>0 DEF MarkProcessing, MarkBought, MarkStatus, Reverse, Paid, Goto, Take, Move, Stage,
     TypeOK
<1> QED
  BY <1>1, <1>2 DEF Stage

\* Every step keeps every stage.
LEMMA StageStep ==
  ASSUME AnswersTold, IInv, [Next]_vars, NEW q \in Requests
  PROVE  Stage(q)'
<1>0. Stage(q)
  BY DEF IInv
<1>1. ASSUME NEW a \in Prices, Earn(a) PROVE Stage(q)'
  BY <1>0, <1>1, SameStage DEF Earn, outside
<1>2. ASSUME NEW r \in Requests, Withdraw(r) \/ \E price \in Prices : Purchase(r, price)
      PROVE  Stage(q)'
  <2>1. CASE q = r
    <3>1. r \in Handlers /\ TypeOK
      BY DEF IInv, Handlers
    <3>2. pc[r] = "new" /\ pc'[r] \in {"findKyc", "reservePurchase"} /\ UNCHANGED <<debit, sent>>
      BY <1>2, <3>1 DEF Withdraw, Purchase, Goto, Take, Move, outside, TypeOK
    <3>3. amount'[r] > 0
      BY <1>2, <3>1, OutboundAssumption DEF Withdraw, Purchase, TypeOK
    <3> QED
      BY <1>0, <2>1, <3>2, <3>3 DEF Stage
  <2> QED
    BY <1>2, <2>1, RequestLeavesOthers
<1>3. ASSUME NEW r \in Requests, Advance(r) PROVE Stage(q)'
  BY <1>3, RequestLeavesOthers, ReserveKeepsStage, SaveKeepsStage, CallKeepsStage,
     HangingKeepsStage, OutcomeKeepsStage DEF Advance
<1>4. ASSUME NEW d \in Desks, Handle(d) PROVE Stage(q)'
  BY <1>4, DeskLeavesStages
<1>5. CASE ChangeExpires
  BY <1>0, <1>5, SameStage DEF ChangeExpires, money, outside
<1>6. CASE Crash
  <2>1. /\ UNCHANGED <<debit, amount, sent>>
        /\ pc'[q] = "cutOff" \/ (pc'[q] = pc[q] /\ pc[q] \in Ended)
    BY <1>6 DEF Crash, money, outside, Handlers
  <2> QED
    BY <1>0, <2>1 DEF Stage, Ended
<1>7. CASE UNCHANGED vars
  BY <1>0, <1>7, SameStage DEF vars
<1> QED
  BY <1>1, <1>2, <1>3, <1>4, <1>5, <1>6, <1>7 DEF Next

\* The invariant holds throughout.
LEMMA InvariantHolds ==
  ASSUME AnswersTold
  PROVE  Spec => []IInv
<1>1. Init => IInv
  BY TypeInit DEF IInv, Init, Stage, Handlers
<1>2. IInv /\ [Next]_vars => IInv'
  BY TypeStep, StageStep DEF IInv
<1> QED
  BY <1>1, <1>2, PTL DEF Spec

\* No payment is both made and given back, whatever the providers answer,
\* whatever overlaps, fails or dies, as long as the answers taken for refusals
\* are refusals.
THEOREM PaidOrReturned ==
  ASSUME AnswersTold
  PROVE  Spec => []NeverPaidAndReturned
<1>1. IInv => NeverPaidAndReturned
  BY DEF IInv, Stage, NeverPaidAndReturned
<1> QED
  BY <1>1, InvariantHolds, PTL

\* Money that is set aside is accounted for: its request is on the way, or has
\* an answer that does not tell.
Accounted(r) ==
  /\ pc[r] \in {"new", "findKyc", "reserve", "reservePurchase"} => debit[r] = "none"
  /\ pc[r] = "done" /\ debit[r] = "PENDING" => r \in unclear
  /\ pc[r] # "idle"

\* A request is accounted for as long as others keep away from it.
LEMMA AccountedStill ==
  ASSUME NEW q \in Requests, Accounted(q), pc'[q] = pc[q], debit'[q] = debit[q],
         unclear \subseteq unclear'
  PROVE  Accounted(q)'
BY DEF Accounted

\* A request that goes on accounts for its own money.
LEMMA AccountedAdvance ==
  ASSUME TypeOK, NEW r \in Requests, Accounted(r), Advance(r)
  PROVE  Accounted(r)'
<1> USE DEF money, outside, file, Goto, Take, Move
<1>0. r \in Handlers
  BY DEF Handlers
<1>1. CASE FindKyc(r)
  BY <1>0, <1>1 DEF FindKyc, TypeOK, Accounted
<1>2. CASE ReserveWithdrawal(r)
  BY <1>0, <1>2 DEF ReserveWithdrawal, Reserve, TypeOK, Accounted
<1>3. CASE ReservePurchase(r)
  BY <1>0, <1>3 DEF ReservePurchase, Reserve, TypeOK, Accounted
<1>4. CASE CreateRecipient(r) \/ SaveRecipientFails(r)
  BY <1>0, <1>4 DEF CreateRecipient, SaveRecipientFails, TypeOK, Accounted
<1>5. CASE SaveRecipient(r) \/ WriteRecipient(r)
  BY <1>0, <1>5 DEF SaveRecipient, WriteRecipient, Compare, Write, TypeOK, Accounted
<1>6. ASSUME NEW a \in Answers, InitiateTransfer(r, a) PROVE Accounted(r)'
  <2>1. pc'[r] = AfterTransfer(a) /\ (a \in {"serverError", "timeout"} => r \in unclear')
    BY <1>0, <1>6 DEF InitiateTransfer, Call, TypeOK
  <2> QED
    BY <2>1 DEF AfterTransfer, Accounted, Answers
<1>7. ASSUME NEW a \in Answers, Settle(r, a) PROVE Accounted(r)'
  <2>1. pc'[r] = AfterPurchase(a) /\ (a = "timeout" => r \in unclear')
    BY <1>0, <1>7 DEF Settle, Call, TypeOK
  <2> QED
    BY <2>1 DEF AfterPurchase, Accounted, Answers
<1>8. CASE MarkProcessing(r) \/ MarkBought(r)
  BY <1>0, <1>8 DEF MarkProcessing, MarkBought, MarkStatus, Paid, TypeOK, Accounted
<1>9. CASE Reverse(r)
  BY <1>0, <1>9 DEF Reverse, TypeOK, Accounted
<1>10. CASE CallHangs(r)
  <2>1. pc'[r] = "hanging"
    BY <1>0, <1>10, HangingCall DEF TypeOK
  <2> QED
    BY <2>1 DEF Accounted
<1> QED
  BY <1>1, <1>2, <1>3, <1>4, <1>5, <1>6, <1>7, <1>8, <1>9, <1>10 DEF Advance

\* It leaves the others alone.
LEMMA AccountedOthers ==
  ASSUME TypeOK, NEW r \in Requests, NEW q \in Requests \ {r}, Accounted(q), Advance(r)
  PROVE  Accounted(q)'
<1> USE DEF money, outside, file, Goto, Take, Move, TypeOK, Handlers
<1>1. CASE FindKyc(r) \/ CreateRecipient(r)
  BY <1>1, AccountedStill DEF FindKyc, CreateRecipient
<1>2. CASE ReserveWithdrawal(r) \/ ReservePurchase(r)
  BY <1>2, AccountedStill DEF ReserveWithdrawal, ReservePurchase, Reserve
<1>3. CASE SaveRecipient(r) \/ WriteRecipient(r) \/ SaveRecipientFails(r)
  BY <1>3, AccountedStill DEF SaveRecipient, WriteRecipient, SaveRecipientFails, Compare, Write
<1>4. CASE \E a \in Answers : InitiateTransfer(r, a) \/ Settle(r, a)
  BY <1>4, AccountedStill DEF InitiateTransfer, Settle, Call
<1>5. CASE MarkProcessing(r) \/ MarkBought(r) \/ Reverse(r)
  BY <1>5, AccountedStill DEF MarkProcessing, MarkBought, MarkStatus, Reverse
<1>6. CASE CallHangs(r)
  BY <1>6, HangingCall, AccountedStill
<1> QED
  BY <1>1, <1>2, <1>3, <1>4, <1>5, <1>6 DEF Advance

\* What OnlyUnclearStaysPending says of requests that have ended.
NothingForgotten ==
  \A r \in Requests :
    pc[r] \in Ended /\ debit[r] = "PENDING" =>
      r \in unclear \/ pc[r] \in {"hanging", "cutOff"}

\* No withdrawal or purchase ends with its money set aside, unless the answer
\* did not tell what the provider did or never came, or the server or a statement
\* failed: no branch of initiateWithdrawal and settle forgets to mark or to reverse.
THEOREM EndedMeansSettled == Spec => []NothingForgotten
<1> DEFINE All == \A q \in Requests : Accounted(q)
<1>1. Init => All
  BY DEF Init, Accounted, Handlers
<1>2. TypeOK /\ All /\ [Next]_vars => All'
  <2> SUFFICES ASSUME TypeOK, All, [Next]_vars, NEW q \in Requests PROVE Accounted(q)'
    OBVIOUS
  <2> USE DEF money, outside, file
  <2>1. ASSUME NEW a \in Prices, Earn(a) PROVE Accounted(q)'
    BY <2>1, AccountedStill DEF Earn
  <2>2. ASSUME NEW r \in Requests, Withdraw(r) \/ \E price \in Prices : Purchase(r, price)
        PROVE  Accounted(q)'
    BY <2>2 DEF Withdraw, Purchase, Goto, Take, Move, Accounted, TypeOK, Handlers
  <2>3. ASSUME NEW r \in Requests, Advance(r) PROVE Accounted(q)'
    BY <2>3, AccountedAdvance, AccountedOthers
  <2>4. ASSUME NEW d \in Desks, Handle(d) PROVE Accounted(q)'
    <3>1. UNCHANGED <<debit, unclear>> /\ pc'[q] = pc[q]
      BY <2>4, OutboundAssumption
         DEF Handle, SubmitKyc, InsertKyc, SaveKyc, WriteKyc, ConfirmBankChange, ApplyChange,
             ApproveKyc, RejectKyc, Prepare, Compare, Write, Goto, Take, Move, TypeOK, Handlers
    <3> QED
      BY <3>1, AccountedStill
  <2>5. CASE ChangeExpires
    BY <2>5, AccountedStill DEF ChangeExpires
  <2>6. CASE Crash
    <3>1. UNCHANGED <<debit, unclear>> /\ (pc'[q] = "cutOff" \/ pc'[q] = pc[q])
      BY <2>6 DEF Crash, Handlers
    <3> QED
      BY <3>1 DEF Accounted
  <2>7. CASE UNCHANGED vars
    BY <2>7, AccountedStill DEF vars
  <2> QED
    BY <2>1, <2>2, <2>3, <2>4, <2>5, <2>6, <2>7 DEF Next
<1>3. All => NothingForgotten
  BY DEF Accounted, NothingForgotten, Ended
<1> QED
  BY <1>1, <1>2, <1>3, TypeCorrect, PTL DEF Spec

\* Every payment keeps the promise of Reservation: its money is set aside once
\* and then leaves once, to the provider or back, or stays set aside.
THEOREM OutboundKeepsReservation ==
  ASSUME AnswersTold
  PROVE  Spec => KeepsReservation
<1> DEFINE held == [r \in Requests |-> IF debit[r] = "none" THEN 0 ELSE amount[r]]
           fate == [r \in Requests |-> Fate(r)]
<1>1. Init => Promise!Init
  BY DEF Init, Promise!Init, Fate
<1>2. IInv /\ IInv' /\ [Next]_vars => [Promise!Next]_<<balance, earned, held, fate>>
  <2> SUFFICES ASSUME IInv, IInv', [Next]_vars
               PROVE  Promise!Next \/ UNCHANGED <<balance, earned, held, fate>>
    OBVIOUS
  <2>0. TypeOK /\ \A r \in Requests : Stage(r)
    BY DEF IInv
  <2>1. ASSUME UNCHANGED <<balance, earned, debit, sent>>,
               \A r \in Requests : debit[r] # "none" => amount'[r] = amount[r]
        PROVE  UNCHANGED <<balance, earned, held, fate>>
    BY <2>1 DEF Fate
  <2>2. ASSUME NEW a \in Prices, Earn(a) PROVE Promise!Fund
    <3>1. earned' \in Nat /\ earned' > earned /\ balance' = balance + (earned' - earned)
      BY <2>0, <2>2, OutboundAssumption DEF Earn, TypeOK
    <3>2. held' = held /\ fate' = fate
      BY <2>2 DEF Earn, outside, Fate
    <3> QED
      BY <3>1, <3>2 DEF Promise!Fund
  <2>3. ASSUME NEW r \in Requests, Withdraw(r) \/ \E price \in Prices : Purchase(r, price)
        PROVE  UNCHANGED <<balance, earned, held, fate>>
    <3>1. debit[r] = "none"
      BY <2>0, <2>3 DEF Withdraw, Purchase, Goto, Take, Move, Stage
    <3> QED
      BY <2>0, <2>1, <2>3, <3>1 DEF Withdraw, Purchase, outside, TypeOK
  <2>4. ASSUME NEW r \in Requests, ReserveWithdrawal(r) \/ ReservePurchase(r)
        PROVE  Promise!Hold(r) \/ UNCHANGED <<balance, earned, held, fate>>
    <3>1. PICK here \in {"reserve", "reservePurchase"}, next \in Steps : Reserve(r, here, next)
      BY <2>4 DEF ReserveWithdrawal, ReservePurchase, Steps
    <3>2. debit[r] = "none" /\ sent[r] = NoAccount /\ amount[r] > 0
      BY <2>0, <3>1 DEF Reserve, Goto, Take, Move, Stage
    <3>0. earned' = earned
      BY <3>1 DEF Reserve
    <3>3. CASE debit' = [debit EXCEPT ![r] = "PENDING"] /\ balance' = balance - amount[r]
      <4>1. balance' \in Nat /\ balance' < balance /\ balance - balance' = amount[r]
        BY <2>0, <3>2, <3>3 DEF TypeOK, IInv
      <4>2. held' = [held EXCEPT ![r] = balance - balance'] /\ UNCHANGED sent
        BY <2>0, <3>1, <3>3, <4>1 DEF Reserve, outside, TypeOK
      <4>3. fate[r] = "none" /\ fate' = [fate EXCEPT ![r] = "held"]
        BY <2>0, <3>2, <3>3, <4>2 DEF Fate, TypeOK
      <4> QED
        BY <3>0, <4>1, <4>2, <4>3 DEF Promise!Hold
    <3>4. CASE UNCHANGED <<balance, debit>>
      BY <2>1, <3>0, <3>1, <3>4 DEF Reserve, outside
    <3> QED
      BY <3>1, <3>3, <3>4 DEF Reserve
  <2>5. ASSUME NEW r \in Requests,
               \/ FindKyc(r) \/ CreateRecipient(r)
               \/ SaveRecipient(r) \/ WriteRecipient(r) \/ SaveRecipientFails(r)
        PROVE  UNCHANGED <<balance, earned, held, fate>>
    BY <2>1, <2>5 DEF FindKyc, CreateRecipient, SaveRecipient, WriteRecipient,
       SaveRecipientFails, Compare, Write, money, outside
  <2>6. ASSUME NEW r \in Requests,
               CallHangs(r) \/ \E a \in Answers : InitiateTransfer(r, a) \/ Settle(r, a)
        PROVE  Promise!Leave(r) \/ UNCHANGED <<balance, earned, held, fate>>
    <3>1. debit[r] = "PENDING" /\ sent[r] = NoAccount
      BY <2>0, <2>6, HangingCall DEF InitiateTransfer, Settle, Goto, Take, Move, Stage
    <3>2. UNCHANGED <<balance, earned, debit, amount>> /\ \E who : sent' = [sent EXCEPT ![r] = who]
      <4>1. CASE CallHangs(r)
        <5>1. sent = [sent EXCEPT ![r] = sent[r]]
          BY <2>0 DEF TypeOK
        <5> QED
          BY <2>0, <4>1, <5>1, HangingCall
      <4> QED
        BY <2>6, <4>1 DEF InitiateTransfer, Settle, Call, money
    <3>3. CASE sent'[r] = NoAccount
      <4>1. sent' = sent
        BY <2>0, <3>1, <3>2, <3>3 DEF TypeOK
      <4> QED
        BY <2>1, <3>2, <4>1
    <3>4. CASE sent'[r] # NoAccount
      <4>1. fate[r] = "held" /\ fate' = [fate EXCEPT ![r] = "sent"]
        BY <2>0, <3>1, <3>2, <3>4 DEF Fate, TypeOK
      <4> QED
        BY <3>2, <4>1 DEF Promise!Leave
    <3> QED
      BY <3>3, <3>4
  <2>7. ASSUME NEW r \in Requests, MarkProcessing(r) \/ MarkBought(r)
        PROVE  UNCHANGED <<balance, earned, held, fate>>
    <3>1. debit[r] = "PENDING" /\ sent[r] # NoAccount
      BY <2>0, <2>7 DEF MarkProcessing, MarkBought, MarkStatus, Goto, Take, Move, Stage
    <3>2. /\ UNCHANGED <<balance, earned, amount, sent>>
          /\ UNCHANGED debit \/ \E s \in {"PROCESSING", "SUCCESS"} : debit' = [debit EXCEPT ![r] = s]
      BY <2>7 DEF MarkProcessing, MarkBought, MarkStatus, Paid, outside
    <3> QED
      BY <2>0, <3>1, <3>2 DEF Fate, TypeOK
  <2>8. ASSUME NEW r \in Requests, Reverse(r)
        PROVE  Promise!Return(r) \/ UNCHANGED <<balance, earned, held, fate>>
    <3>1. debit[r] = "PENDING" /\ sent[r] = NoAccount /\ earned' = earned
      BY <2>0, <2>8 DEF Reverse, Goto, Take, Move, Stage
    <3>2. CASE balance' = balance + amount[r] /\ debit' = [debit EXCEPT ![r] = "FAILED"]
      <4>1. UNCHANGED <<amount, sent>>
        BY <2>8 DEF Reverse, outside
      <4>2. fate[r] = "held" /\ fate' = [fate EXCEPT ![r] = "returned"]
        BY <2>0, <3>1, <3>2, <4>1 DEF Fate, TypeOK
      <4>3. held' = held /\ held[r] = amount[r]
        BY <2>0, <3>1, <3>2, <4>1 DEF TypeOK
      <4> QED
        BY <3>1, <3>2, <4>2, <4>3 DEF Promise!Return
    <3>3. CASE UNCHANGED <<balance, debit>>
      BY <2>1, <2>8, <3>1, <3>3 DEF Reverse, outside
    <3> QED
      BY <2>8, <3>2, <3>3 DEF Reverse, GivenBack
  <2>9. ASSUME NEW d \in Desks, Handle(d) PROVE UNCHANGED <<balance, earned, held, fate>>
    <3>1. UNCHANGED <<balance, earned, debit, amount, sent>>
      BY <2>9 DEF Handle, SubmitKyc, InsertKyc, SaveKyc, WriteKyc, ConfirmBankChange, ApplyChange,
         ApproveKyc, RejectKyc, Prepare, Compare, Write, money, outside
    <3> QED
      BY <2>1, <3>1
  <2>10. CASE ChangeExpires \/ Crash \/ UNCHANGED vars
    BY <2>1, <2>10 DEF ChangeExpires, Crash, vars, money, outside
  <2> QED
    BY <2>2, <2>3, <2>4, <2>5, <2>6, <2>7, <2>8, <2>9, <2>10 DEF Next, Advance, Promise!Next
<1>3. Spec => []IInv
  BY InvariantHolds
<1> QED
  BY <1>1, <1>2, <1>3, PTL DEF Spec, KeepsReservation, Promise!Spec

-----------------------------------------------------------------------------
(* Whom withdrawals pay when a KYC handler runs alone: only bank details   *)
(* an admin approved, for any number of requests, desks and accounts.      *)

\* While a desk is at work nothing else is.
Alone ==
  /\ \A d \in Desks : pc[d] \in {"idle", "insert", "save", "write", "applyChange"}
  /\ \A d \in Desks : pc[d] # "idle" => \A h \in Handlers \ {d} : pc[h] \in Ended

\* What a KYC row or entity says of accounts an admin has approved.
Vouched(k, accounts) ==
  /\ k.status = "approved" /\ k.account # NoAccount => k.account \in accounts
  /\ k.recipient # NoAccount => k.recipient \in accounts

WithdrawalSteps == {"reserve", "recipient", "saveRecipient", "writeRecipient", "transfer"}

\* The entity of a withdrawal says of the bank details what the row says.
Holds(r) ==
  pc[r] \in WithdrawalSteps =>
    /\ Vouched(entity[r], approved)
    /\ entity[r].status = "approved" /\ kyc.status = "approved"
    /\ entity[r].account = kyc.account /\ kyc.account # NoAccount

\* What a desk is about to write.
Written(d) ==
  /\ pc[d] \in {"insert", "save", "write"} => Vouched(entity[d], approved)
  /\ pc[d] = "write" => seen[d] = kyc

KInv ==
  /\ TypeOK /\ Alone
  /\ Vouched(kyc, approved)
  /\ \A r \in Requests : Holds(r)
  /\ \A d \in Desks : Written(d)
  /\ TransfersApproved

-----------------------------------------------------------------------------

\* Everything a lone desk finds idle stays idle while it works.
LEMMA AloneStep ==
  ASSUME ~KycRaces, KInv, [Next]_vars
  PROVE  Alone'
<1> USE OutboundAssumption DEF KInv, TypeOK, Alone, Handlers, Ended, Goto, Take, Move
<1>1. ASSUME NEW a \in Prices, Earn(a) PROVE Alone'
  BY <1>1 DEF Earn
<1>2. ASSUME NEW r \in Requests, Withdraw(r) \/ \E price \in Prices : Purchase(r, price)
      PROVE  Alone'
  <2>1. /\ \A d \in Desks : pc[d] \in Ended
        /\ \A h \in Handlers \ {r} : pc'[h] = pc[h]
    BY <1>2 DEF Withdraw, Purchase, Quiet
  <2> QED
    BY <2>1
<1>3. ASSUME NEW r \in Requests, Advance(r) PROVE Alone'
  <2>1. pc[r] \notin Ended /\ \A h \in Handlers \ {r} : pc'[h] = pc[h]
    BY <1>3 DEF Advance, FindKyc, ReserveWithdrawal, ReservePurchase, Reserve, CreateRecipient,
       SaveRecipient, WriteRecipient, SaveRecipientFails, Compare, Write, InitiateTransfer,
       Settle, CallHangs, MarkProcessing, MarkBought, MarkStatus, Reverse
  <2> QED
    BY <2>1
<1>4. ASSUME NEW d \in Desks, Handle(d) PROVE Alone'
  <2>1. \A h \in Handlers \ {d} : pc[h] \in Ended /\ pc'[h] = pc[h]
    BY <1>4 DEF Handle, SubmitKyc, InsertKyc, SaveKyc, WriteKyc, ConfirmBankChange,
       ApplyChange, ApproveKyc, RejectKyc, Prepare, Quiet, Compare, Write
  <2>2. pc'[d] \in {"idle", "insert", "save", "write", "applyChange"}
    BY <1>4 DEF Handle, SubmitKyc, InsertKyc, SaveKyc, WriteKyc, ConfirmBankChange,
       ApplyChange, ApproveKyc, RejectKyc, Prepare, Compare, Write
  <2> QED
    BY <2>1, <2>2
<1>5. CASE ChangeExpires \/ UNCHANGED vars
  BY <1>5 DEF ChangeExpires, vars
<1>6. CASE Crash
  BY <1>6 DEF Crash
<1> QED
  BY <1>1, <1>2, <1>3, <1>4, <1>5, <1>6 DEF Next

\* A request leaves what it read of the bank details as it was.
LEMMA AdvanceKeeps ==
  ASSUME KInv, NEW r \in Requests, Advance(r)
  PROVE  /\ Vouched(kyc', approved') /\ TransfersApproved'
         /\ \A q \in Requests : Holds(q)'
         /\ \A d \in Desks : Written(d)'
<1> USE DEF money, outside, file, Goto, Take, Move
<1>0. /\ r \in Handlers /\ TypeOK /\ Holds(r) /\ Vouched(kyc, approved) /\ kyc \in Kyc /\ entity[r] \in Kyc
      /\ \A d \in Desks : d # r
  BY OutboundAssumption DEF KInv, Handlers, TypeOK
<1>1. /\ pc[r] \notin Ended /\ approved' = approved
      /\ \A h \in Handlers \ {r} : pc'[h] = pc[h] /\ entity'[h] = entity[h] /\ seen'[h] = seen[h]
  BY <1>0 DEF Advance, CallHangs, FindKyc, ReserveWithdrawal, ReservePurchase, Reserve, CreateRecipient,
     SaveRecipient, WriteRecipient, SaveRecipientFails, Compare, Write, InitiateTransfer,
     Settle, Call, MarkProcessing, MarkBought, MarkStatus, Reverse, TypeOK, Ended
<1>2. \A d \in Desks : Written(d)'
  <2>1. \A d \in Desks : pc[d] = "idle" /\ pc'[d] = "idle"
    BY <1>0, <1>1 DEF KInv, Alone, Handlers
  <2> QED
    BY <2>1 DEF Written
<1>3. /\ kyc' = kyc \/ WriteRecipient(r)
      /\ \/ sent' = sent
         \/ CallHangs(r)
         \/ \E a \in Answers : InitiateTransfer(r, a) \/ Settle(r, a)
  BY DEF Advance, CallHangs, FindKyc, ReserveWithdrawal, ReservePurchase, Reserve, CreateRecipient,
     SaveRecipient, WriteRecipient, SaveRecipientFails, Compare, Write, InitiateTransfer, Settle,
     Call, MarkProcessing, MarkBought, MarkStatus, Reverse
<1>4. Vouched(kyc', approved') /\ kyc'.account = kyc.account /\ (kyc.status = "approved" => kyc'.status = "approved")
  <2>1. CASE kyc' = kyc
    BY <1>0, <1>1, <2>1 DEF Vouched
  <2>2. CASE WriteRecipient(r)
    <3>1. /\ Vouched(entity[r], approved) /\ entity[r].status = "approved" /\ kyc.status = "approved"
          /\ entity[r].account = kyc.account /\ kyc.account # NoAccount
      BY <1>0, <2>2 DEF WriteRecipient, Write, Holds, WithdrawalSteps
    <3> DEFINE s == Column(entity[r].status, seen[r].status, kyc.status)
               a == Column(entity[r].account, seen[r].account, kyc.account)
               w == Column(entity[r].recipient, seen[r].recipient, kyc.recipient)
    <3>2. /\ s = "approved" /\ a = kyc.account /\ w \in {entity[r].recipient, kyc.recipient}
      BY <3>1 DEF Column
    <3>3. /\ kyc' = Row(s, a, w) /\ s \in KycStatus /\ a \in Where /\ w \in Where
      BY <1>0, <2>2, <3>2, KycColumns DEF WriteRecipient, Write, KycStatus
    <3> HIDE DEF s, a, w
    <3>4. kyc'.status = s /\ kyc'.account = a /\ kyc'.recipient = w
      BY <3>3, RowShape
    <3> QED
      BY <1>0, <1>1, <3>1, <3>2, <3>4 DEF Vouched
  <2> QED
    BY <1>3, <2>1, <2>2
<1>5. ASSUME NEW q \in Requests PROVE Holds(q)'
  <2>1. CASE q # r
    <3>1. Holds(q) /\ pc'[q] = pc[q] /\ entity'[q] = entity[q]
      BY <1>1, <2>1 DEF KInv, Handlers
    <3> QED
      BY <1>1, <1>4, <3>1 DEF Holds, Vouched
  <2>2. CASE q = r
    <3>1. CASE FindKyc(r)
      BY <1>0, <1>1, <2>2, <3>1 DEF FindKyc, MayWithdraw, Holds, WithdrawalSteps, Vouched, TypeOK
    <3>2. CASE CreateRecipient(r)
      <4>1. /\ WithRecipient(entity[r]).status = entity[r].status
            /\ WithRecipient(entity[r]).account = entity[r].account
            /\ WithRecipient(entity[r]).recipient = entity[r].account
        BY <1>0, RowShape, KycColumns DEF WithRecipient
      <4>2. pc[r] = "recipient" /\ kyc' = kyc
        BY <3>2 DEF CreateRecipient
      <4>3. \/ pc'[r] = "reverse"
            \/ entity'[r] = WithRecipient(entity[r])
        BY <1>0, <3>2 DEF CreateRecipient, TypeOK
      <4> QED
        BY <1>0, <1>1, <2>2, <4>1, <4>2, <4>3 DEF Holds, WithdrawalSteps, Vouched
    <3>3. CASE ~FindKyc(r) /\ ~CreateRecipient(r)
      <4>1. pc'[r] \in WithdrawalSteps => pc[r] \in WithdrawalSteps /\ entity'[r] = entity[r]
        BY <1>0, <3>3 DEF Advance, CallHangs, ReserveWithdrawal, ReservePurchase, Reserve, SaveRecipient,
           WriteRecipient, SaveRecipientFails, Compare, Write, InitiateTransfer, AfterTransfer,
           Settle, AfterPurchase, MarkProcessing, MarkBought, MarkStatus, Reverse,
           WithdrawalSteps, TypeOK, Ended
      <4> QED
        BY <1>0, <1>1, <1>4, <2>2, <4>1 DEF Holds, Vouched
    <3> QED
      BY <3>1, <3>2, <3>3
  <2> QED
    BY <2>1, <2>2
<1>6. TransfersApproved'
  <2>1. CASE sent' = sent
    BY <1>1, <2>1 DEF KInv, TransfersApproved
  <2>2. ASSUME NEW a \in Answers, InitiateTransfer(r, a) PROVE TransfersApproved'
    <3>1. entity[r].recipient # NoAccount => entity[r].recipient \in approved
      BY <1>0, <2>2 DEF InitiateTransfer, Holds, WithdrawalSteps, Vouched
    <3> QED
      BY <1>0, <1>1, <2>2, <3>1, OutboundAssumption
         DEF InitiateTransfer, Call, KInv, TransfersApproved, TypeOK
  <2>3. ASSUME NEW a \in Answers, Settle(r, a) PROVE TransfersApproved'
    BY <1>0, <1>1, <2>3, OutboundAssumption
       DEF Settle, Call, KInv, TransfersApproved, TypeOK, Where
  <2>4. CASE CallHangs(r)
    <3>1. pc[r] = "transfer" /\ entity[r].recipient # NoAccount
            => entity[r].recipient \in approved
      BY <1>0 DEF Holds, WithdrawalSteps, Vouched
    <3>2. \A q \in Requests : sent'[q] = sent[q] \/ (q = r /\ sent'[q] \in approved \cup {NoAccount, Biller})
      BY <1>0, <2>4, <3>1, HangingCall DEF TypeOK
    <3> QED
      BY <1>0, <1>1, <3>2, OutboundAssumption DEF KInv, TransfersApproved, Where
  <2> QED
    BY <1>3, <2>1, <2>2, <2>3, <2>4
<1> QED
  BY <1>2, <1>4, <1>5, <1>6

\* Where a step leaves the desk that takes it.
LEMMA DeskMoves ==
  ASSUME TypeOK, NEW d \in Desks, NEW here, NEW next, NEW row, Move(d, here, next, row)
  PROVE  pc[d] = here /\ pc'[d] = next /\ entity'[d] = row
BY DEF TypeOK, Move, Handlers

\* A lone desk writes only what an admin vouched for.
LEMMA HandleKeeps ==
  ASSUME ~KycRaces, KInv, NEW d \in Desks, Handle(d)
  PROVE  /\ Vouched(kyc', approved') /\ TransfersApproved'
         /\ \A q \in Requests : Holds(q)'
         /\ \A g \in Desks : Written(g)'
<1>0. /\ d \in Handlers /\ TypeOK /\ Written(d) /\ Vouched(kyc, approved) /\ kyc \in Kyc
      /\ entity[d] \in Kyc /\ TransfersApproved /\ change \in Where
  BY DEF KInv, Handlers, TypeOK
<1>1. /\ \A h \in Handlers \ {d} : pc[h] \in Ended /\ pc'[h] = pc[h]
      /\ sent' = sent /\ approved \subseteq approved'
  BY <1>0, OutboundAssumption
     DEF money, outside, file, Goto, Take, Move, Handle, SubmitKyc, InsertKyc, SaveKyc, WriteKyc,
         ConfirmBankChange, ApplyChange, ApproveKyc, RejectKyc, Prepare, Quiet, Compare, Write, KInv, Alone, Handlers, TypeOK, Ended
<1>2. TransfersApproved'
  BY <1>0, <1>1 DEF TransfersApproved
<1>3. \A q \in Requests : Holds(q)'
  BY <1>1, OutboundAssumption DEF Holds, WithdrawalSteps, Handlers, Ended
<1>4. \A g \in Desks \ {d} : Written(g)'
  BY <1>1 DEF Written, Handlers, Ended
<1> SUFFICES Vouched(kyc', approved') /\ Written(d)'
  BY <1>2, <1>3, <1>4
<1>5. ASSUME NEW next \in {"save", "insert"}, NEW row, Prepare(d, next, row), Vouched(row, approved'),
             kyc' = kyc
      PROVE  Vouched(kyc', approved') /\ Written(d)'
  <2>1. pc'[d] = next /\ entity'[d] = row
    BY <1>0, <1>5, DeskMoves DEF Prepare, Take
  <2>2. Vouched(kyc', approved')
    BY <1>0, <1>1, <1>5 DEF Vouched
  <2> QED
    BY <1>5, <2>1, <2>2 DEF Written
<1>6. ASSUME NEW a \in Accounts \cup {kyc.account}, SubmitKyc(d, a)
      PROVE  Vouched(kyc', approved') /\ Written(d)'
  <2>0. a \in Where /\ "pending" \in KycStatus /\ NoAccount \in Where /\ kyc.recipient \in Where
    BY <1>0, KycColumns DEF Where, KycStatus
  <2>1. Vouched(Row("pending", a, kyc.recipient), approved) /\ Vouched(Row("pending", a, NoAccount), approved)
    BY <1>0, <2>0, RowShape DEF Vouched
  <2>2. CASE kyc.status = "approved" /\ a # kyc.account
    <3>1. /\ pc[d] = "idle" /\ pc' = pc /\ kyc' = kyc /\ approved' = approved
      BY <1>6, <2>2 DEF SubmitKyc, Prepare, Take, Move
    <3> QED
      BY <1>0, <3>1 DEF Written
  <2>3. CASE kyc.status # "approved" \/ a = kyc.account
    <3>1. kyc' = kyc /\ approved' = approved
      BY <1>6, <2>3 DEF SubmitKyc, file
    <3>2. PICK next \in {"save", "insert"},
                row \in {kyc, Row("pending", a, kyc.recipient), Row("pending", a, NoAccount)} :
            Prepare(d, next, row)
      BY <1>6, <2>3 DEF SubmitKyc
    <3>3. Vouched(row, approved')
      BY <1>0, <2>1, <3>1, <3>2 DEF Vouched
    <3> QED
      BY <1>5, <3>1, <3>2, <3>3
  <2> QED
    BY <2>2, <2>3
<1>7. CASE InsertKyc(d)
  <2>1. pc[d] = "insert" /\ pc'[d] = "idle"
    BY <1>0, <1>7, DeskMoves DEF InsertKyc, Goto, Take
  <2>2. kyc' \in {entity[d], kyc} /\ approved' = approved
    BY <1>7 DEF InsertKyc
  <2> QED
    BY <1>0, <2>1, <2>2 DEF Written
<1>8. CASE SaveKyc(d)
  <2>1. pc[d] = "save" /\ pc'[d] = "write" /\ entity'[d] = entity[d]
    BY <1>0, <1>8, DeskMoves DEF SaveKyc, Compare
  <2>2. kyc' = kyc /\ approved' = approved /\ seen'[d] = kyc
    BY <1>0, <1>8 DEF SaveKyc, Compare, file, TypeOK
  <2> QED
    BY <1>0, <2>1, <2>2 DEF Written
<1>9. CASE WriteKyc(d)
  <2>0. pc[d] = "write" /\ pc'[d] = "idle" /\ approved' = approved
    BY <1>0, <1>9, DeskMoves DEF WriteKyc, Write
  <2>1. seen[d] = kyc /\ Vouched(entity[d], approved)
    BY <1>0, <2>0 DEF Written
  <2>2. kyc' = Row(entity[d].status, entity[d].account, entity[d].recipient)
    BY <1>9, <2>1 DEF WriteKyc, Write, Column
  <2>3. /\ kyc'.status = entity[d].status /\ kyc'.account = entity[d].account
        /\ kyc'.recipient = entity[d].recipient
    BY <1>0, <2>2, RowShape, KycColumns
  <2> QED
    BY <2>0, <2>1, <2>3 DEF Vouched, Written
<1>10. CASE ConfirmBankChange(d)
  <2>1. pc'[d] = "applyChange"
    BY <1>0, <1>10, DeskMoves DEF ConfirmBankChange, Prepare, Take
  <2> QED
    BY <1>0, <1>10, <2>1 DEF ConfirmBankChange, Written
<1>11. CASE ApplyChange(d)
  <2>1. Vouched(Row("pending", entity[d].account, kyc.recipient), approved)
    BY <1>0, RowShape, KycColumns DEF Vouched, KycStatus
  <2>2. /\ pc'[d] = "save"
        /\ entity'[d] = Row("pending", entity[d].account, kyc.recipient)
    BY <1>0, <1>11, DeskMoves DEF ApplyChange, ChangedStatus, Take
  <2>3. kyc' = kyc /\ approved' = approved
    BY <1>11 DEF ApplyChange, file
  <2> QED
    BY <1>0, <2>1, <2>2, <2>3 DEF Written
<1>12. CASE ApproveKyc(d)
  <2> DEFINE row == Row("approved", kyc.account, kyc.recipient)
  <2>1. row.status = "approved" /\ row.account = kyc.account /\ row.recipient = kyc.recipient
    BY <1>0, RowShape, KycColumns DEF KycStatus
  <2>2. Prepare(d, "save", row) /\ kyc' = kyc
    BY <1>12 DEF ApproveKyc
  <2>3. approved' = approved \cup ({kyc.account} \cap Accounts) /\ kyc.account \in Accounts \cup {NoAccount}
    BY <1>0, <1>12, KycColumns DEF ApproveKyc, Where
  <2> HIDE DEF row
  <2>4. Vouched(row, approved')
    BY <1>0, <1>1, <2>1, <2>3 DEF Vouched
  <2> QED
    BY <1>5, <2>2, <2>4
<1>13. CASE RejectKyc(d)
  <2>1. Vouched(Row("rejected", kyc.account, kyc.recipient), approved)
    BY <1>0, RowShape, KycColumns DEF Vouched, KycStatus
  <2>2. Prepare(d, "save", Row("rejected", kyc.account, kyc.recipient))
        /\ kyc' = kyc /\ approved' = approved
    BY <1>13 DEF RejectKyc, file
  <2>3. Vouched(Row("rejected", kyc.account, kyc.recipient), approved')
    BY <2>1, <2>2 DEF Vouched
  <2> QED
    BY <1>5, <2>2, <2>3
<1> QED
  BY <1>6, <1>7, <1>8, <1>9, <1>10, <1>11, <1>12, <1>13 DEF Handle

\* Every step keeps the files in order.
LEMMA FilesStep ==
  ASSUME ~KycRaces, KInv, [Next]_vars
  PROVE  KInv'
<1>1. TypeOK' /\ Alone'
  BY TypeStep, AloneStep DEF KInv
<1>2. ASSUME NEW r \in Requests, Advance(r) PROVE KInv'
  BY <1>1, <1>2, AdvanceKeeps DEF KInv
<1>3. ASSUME NEW d \in Desks, Handle(d) PROVE KInv'
  BY <1>1, <1>3, HandleKeeps DEF KInv
<1>4. ASSUME UNCHANGED <<kyc, approved, sent, seen>>,
             \A h \in Handlers :
               \/ pc'[h] = pc[h] /\ entity'[h] = entity[h]
               \/ pc'[h] \in {"findKyc", "reservePurchase"} /\ h \in Requests
      PROVE  KInv'
  <2>1. \A q \in Requests : Holds(q)'
    BY <1>4 DEF KInv, Holds, Vouched, Handlers, WithdrawalSteps
  <2>2. \A d \in Desks : Written(d)'
    BY <1>4, OutboundAssumption DEF KInv, Written, Vouched, Handlers
  <2> QED
    BY <1>1, <1>4, <2>1, <2>2 DEF KInv, Vouched, TransfersApproved
<1>5. ASSUME NEW r \in Requests, Withdraw(r) \/ \E price \in Prices : Purchase(r, price)
      PROVE  KInv'
  BY <1>4, <1>5 DEF Withdraw, Purchase, Goto, Take, Move, outside, file, KInv, TypeOK, Handlers
<1>6. CASE (\E a \in Prices : Earn(a)) \/ ChangeExpires \/ UNCHANGED vars
  BY <1>4, <1>6 DEF Earn, ChangeExpires, vars, outside, file, money
<1>7. CASE Crash
  <2>1. /\ UNCHANGED <<kyc, approved, sent>>
        /\ \A r \in Requests : pc'[r] \notin WithdrawalSteps
        /\ \A d \in Desks : pc'[d] \notin {"insert", "save", "write"}
    BY <1>7 DEF Crash, outside, file, WithdrawalSteps, Ended, Handlers
  <2> QED
    BY <1>1, <2>1 DEF KInv, Holds, Written, Vouched, TransfersApproved
<1> QED
  BY <1>2, <1>3, <1>5, <1>6, <1>7 DEF Next

\* When no KYC handler overlaps anything, a withdrawal pays only bank details
\* an admin approved: resubmissions, confirmed changes and saved recipient
\* codes never carry another account to Paystack.
THEOREM OnlyApprovedPaid ==
  ASSUME ~KycRaces
  PROVE  Spec => []TransfersApproved
<1>1. Init => KInv
  <2>1. Blank.status = "none" /\ Blank.account = NoAccount /\ Blank.recipient = NoAccount
    BY RowShape DEF Blank, KycStatus, Where
  <2> QED
    BY <2>1, TypeInit, OutboundAssumption
       DEF KInv, Init, Alone, Vouched, Holds, Written, TransfersApproved, WithdrawalSteps, Handlers
<1>2. KInv /\ [Next]_vars => KInv'
  BY FilesStep
<1>3. KInv => TransfersApproved
  BY DEF KInv
<1> QED
  BY <1>1, <1>2, <1>3, PTL DEF Spec
=============================================================================
