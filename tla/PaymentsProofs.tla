--------------------------- MODULE PaymentsProofs ---------------------------
(***************************************************************************)
(* What Payments keeps for any number of requests, deposits and boosts,    *)
(* any amounts, failing statements, lost answers and crashes.              *)
(***************************************************************************)
EXTENDS Payments, TLAPS

Saves == {"save", "write", "hookSave", "hookWrite"}
Credits == {"hookCredit", "credit"}

\* A request knows its charge; past the payments table it is a boost.
Busy(s) ==
  /\ pc[s] # "idle" => job[s] \in Charge
  /\ pc[s] \in Saves \cup Perks => job[s] \in Boosts

TInv == TypeOK /\ \A s \in Slots : Busy(s)

-----------------------------------------------------------------------------

\* Moving a slot on, or freeing it, keeps the slots well typed and busy.
LEMMA GotoTypes ==
  ASSUME TInv, NEW s \in Slots, NEW here \in Steps \ {"idle"}, NEW next \in Steps,
         Goto(s, here, next), next \in Saves \cup Perks => job[s] \in Boosts
  PROVE  /\ pc' \in [Slots -> Steps] /\ job' \in [Slots -> Charge \cup {None}]
         /\ verdict' \in [Slots -> Status] /\ seen' \in [Slots -> Status]
         /\ \A t \in Slots : Busy(t)'
<1>1. job[s] \in Charge
  BY DEF Goto, TInv, Busy
<1>2. /\ pc' \in [Slots -> Steps] /\ job' \in [Slots -> Charge \cup {None}]
      /\ verdict' \in [Slots -> Status] /\ seen' \in [Slots -> Status]
  BY <1>1 DEF Goto, TInv, TypeOK, Status
<1>3. ASSUME NEW t \in Slots PROVE Busy(t)'
  <2>1. CASE t = s
    BY <1>1, <2>1 DEF Goto, TInv, TypeOK, Busy, Saves, Perks
  <2>2. CASE t # s
    BY <2>2 DEF Goto, TInv, TypeOK, Busy
  <2> QED
    BY <2>1, <2>2
<1> QED
  BY <1>2, <1>3

\* So does taking up a request.
LEMMA StartTypes ==
  ASSUME TInv, NEW s \in Slots, NEW next \in Steps \ (Saves \cup Perks), NEW c \in Charge,
         NEW v \in Status, Start(s, next, c, v)
  PROVE  /\ pc' \in [Slots -> Steps] /\ job' \in [Slots -> Charge \cup {None}]
         /\ verdict' \in [Slots -> Status] /\ seen' \in [Slots -> Status]
         /\ \A t \in Slots : Busy(t)'
<1>1. /\ pc' \in [Slots -> Steps] /\ job' \in [Slots -> Charge \cup {None}]
      /\ verdict' \in [Slots -> Status] /\ seen' \in [Slots -> Status]
  BY DEF Start, TInv, TypeOK
<1>2. ASSUME NEW t \in Slots PROVE Busy(t)'
  <2>1. CASE t = s
    BY <2>1 DEF Start, TInv, TypeOK, Busy
  <2>2. CASE t # s
    BY <2>2 DEF Start, TInv, TypeOK, Busy
  <2> QED
    BY <2>1, <2>2
<1> QED
  BY <1>1, <1>2

\* Comparing before a save moves the slot only.
LEMMA CompareTypes ==
  ASSUME TInv, NEW s \in Slots, NEW here \in Saves, NEW write \in Saves, Compare(s, here, write)
  PROVE  TInv'
<1>1. job[s] \in Charge /\ job[s] \in Boosts
  BY DEF Compare, TInv, Busy, Saves
<1>2. TypeOK'
  BY <1>1 DEF Compare, TInv, TypeOK, Steps, Verify, Webhook, Saves, paystack, perks
<1>3. ASSUME NEW t \in Slots PROVE Busy(t)'
  BY <1>1 DEF Compare, TInv, TypeOK, Busy, Saves, Perks, paystack, perks
<1> QED
  BY <1>2, <1>3 DEF TInv

\* A save writes the verdict, or nothing.
LEMMA WriteTypes ==
  ASSUME TInv, NEW s \in Slots, NEW here \in Saves, NEW next \in {"idle", "boost"},
         WritePayment(s, here, next), acked' \subseteq Charge
  PROVE  TInv'
<1>1. job[s] \in Charge /\ job[s] \in Boosts
  BY DEF WritePayment, TInv, Busy, Saves
<1>2. status' \in [Charge -> Status]
  BY <1>1 DEF WritePayment, Written, TInv, TypeOK
<1>3. TypeOK'
  BY <1>1, <1>2 DEF WritePayment, TInv, TypeOK, Steps, Perks, Status, perks
<1>4. ASSUME NEW t \in Slots PROVE Busy(t)'
  <2>1. CASE t = s
    BY <1>1, <2>1 DEF WritePayment, TInv, TypeOK, Busy, Saves, Perks
  <2>2. CASE t # s
    BY <2>2 DEF WritePayment, TInv, TypeOK, Busy
  <2> QED
    BY <2>1, <2>2
<1> QED
  BY <1>3, <1>4 DEF TInv

\* A credit adds a natural amount.
LEMMA CreditTypes ==
  ASSUME TInv, NEW s \in Slots, NEW here \in Credits, Credit(s, here), acked' \subseteq Charge
  PROVE  TInv'
<1>1. job[s] \in Charge
  BY DEF Credit, Goto, TInv, Busy, Credits
<1>2. here \in Steps \ {"idle"} /\ "idle" \in Steps /\ "idle" \notin Saves \cup Perks
  BY DEF Steps, Credits, Webhook, Verify, Saves, Perks
<1>3. Goto(s, here, "idle")
  BY DEF Credit
<1>4. status' \in [Charge -> Status]
  BY <1>1 DEF Credit, Resolved, TInv, TypeOK, Status
<1>5. balance' \in Nat
  <2>1. Amount[job[s]] \in Nat /\ balance \in Nat
    BY <1>1, PaymentsAssumption DEF TInv, TypeOK
  <2> QED
    BY <2>1 DEF Credit
<1> QED
  BY <1>2, <1>3, <1>4, <1>5, GotoTypes DEF Credit, TInv, TypeOK, perks

\* The two lookups only move the slot.
LEMMA LookupTypes ==
  ASSUME TInv, NEW s \in Slots, NEW here \in Steps \ {"idle"}, NEW next \in Steps,
         Goto(s, here, next), next \in Saves \cup Perks => job[s] \in Boosts,
         UNCHANGED <<status, offered, paid, reversed, balance, perks, troubles>>, acked' \subseteq Charge
  PROVE  TInv'
BY GotoTypes DEF TInv, TypeOK, perks

\* Every step of a request keeps the types.
LEMMA TypeRun ==
  ASSUME TInv, NEW s \in Slots, Run(s)
  PROVE  TInv'
<1> USE DEF Steps, Opening, Webhook, Verify, Perks, Saves, Credits
<1>1. CASE SavePending(s)
  <2>1. job[s] \in Charge
    BY <1>1 DEF SavePending, Goto, TInv, Busy
  <2>2. status' \in [Charge -> Status]
    BY <1>1, <2>1 DEF SavePending, TInv, TypeOK, Status
  <2>3. Goto(s, "open", "offer")
    BY <1>1 DEF SavePending
  <2> QED
    BY <1>1, <2>2, <2>3, GotoTypes DEF SavePending, TInv, TypeOK, paystack, perks
<1>2. CASE ReturnUrl(s)
  <2>1. job[s] \in Charge
    BY <1>2 DEF ReturnUrl, Goto, TInv, Busy
  <2>2. Goto(s, "offer", "idle")
    BY <1>2 DEF ReturnUrl
  <2> QED
    BY <1>2, <2>1, <2>2, GotoTypes DEF ReturnUrl, TInv, TypeOK, perks
<1>3. CASE VerifyStep(s)
  <2>0. acked \subseteq Charge
    BY DEF TInv, TypeOK
  <2>1. CASE FindDeposit(s, "deposit", "credit", "payment")
    BY <2>0, <2>1, LookupTypes DEF FindDeposit, paystack
  <2>2. CASE Credit(s, "credit") /\ UNCHANGED acked
    BY <2>0, <2>2, CreditTypes
  <2>3. CASE FindPayment(s, "payment", "save") /\ UNCHANGED acked
    BY <2>0, <2>3, LookupTypes DEF FindPayment
  <2>4. CASE Compare(s, "save", "write")
    BY <2>4, CompareTypes
  <2>5. CASE WritePayment(s, "write", "idle") /\ UNCHANGED acked
    BY <2>0, <2>5, WriteTypes
  <2> QED
    BY <1>3, <2>1, <2>2, <2>3, <2>4, <2>5 DEF VerifyStep
<1>4. CASE WebhookStep(s)
  <2>0. acked \subseteq Charge /\ (pc[s] # "idle" /\ Answer(s) => acked' \subseteq Charge)
    BY DEF TInv, TypeOK, Answer, Busy
  <2>1. CASE FindDeposit(s, "hookDeposit", "hookCredit", "hookPayment")
    BY <2>0, <2>1, LookupTypes DEF FindDeposit, paystack
  <2>2. CASE Credit(s, "hookCredit") /\ Answer(s)
    BY <2>0, <2>2, CreditTypes DEF Credit, Goto
  <2>3. CASE /\ FindPayment(s, "hookPayment", "hookSave")
             /\ IF job[s] \in Boosts THEN UNCHANGED acked ELSE Answer(s)
    BY <2>0, <2>3, LookupTypes DEF FindPayment, Goto
  <2>4. CASE Compare(s, "hookSave", "hookWrite")
    BY <2>4, CompareTypes
  <2>5. CASE WritePayment(s, "hookWrite", "boost") /\ Answer(s)
    BY <2>0, <2>5, WriteTypes DEF WritePayment
  <2> QED
    BY <1>4, <2>1, <2>2, <2>3, <2>4, <2>5 DEF WebhookStep
<1>5. CASE PerkStep(s)
  <2>0. pc[s] \in Perks => job[s] \in Boosts
    BY DEF TInv, Busy
  <2>1. CASE SetBoosted(s)
    <3>1. Goto(s, "boost", "retitle") /\ job[s] \in Boosts
      BY <2>0, <2>1 DEF SetBoosted, Goto
    <3> QED
      BY <2>1, <3>1, GotoTypes DEF SetBoosted, TInv, TypeOK, paystack
  <2>2. CASE Retitle(s)
    <3>1. Goto(s, "retitle", "announce") /\ job[s] \in Boosts
      BY <2>0, <2>2 DEF Retitle, Goto
    <3>2. retitled' \in [Boosts -> Nat]
      BY <2>2, <3>1 DEF Retitle, TInv, TypeOK
    <3> QED
      BY <2>2, <3>1, <3>2, GotoTypes DEF Retitle, TInv, TypeOK, paystack
  <2>3. CASE Announce(s)
    <3>1. Goto(s, "announce", "idle") /\ job[s] \in Boosts
      BY <2>0, <2>3 DEF Announce, Goto
    <3>2. announced' \in [Boosts -> Nat]
      BY <2>3, <3>1 DEF Announce, TInv, TypeOK
    <3> QED
      BY <2>3, <3>1, <3>2, GotoTypes DEF Announce, TInv, TypeOK, paystack
  <2> QED
    BY <1>5, <2>1, <2>2, <2>3 DEF PerkStep
<1> QED
  BY <1>1, <1>2, <1>3, <1>4, <1>5 DEF Run

\* Every step keeps the types.
LEMMA TypeNext ==
  ASSUME TInv, [Next]_vars
  PROVE  TInv'
<1> USE DEF paystack, perks, locals
<1>1. CASE \E c \in Charge : PayAtPaystack(c) \/ ReverseAtPaystack(c) \/ AnswerLost(c)
  BY <1>1 DEF PayAtPaystack, ReverseAtPaystack, AnswerLost, Trouble, TInv, TypeOK, Busy
<1>2. ASSUME NEW s \in Slots, NEW c \in Charge, Initialize(s, c) PROVE TInv'
  <2>1. Start(s, "open", c, "none")
    BY <1>2 DEF Initialize
  <2>2. "open" \in Steps \ (Saves \cup Perks) /\ "none" \in Status
    BY DEF Steps, Opening, Saves, Perks, Status
  <2> QED
    BY <1>2, <2>1, <2>2, StartTypes DEF Initialize, TInv, TypeOK
<1>3. ASSUME NEW s \in Slots, NEW c \in Charge, VerifyPayment(s, c) PROVE TInv'
  <2>1. /\ {"deposit", "payment"} \subseteq Steps \ (Saves \cup Perks)
        /\ Outcome(c) \in Status
    BY DEF Steps, Verify, Saves, Perks, Status, Outcome
  <2>2. PICK p \in {"deposit", "payment"} : Start(s, p, c, Outcome(c))
    BY <1>3 DEF VerifyPayment
  <2> QED
    BY <1>3, <2>1, <2>2, StartTypes DEF VerifyPayment, TInv, TypeOK
<1>4. ASSUME NEW s \in Slots, NEW c \in Charge, NEW e \in Events, HandleWebhook(s, c, e)
      PROVE TInv'
  <2>1. Start(s, "hookDeposit", c, "SUCCESS")
    BY <1>4 DEF HandleWebhook
  <2>2. "hookDeposit" \in Steps \ (Saves \cup Perks) /\ "SUCCESS" \in Status
    BY DEF Steps, Webhook, Saves, Perks, Status
  <2> QED
    BY <1>4, <2>1, <2>2, StartTypes DEF HandleWebhook, TInv, TypeOK
<1>5. ASSUME NEW s \in Slots, StatementFails(s) PROVE TInv'
  BY <1>5 DEF StatementFails, Trouble, TInv, TypeOK, Busy, Steps, Status, Saves, Perks
<1>6. CASE Crash
  BY <1>6 DEF Crash, Trouble, TInv, TypeOK, Busy, Steps, Status, Saves, Perks
<1>7. CASE UNCHANGED vars
  BY <1>7 DEF vars, TInv, TypeOK, Busy
<1> QED
  BY <1>1, <1>2, <1>3, <1>4, <1>5, <1>6, <1>7, TypeRun DEF Next

\* Initially nothing is wrong.
LEMMA TypeInit == Init => TInv
BY DEF Init, TInv, TypeOK, Busy, Steps, Status, Saves, Perks

\* Types: every column, and every local of a request, keeps its type, whatever
\* overlaps; in particular only boosts are looked after by the boost handler.
THEOREM TypeCorrect == Spec => []TypeOK
<1>1. TInv => TypeOK
  BY DEF TInv
<1> QED
  BY TypeInit, TypeNext, <1>1, PTL DEF Spec
-----------------------------------------------------------------------------
(* What is given was paid for, with anything overlapping.                  *)

\* A request that may still give something is about a charge that was paid.
Backed(s) ==
  /\ pc[s] \in Webhook \cup Perks \cup {"deposit", "credit"} => job[s] \in paid
  /\ pc[s] \in Verify /\ verdict[s] = "SUCCESS" => job[s] \in paid

Earned ==
  /\ \A c \in Charge : status[c] = "SUCCESS" => c \in paid
  /\ \A b \in Boosts : b \in boosted \/ retitled[b] > 0 \/ announced[b] > 0 => b \in paid

OInv == TInv /\ Earned /\ \A s \in Slots : Backed(s)

\* A slot that keeps its step, its charge and its verdict is backed as before.
LEMMA BackedStill ==
  ASSUME NEW t \in Slots, Backed(t), paid \subseteq paid',
         \/ pc'[t] = "idle"
         \/ pc'[t] = pc[t] /\ job'[t] = job[t] /\ verdict'[t] = verdict[t]
  PROVE  Backed(t)'
BY DEF Backed, Webhook, Verify, Perks

\* A step of a request is backed if what it does was paid for.
LEMMA BackedRun ==
  ASSUME OInv, NEW s \in Slots, Run(s)
  PROVE  /\ \A t \in Slots : Backed(t)'
         /\ Earned'
<1> USE DEF paystack, perks
<1>0. /\ pc[s] # "idle" /\ job[s] \in Charge /\ Backed(s) /\ TInv /\ Earned
      /\ paid' = paid
      /\ \A t \in Slots \ {s} : pc'[t] = pc[t] /\ job'[t] = job[t] /\ verdict'[t] = verdict[t]
      /\ pc'[s] # "idle" => job'[s] = job[s]
  BY DEF OInv, Run, SavePending, ReturnUrl, VerifyStep, WebhookStep, PerkStep, FindDeposit,
     FindPayment, Credit, Compare, WritePayment, SetBoosted, Retitle, Announce, Goto, TInv, TypeOK,
     Busy
<1>1. \A t \in Slots \ {s} : Backed(t)'
  BY <1>0, BackedStill DEF OInv
<1> SUFFICES Backed(s)' /\ Earned'
  BY <1>1
<1>2. CASE SavePending(s) \/ ReturnUrl(s)
  <2>1. /\ pc'[s] \in {"offer", "idle"} /\ UNCHANGED <<boosted, retitled, announced>>
        /\ status' \in {status, [status EXCEPT ![job[s]] = "PENDING"]}
    BY <1>2 DEF SavePending, ReturnUrl, Goto, TInv, TypeOK, OInv
  <2>2. Backed(s)'
    BY <2>1 DEF Backed, Webhook, Verify, Perks
  <2> QED
    BY <1>0, <2>1, <2>2 DEF Earned, TInv, TypeOK
<1>3. CASE \/ FindDeposit(s, "deposit", "credit", "payment")
           \/ FindDeposit(s, "hookDeposit", "hookCredit", "hookPayment")
           \/ FindPayment(s, "payment", "save")
           \/ FindPayment(s, "hookPayment", "hookSave")
  <2>1. /\ UNCHANGED <<status, boosted, retitled, announced>>
        /\ pc'[s] # "idle" => verdict'[s] = verdict[s]
        /\ pc'[s] \in Webhook => pc[s] \in Webhook
        /\ pc'[s] \in Verify => pc[s] \in Verify
        /\ pc'[s] = "credit" => pc[s] = "deposit"
        /\ pc'[s] \notin Perks \cup {"deposit"}
    BY <1>0, <1>3 DEF FindDeposit, FindPayment, Goto, TInv, TypeOK, Webhook, Verify, Perks
  <2>2. Backed(s)'
    BY <1>0, <2>1 DEF Backed, Webhook, Verify, Perks
  <2> QED
    BY <1>0, <2>1, <2>2 DEF Earned
<1>4. CASE Credit(s, "credit") \/ Credit(s, "hookCredit")
  <2>1. /\ pc[s] \in {"credit", "hookCredit"} /\ pc'[s] = "idle"
        /\ status' = [status EXCEPT ![job[s]] = "SUCCESS"]
        /\ UNCHANGED <<boosted, retitled, announced>>
    BY <1>0, <1>4 DEF Credit, Resolved, Goto, TInv, TypeOK
  <2>2. job[s] \in paid
    BY <1>0, <2>1 DEF Backed, Webhook
  <2>3. Backed(s)'
    BY <2>1 DEF Backed, Webhook, Verify, Perks
  <2> QED
    BY <1>0, <2>1, <2>2, <2>3 DEF Earned, TInv, TypeOK
<1>5. CASE Compare(s, "save", "write") \/ Compare(s, "hookSave", "hookWrite")
  <2>1. /\ UNCHANGED <<status, boosted, retitled, announced, verdict>>
        /\ \/ pc[s] = "save" /\ pc'[s] = "write"
           \/ pc[s] = "hookSave" /\ pc'[s] = "hookWrite"
    BY <1>0, <1>5 DEF Compare, TInv, TypeOK
  <2>2. Backed(s)'
    BY <1>0, <2>1 DEF Backed, Webhook, Verify, Perks
  <2> QED
    BY <1>0, <2>1, <2>2 DEF Earned
<1>6. CASE WritePayment(s, "write", "idle") \/ WritePayment(s, "hookWrite", "boost")
  <2>1. /\ UNCHANGED <<boosted, retitled, announced>>
        /\ status' \in {status, [status EXCEPT ![job[s]] = verdict[s]]}
        /\ \/ pc[s] = "write" /\ pc'[s] = "idle"
           \/ pc[s] = "hookWrite" /\ pc'[s] = "boost"
    BY <1>0, <1>6 DEF WritePayment, Written, TInv, TypeOK
  <2>2. verdict[s] = "SUCCESS" \/ pc[s] = "hookWrite" => job[s] \in paid
    BY <1>0, <2>1 DEF Backed, Webhook, Verify
  <2>3. Backed(s)'
    BY <1>0, <2>1, <2>2 DEF Backed, Webhook, Verify, Perks
  <2> QED
    BY <1>0, <2>1, <2>2, <2>3 DEF Earned, TInv, TypeOK
<1>7. CASE PerkStep(s)
  <2>1. /\ pc[s] \in Perks /\ pc'[s] \in {"retitle", "announce", "idle"} /\ UNCHANGED status
        /\ boosted' \subseteq boosted \cup {job[s]}
        /\ \A b \in Boosts \ {job[s]} : retitled'[b] = retitled[b] /\ announced'[b] = announced[b]
    BY <1>0, <1>7 DEF PerkStep, SetBoosted, Retitle, Announce, Goto, Perks, TInv, TypeOK
  <2>2. job[s] \in paid
    BY <1>0, <2>1 DEF Backed
  <2>3. Backed(s)'
    BY <1>0, <2>1, <2>2 DEF Backed, Webhook, Verify, Perks
  <2> QED
    BY <1>0, <2>1, <2>2, <2>3 DEF Earned
<1> QED
  BY <1>2, <1>3, <1>4, <1>5, <1>6, <1>7 DEF Run, VerifyStep, WebhookStep

\* Every step is backed.
LEMMA BackedNext ==
  ASSUME OInv, [Next]_vars
  PROVE  OInv'
<1> USE DEF paystack, perks, locals
<1>0. TInv'
  BY TypeNext DEF OInv
<1>1. ASSUME UNCHANGED <<status, boosted, retitled, announced>>, paid \subseteq paid',
             \A t \in Slots :
               \/ pc'[t] = "idle"
               \/ pc'[t] = pc[t] /\ job'[t] = job[t] /\ verdict'[t] = verdict[t]
      PROVE  OInv'
  BY <1>0, <1>1, BackedStill DEF OInv, Earned
<1>2. CASE \E c \in Charge : PayAtPaystack(c) \/ ReverseAtPaystack(c) \/ AnswerLost(c)
  BY <1>1, <1>2 DEF PayAtPaystack, ReverseAtPaystack, AnswerLost
<1>3. ASSUME NEW s \in Slots, NEW c \in Charge, NEW v \in Status,
             NEW next \in {"open", "deposit", "payment", "hookDeposit"}, Start(s, next, c, v),
             UNCHANGED <<status, paid, boosted, retitled, announced>>,
             v = "SUCCESS" \/ next \in {"deposit", "hookDeposit"} => c \in paid
      PROVE  OInv'
  <2>1. /\ \A t \in Slots \ {s} : pc'[t] = pc[t] /\ job'[t] = job[t] /\ verdict'[t] = verdict[t]
        /\ pc'[s] = next /\ job'[s] = c /\ verdict'[s] = v
    BY <1>3 DEF Start, OInv, TInv, TypeOK
  <2>2. \A t \in Slots \ {s} : Backed(t)'
    BY <1>3, <2>1, BackedStill DEF OInv
  <2>3. Backed(s)'
    BY <1>3, <2>1 DEF Backed, Webhook, Verify, Perks
  <2> QED
    BY <1>0, <1>3, <2>2, <2>3 DEF OInv, Earned
<1>4. ASSUME NEW s \in Slots, NEW c \in Charge, Initialize(s, c) PROVE OInv'
  BY <1>3, <1>4 DEF Initialize, Status
<1>5. ASSUME NEW s \in Slots, NEW c \in Charge, VerifyPayment(s, c) PROVE OInv'
  <2>1. Outcome(c) \in Status /\ (Outcome(c) = "SUCCESS" => c \in paid)
    BY DEF Outcome, Status
  <2>2. PICK next \in {"deposit", "payment"} :
          Start(s, next, c, Outcome(c)) /\ (next = "deposit" => Outcome(c) = "SUCCESS")
    BY <1>5 DEF VerifyPayment
  <2> QED
    BY <1>3, <1>5, <2>1, <2>2 DEF VerifyPayment
<1>6. ASSUME NEW s \in Slots, NEW c \in Charge, NEW e \in Events, HandleWebhook(s, c, e)
      PROVE  OInv'
  BY <1>3, <1>6 DEF HandleWebhook, Sends, Concerns, Status
<1>7. ASSUME NEW s \in Slots, Run(s) PROVE OInv'
  BY <1>0, <1>7, BackedRun DEF OInv
<1>8. ASSUME NEW s \in Slots, StatementFails(s) PROVE OInv'
  <2>1. \A t \in Slots :
          \/ pc'[t] = "idle"
          \/ pc'[t] = pc[t] /\ job'[t] = job[t] /\ verdict'[t] = verdict[t]
    BY <1>8 DEF StatementFails, OInv, TInv, TypeOK
  <2> QED
    BY <1>1, <1>8, <2>1 DEF StatementFails
<1>9. CASE Crash
  BY <1>1, <1>9 DEF Crash
<1>10. CASE UNCHANGED vars
  BY <1>1, <1>10 DEF vars
<1> QED
  BY <1>2, <1>4, <1>5, <1>6, <1>7, <1>8, <1>9, <1>10 DEF Next

\* Initially nothing is given.
LEMMA BackedInit == Init => OInv
BY TypeInit DEF Init, OInv, Earned, Backed, Webhook, Verify, Perks

\* No deposit is credited and no perk given for a charge that was never paid,
\* whatever overlaps, fails, dies, gets lost or is sent again.
THEOREM PaidBeforeGiven == Spec => []OnlyPaidIsGiven
<1>1. OInv => OnlyPaidIsGiven
  BY PaymentsAssumption DEF OInv, Earned, OnlyPaidIsGiven, TInv, TypeOK, Charge
<1> QED
  BY <1>1, BackedInit, BackedNext, PTL DEF Spec

-----------------------------------------------------------------------------
(* Deposits, with anything overlapping.                                    *)

\* What the step a request is at says of the deposit it is about.
Tracks(p, now) ==
  /\ p = "open" => now = "none"
  /\ p = "offer" => now # "none"
  /\ p = "hookPayment" => now = "SUCCESS"

\* A deposit's row is there before its checkout is, goes from PENDING to SUCCESS
\* and no way back, and is SUCCESS when Paystack has its answer.
Recorded ==
  /\ paid \subseteq offered
  /\ \A d \in Deposits :
       /\ status[d] \in {"none", "PENDING", "SUCCESS"}
       /\ d \in offered => status[d] # "none"
       /\ d \in acked => status[d] = "SUCCESS"
  /\ \A s \in Slots :
       /\ Confirming(s) => job[s] \in offered
       /\ job[s] \in Deposits => Tracks(pc[s], status[job[s]])
  /\ \A s, t \in Slots : s # t /\ pc[s] \in Opening /\ pc[t] \in Opening => job[s] # job[t]

\* Slots whose steps and deposits stay as they were.
LEMMA RecordedStill ==
  ASSUME TInv, Recorded, UNCHANGED <<status, paid, offered>>, acked' \subseteq acked,
         \A t \in Slots : pc'[t] = "idle" \/ (pc'[t] = pc[t] /\ job'[t] = job[t])
  PROVE  Recorded'
<1>1. \A t \in Slots : /\ Confirming(t)' => Confirming(t) /\ job'[t] = job[t]
                       /\ pc'[t] \in Opening => pc[t] \in Opening /\ job'[t] = job[t]
  BY DEF Confirming, Webhook, Verify, Opening
<1>2. \A t \in Slots : job'[t] \in Deposits => Tracks(pc'[t], status[job'[t]])
  BY DEF Recorded, Tracks
<1> QED
  BY <1>1, <1>2 DEF Recorded

\* A slot that goes on may move its own deposit forward, unless another is about
\* to save its row.
LEMMA RecordedMove ==
  ASSUME TInv, Recorded, NEW s \in Slots, pc[s] # "idle",
         \A t \in Slots \ {s} : pc'[t] = pc[t] /\ job'[t] = job[t],
         pc'[s] # "idle" => job'[s] = job[s],
         pc'[s] \in Webhook \cup Verify => Confirming(s),
         pc'[s] \in Opening => pc[s] \in Opening,
         UNCHANGED paid, offered \subseteq offered', acked \subseteq acked',
         \A d \in Deposits : d \in offered' \ offered => status'[d] # "none",
         \A d \in Deposits : d \in acked' \ acked => status'[d] = "SUCCESS",
         \A d \in Deposits : d # job[s] => status'[d] = status[d],
         job[s] \in Deposits =>
           /\ Tracks(pc'[s], status'[job[s]])
           /\ \/ status'[job[s]] = status[job[s]]
              \/ /\ status'[job[s]] = "PENDING" /\ status[job[s]] = "none"
                 /\ \A t \in Slots \ {s} : pc[t] \in Opening => job[t] # job[s]
              \/ /\ status'[job[s]] = "SUCCESS" /\ job[s] \in offered
  PROVE  Recorded'
<1>1. \A d \in Deposits : /\ status'[d] \in {"none", "PENDING", "SUCCESS"}
                          /\ status[d] # "none" => status'[d] # "none"
                          /\ status[d] = "SUCCESS" => status'[d] = "SUCCESS"
  BY DEF Recorded
<1>2. \A d \in Deposits : /\ d \in offered' => status'[d] # "none"
                          /\ d \in acked' => status'[d] = "SUCCESS"
  BY <1>1 DEF Recorded
<1>3. ASSUME NEW t \in Slots PROVE Confirming(t)' => job'[t] \in offered'
  <2>1. Confirming(t)' => Confirming(t) /\ job'[t] = job[t]
    BY DEF Confirming, Webhook, Verify
  <2> QED
    BY <2>1 DEF Recorded
<1>4. ASSUME NEW t \in Slots, job'[t] \in Deposits PROVE Tracks(pc'[t], status'[job'[t]])
  <2>1. CASE t = s
    BY <1>4, <2>1 DEF Tracks
  <2>2. CASE t # s
    <3>1. pc'[t] = pc[t] /\ job'[t] = job[t] /\ Tracks(pc[t], status[job[t]])
      BY <1>4, <2>2 DEF Recorded
    <3>2. CASE job[t] # job[s]
      BY <1>4, <3>1, <3>2
    <3>3. CASE job[t] = job[s]
      BY <1>1, <1>4, <2>2, <3>1, <3>3 DEF Tracks, Opening, Recorded
    <3> QED
      BY <3>2, <3>3
  <2> QED
    BY <2>1, <2>2
<1>5. ASSUME NEW t \in Slots, NEW u \in Slots, t # u, pc'[t] \in Opening, pc'[u] \in Opening
      PROVE  job'[t] # job'[u]
  <2>1. \A v \in {t, u} : pc[v] \in Opening /\ job'[v] = job[v]
    BY <1>5 DEF Opening
  <2> QED
    BY <1>5, <2>1 DEF Recorded
<1>6. paid' \subseteq offered'
  BY DEF Recorded
<1> QED
  BY <1>2, <1>1, <1>3, <1>4, <1>5, <1>6 DEF Recorded

\* Taking up a request.
LEMMA RecordedStart ==
  ASSUME TInv, Recorded, NEW s \in Slots, NEW c \in Charge, NEW v,
         NEW next \in {"open", "deposit", "payment", "hookDeposit"}, Start(s, next, c, v),
         UNCHANGED <<status, paid, offered, acked>>,
         next = "open" =>
           status[c] = "none" /\ \A t \in Slots : ~(pc[t] \in Opening /\ job[t] = c),
         next # "open" => c \in offered
  PROVE  Recorded'
<1>1. /\ pc'[s] = next /\ job'[s] = c
      /\ \A t \in Slots \ {s} : pc'[t] = pc[t] /\ job'[t] = job[t]
  BY DEF Start, TInv, TypeOK
<1>2. \A t \in Slots : Confirming(t)' => job'[t] \in offered
  BY <1>1 DEF Confirming, Webhook, Verify, Recorded
<1>3. \A t \in Slots : job'[t] \in Deposits => Tracks(pc'[t], status[job'[t]])
  BY <1>1 DEF Tracks, Recorded
<1>4. pc'[s] \in Opening => \A t \in Slots \ {s} : pc'[t] \in Opening => job'[t] # job'[s]
  BY <1>1 DEF Opening
<1> QED
  BY <1>1, <1>2, <1>3, <1>4 DEF Recorded

\* A deposit is on record whatever a request does next.
LEMMA RecordedRun ==
  ASSUME TInv, Recorded, NEW s \in Slots, Run(s)
  PROVE  Recorded'
<1> USE DEF paystack
<1>0. /\ pc[s] # "idle" /\ job[s] \in Charge /\ status \in [Charge -> Status]
      /\ \A t \in Slots \ {s} : pc'[t] = pc[t] /\ job'[t] = job[t]
      /\ pc'[s] # "idle" => job'[s] = job[s]
  BY DEF Run, SavePending, ReturnUrl, VerifyStep, WebhookStep, PerkStep, FindDeposit, FindPayment,
     Credit, Compare, WritePayment, SetBoosted, Retitle, Announce, Goto, TInv, TypeOK, Busy
<1>a. Deposits \subseteq Charge /\ Deposits \cap Boosts = {}
  BY PaymentsAssumption DEF Charge
<1>1. CASE SavePending(s)
  <2>1. pc[s] = "open" /\ pc'[s] = "offer" /\ status' = [status EXCEPT ![job[s]] = "PENDING"]
    BY <1>1 DEF SavePending, Goto, TInv, TypeOK
  <2>2. \A t \in Slots \ {s} : pc[t] \in Opening => job[t] # job[s]
    BY <2>1 DEF Recorded, Opening
  <2>3. job[s] \in Deposits => status[job[s]] = "none"
    BY <2>1 DEF Recorded, Tracks
  <2> QED
    BY <1>0, <1>a, <1>1, <2>1, <2>2, <2>3, RecordedMove
       DEF SavePending, Tracks, Opening, Webhook, Verify
<1>2. CASE ReturnUrl(s)
  <2>1. pc[s] = "offer" /\ pc'[s] = "idle" /\ offered' = offered \cup {job[s]}
        /\ UNCHANGED <<status, paid, acked>>
    BY <1>2 DEF ReturnUrl, Goto, TInv, TypeOK
  <2>2. job[s] \in Deposits => status[job[s]] # "none"
    BY <2>1 DEF Recorded, Tracks
  <2> QED
    BY <1>0, <2>1, <2>2, RecordedMove DEF Tracks, Opening, Webhook, Verify
<1>3. CASE \/ FindDeposit(s, "deposit", "credit", "payment")
           \/ FindDeposit(s, "hookDeposit", "hookCredit", "hookPayment")
  <2>1. /\ pc[s] \in {"deposit", "hookDeposit"}
        /\ pc'[s] \in {"credit", "payment", "hookCredit", "hookPayment"}
        /\ pc'[s] = "hookPayment" => ~Awaits(job[s])
        /\ UNCHANGED <<status, paid, offered, acked>>
    BY <1>3 DEF FindDeposit, Goto, TInv, TypeOK
  <2>2. Confirming(s) /\ job[s] \in offered
    BY <2>1 DEF Confirming, Webhook, Verify, Recorded
  <2>3. job[s] \in Deposits => Tracks(pc'[s], status[job[s]])
    BY <2>1, <2>2 DEF Tracks, Awaits, Recorded
  <2> QED
    BY <1>0, <2>1, <2>2, <2>3, RecordedMove DEF Opening
<1>4. CASE (Credit(s, "credit") /\ UNCHANGED acked) \/ (Credit(s, "hookCredit") /\ Answer(s))
  <2>1. /\ pc[s] \in {"credit", "hookCredit"} /\ pc'[s] = "idle"
        /\ status' = [status EXCEPT ![job[s]] = "SUCCESS"]
        /\ acked' \in {acked, acked \cup {job[s]}} /\ UNCHANGED <<paid, offered>>
    BY <1>4 DEF Credit, Resolved, Goto, Answer, TInv, TypeOK
  <2>2. job[s] \in offered
    BY <2>1 DEF Confirming, Webhook, Verify, Recorded
  <2> QED
    BY <1>0, <1>a, <2>1, <2>2, RecordedMove DEF Tracks, Opening, Webhook, Verify
<1>5. CASE \/ FindPayment(s, "payment", "save") /\ UNCHANGED acked
           \/ /\ FindPayment(s, "hookPayment", "hookSave")
              /\ IF job[s] \in Boosts THEN UNCHANGED acked ELSE Answer(s)
  <2>1. /\ pc[s] \in {"payment", "hookPayment"} /\ pc'[s] \in {"idle", "save", "hookSave"}
        /\ UNCHANGED <<status, paid, offered>>
        /\ \/ UNCHANGED acked
           \/ pc[s] = "hookPayment" /\ acked' = acked \cup {job[s]}
    BY <1>5 DEF FindPayment, Goto, Answer, TInv, TypeOK
  <2>2. pc[s] = "hookPayment" /\ job[s] \in Deposits => status[job[s]] = "SUCCESS"
    BY DEF Recorded, Tracks
  <2>3. Confirming(s)
    BY <2>1 DEF Confirming, Webhook, Verify
  <2> QED
    BY <1>0, <2>1, <2>2, <2>3, RecordedMove DEF Tracks, Opening
<1>6. CASE Compare(s, "save", "write") \/ Compare(s, "hookSave", "hookWrite")
  <2>1. /\ pc[s] \in Saves /\ pc'[s] \in {"write", "hookWrite"}
        /\ UNCHANGED <<status, paid, offered, acked>>
    BY <1>6 DEF Compare, Saves, TInv, TypeOK
  <2>2. Confirming(s)
    BY <2>1 DEF Confirming, Webhook, Verify, Saves
  <2> QED
    BY <1>0, <2>1, <2>2, RecordedMove DEF Tracks, Opening
<1>7. CASE \/ WritePayment(s, "write", "idle") /\ UNCHANGED acked
           \/ WritePayment(s, "hookWrite", "boost") /\ Answer(s)
  <2>1. /\ pc[s] \in Saves /\ pc'[s] \in {"idle", "boost"} /\ status' = Written(s)
        /\ acked' \in {acked, acked \cup {job[s]}} /\ UNCHANGED <<paid, offered>>
    BY <1>7 DEF WritePayment, Saves, Answer, TInv, TypeOK
  <2>2. job[s] \notin Deposits
    BY <1>a, <2>1 DEF TInv, Busy
  <2>3. \A d \in Deposits : status'[d] = status[d]
    BY <1>a, <2>1, <2>2 DEF Written, TInv, TypeOK
  <2> QED
    BY <1>0, <2>1, <2>2, <2>3, RecordedMove DEF Opening, Webhook, Verify
<1>8. CASE PerkStep(s)
  <2>1. /\ pc[s] \in Perks /\ pc'[s] \in {"retitle", "announce", "idle"}
        /\ UNCHANGED <<status, paid, offered, acked>>
    BY <1>8 DEF PerkStep, SetBoosted, Retitle, Announce, Goto, Perks, TInv, TypeOK
  <2> QED
    BY <1>0, <2>1, RecordedMove DEF Tracks, Opening, Webhook, Verify
<1> QED
  BY <1>1, <1>2, <1>3, <1>4, <1>5, <1>6, <1>7, <1>8 DEF Run, VerifyStep, WebhookStep

\* Every step keeps the record.
LEMMA RecordedNext ==
  ASSUME TInv, Recorded, [Next]_vars
  PROVE  Recorded'
<1> USE DEF paystack, perks, locals
<1>1. ASSUME NEW c \in Charge, PayAtPaystack(c) PROVE Recorded'
  BY <1>1 DEF PayAtPaystack, Recorded, Confirming
<1>2. ASSUME NEW c \in Charge, ReverseAtPaystack(c) \/ AnswerLost(c) PROVE Recorded'
  BY <1>2, RecordedStill DEF ReverseAtPaystack, AnswerLost
<1>3. ASSUME NEW s \in Slots, NEW c \in Charge, Initialize(s, c) PROVE Recorded'
  BY <1>3, RecordedStart DEF Initialize
<1>4. ASSUME NEW s \in Slots, NEW c \in Charge, VerifyPayment(s, c) PROVE Recorded'
  BY <1>4, RecordedStart DEF VerifyPayment
<1>5. ASSUME NEW s \in Slots, NEW c \in Charge, NEW e \in Events, HandleWebhook(s, c, e)
      PROVE  Recorded'
  BY <1>5, RecordedStart DEF HandleWebhook, Sends, Concerns, Recorded
<1>6. ASSUME NEW s \in Slots, StatementFails(s) PROVE Recorded'
  <2>1. \A t \in Slots : pc'[t] = "idle" \/ (pc'[t] = pc[t] /\ job'[t] = job[t])
    BY <1>6 DEF StatementFails, TInv, TypeOK
  <2> QED
    BY <1>6, <2>1, RecordedStill DEF StatementFails
<1>7. CASE Crash
  BY <1>7, RecordedStill DEF Crash
<1>8. CASE UNCHANGED vars
  BY <1>8, RecordedStill DEF vars
<1> QED
  BY <1>1, <1>2, <1>3, <1>4, <1>5, <1>6, <1>7, <1>8, RecordedRun DEF Next

\* Initially there is no deposit.
LEMMA RecordedInit == Init => Recorded
BY PaymentsAssumption
   DEF Init, Recorded, Charge, Confirming, Webhook, Verify, Opening, Tracks

\* A deposit that was paid is in the wallet, or Paystack is still going to say so.
NoDepositForgotten ==
  \A d \in Deposits : d \in paid /\ status[d] # "SUCCESS" => Sends(d, "charge.success")

\* The webhook answers a charge.success about a deposit only when its money is
\* in the wallet (a statement that fails makes handleWebhook throw), whatever
\* overlaps, fails, dies or gets lost: all that PaidDepositCredited needs of
\* Paystack is to go on sending.
THEOREM AnsweredIsCredited == Spec => []NoDepositForgotten
<1>1. Init => Recorded
  BY RecordedInit
<1>2. TInv /\ Recorded /\ [Next]_vars => TInv' /\ Recorded'
  BY TypeNext, RecordedNext
<1>3. Recorded => NoDepositForgotten
  BY DEF Recorded, NoDepositForgotten, Sends
<1> QED
  BY <1>1, <1>2, <1>3, TypeInit, PTL DEF Spec

-----------------------------------------------------------------------------
(* Deposits, when two confirmations of one of them do not overlap.         *)

\* A deposit about to be credited is PENDING, and nobody else confirms it.
Single ==
  /\ \A s \in Slots :
       pc[s] \in Credits => job[s] \in Deposits /\ status[job[s]] = "PENDING"
  /\ \A s, t \in Slots :
       s # t /\ job[s] = job[t] /\ job[s] \in Deposits => ~(Confirming(s) /\ Confirming(t))

KInv == OInv /\ Recorded /\ Single

\* Slots that confirm what they confirmed before stay single, if no row of a
\* deposit about to be credited changes.
LEMMA SingleStill ==
  ASSUME Single,
         \A t \in Slots : Confirming(t)' => Confirming(t) /\ job'[t] = job[t],
         \A t \in Slots : pc'[t] \in Credits =>
           \/ job'[t] \in Deposits /\ status'[job'[t]] = "PENDING"
           \/ pc[t] \in Credits /\ job'[t] = job[t] /\ status'[job[t]] = status[job[t]]
  PROVE  Single'
BY DEF Single

\* A step of a request leaves the deposits single.
LEMMA SingleRun ==
  ASSUME KInv, NEW s \in Slots, Run(s)
  PROVE  Single'
<1> USE DEF paystack
<1>0. /\ pc[s] # "idle" /\ job[s] \in Charge /\ status \in [Charge -> Status] /\ TInv
      /\ \A t \in Slots \ {s} : pc'[t] = pc[t] /\ job'[t] = job[t]
      /\ pc'[s] # "idle" => job'[s] = job[s]
      /\ Deposits \subseteq Charge /\ Deposits \cap Boosts = {}
  BY PaymentsAssumption
     DEF KInv, OInv, Run, SavePending, ReturnUrl, VerifyStep, WebhookStep, PerkStep, FindDeposit,
         FindPayment, Credit, Compare, WritePayment, SetBoosted, Retitle, Announce, Goto, TInv, TypeOK,
         Busy, Charge
<1>1. ASSUME pc'[s] \in Webhook \cup Verify => Confirming(s),
             pc'[s] \in Credits => job[s] \in Deposits /\ status'[job[s]] = "PENDING",
             \A t \in Slots \ {s} : pc[t] \in Credits => status'[job[t]] = status[job[t]]
      PROVE  Single'
  <2>1. \A t \in Slots : Confirming(t)' => Confirming(t) /\ job'[t] = job[t]
    BY <1>0, <1>1 DEF Confirming, Webhook, Verify
  <2>2. ASSUME NEW t \in Slots, pc'[t] \in Credits
        PROVE  \/ job'[t] \in Deposits /\ status'[job'[t]] = "PENDING"
               \/ pc[t] \in Credits /\ job'[t] = job[t] /\ status'[job[t]] = status[job[t]]
    BY <1>0, <1>1, <2>2 DEF Credits
  <2> QED
    BY <2>1, <2>2, SingleStill DEF KInv
<1>2. CASE SavePending(s)
  <2>1. pc[s] = "open" /\ pc'[s] = "offer" /\ status' = [status EXCEPT ![job[s]] = "PENDING"]
    BY <1>0, <1>2 DEF SavePending, Goto, TInv, TypeOK
  <2>2. job[s] \in Deposits => status[job[s]] = "none"
    BY <2>1 DEF KInv, Recorded, Tracks
  <2>3. \A t \in Slots : pc[t] \in Credits => job[t] # job[s]
    BY <2>2 DEF KInv, Single
  <2> QED
    BY <1>0, <1>1, <2>1, <2>3 DEF Webhook, Verify, Credits
<1>3. CASE \/ FindDeposit(s, "deposit", "credit", "payment")
           \/ FindDeposit(s, "hookDeposit", "hookCredit", "hookPayment")
  <2>1. /\ pc[s] \in {"deposit", "hookDeposit"} /\ status' = status
        /\ pc'[s] \in Credits => Awaits(job[s])
    BY <1>0, <1>3 DEF FindDeposit, Goto, TInv, TypeOK, Credits
  <2> QED
    BY <1>1, <2>1 DEF Confirming, Webhook, Verify, Awaits
<1>4. CASE Credit(s, "credit") \/ Credit(s, "hookCredit")
  <2>1. /\ pc[s] \in Credits /\ pc'[s] = "idle"
        /\ status' = [status EXCEPT ![job[s]] = "SUCCESS"]
    BY <1>0, <1>4 DEF Credit, Resolved, Goto, TInv, TypeOK, Credits
  <2>2. \A t \in Slots : pc[t] \in Credits => Confirming(t) /\ job[t] \in Deposits
    BY DEF KInv, Single, Confirming, Credits, Webhook, Verify
  <2>3. \A t \in Slots \ {s} : pc[t] \in Credits => job[t] # job[s]
    BY <2>1, <2>2 DEF KInv, Single
  <2> QED
    BY <1>0, <1>1, <2>1, <2>3 DEF Webhook, Verify, Credits
<1>5. CASE WritePayment(s, "write", "idle") \/ WritePayment(s, "hookWrite", "boost")
  <2>1. /\ pc[s] \in Saves /\ pc'[s] \in {"idle", "boost"}
        /\ status' \in {status, [status EXCEPT ![job[s]] = verdict[s]]}
    BY <1>0, <1>5 DEF WritePayment, Written, Saves, TInv, TypeOK
  <2>2. job[s] \in Boosts
    BY <1>0, <2>1 DEF TInv, Busy
  <2>3. \A t \in Slots : pc[t] \in Credits => status'[job[t]] = status[job[t]]
    BY <1>0, <2>1, <2>2 DEF KInv, Single
  <2> QED
    BY <1>1, <2>1, <2>3 DEF Webhook, Verify, Credits
<1>6. CASE \/ ReturnUrl(s)
           \/ FindPayment(s, "payment", "save") \/ FindPayment(s, "hookPayment", "hookSave")
           \/ Compare(s, "save", "write") \/ Compare(s, "hookSave", "hookWrite")
           \/ PerkStep(s)
  <2>1. /\ status' = status /\ pc'[s] \notin Credits
        /\ pc'[s] \in Webhook \cup Verify => pc[s] \in Webhook \cup Verify
    BY <1>0, <1>6 DEF ReturnUrl, FindPayment, Compare, PerkStep, SetBoosted, Retitle, Announce, Goto,
       TInv, TypeOK, Credits, Webhook, Verify
  <2> QED
    BY <1>1, <2>1 DEF Confirming
<1> QED
  BY <1>2, <1>3, <1>4, <1>5, <1>6 DEF Run, VerifyStep, WebhookStep

\* Every step keeps the deposits single when their confirmations wait for each
\* other.
LEMMA KNext ==
  ASSUME KInv, ~Races, [Next]_vars
  PROVE  KInv'
<1> USE DEF paystack, perks, locals
<1>0. OInv' /\ Recorded'
  BY BackedNext, RecordedNext DEF KInv, OInv
<1> SUFFICES Single'
  BY <1>0 DEF KInv
<1>1. ASSUME UNCHANGED status,
             \A t \in Slots : pc'[t] = "idle" \/ (pc'[t] = pc[t] /\ job'[t] = job[t])
      PROVE  Single'
  BY <1>1, SingleStill DEF KInv, Confirming, Webhook, Verify, Credits
<1>2. CASE \E c \in Charge : PayAtPaystack(c) \/ ReverseAtPaystack(c) \/ AnswerLost(c)
  BY <1>1, <1>2 DEF PayAtPaystack, ReverseAtPaystack, AnswerLost
<1>3. ASSUME NEW s \in Slots, NEW c \in Charge, NEW v,
             NEW next \in {"open", "deposit", "payment", "hookDeposit"}, Start(s, next, c, v),
             UNCHANGED status, next # "open" => Quiet(c)
      PROVE  Single'
  <2>1. /\ \A t \in Slots \ {s} : pc'[t] = pc[t] /\ job'[t] = job[t]
        /\ pc'[s] = next /\ job'[s] = c
    BY <1>3 DEF Start, KInv, OInv, TInv, TypeOK
  <2>2. \A t \in Slots : pc'[t] \in Credits => pc[t] \in Credits /\ job'[t] = job[t]
    BY <2>1 DEF Credits
  <2>3. \A t \in Slots \ {s} : Confirming(t)' = Confirming(t) /\ job'[t] = job[t]
    BY <2>1 DEF Confirming
  <2>4. Confirming(s)' /\ c \in Deposits => \A t \in Slots : Confirming(t) => job[t] # c
    BY <1>3, <2>1 DEF Confirming, Webhook, Verify, Quiet
  <2> QED
    BY <1>3, <2>1, <2>2, <2>3, <2>4 DEF KInv, Single
<1>4. ASSUME NEW s \in Slots, NEW c \in Charge, Initialize(s, c) PROVE Single'
  BY <1>3, <1>4 DEF Initialize
<1>5. ASSUME NEW s \in Slots, NEW c \in Charge, VerifyPayment(s, c) PROVE Single'
  BY <1>3, <1>5 DEF VerifyPayment
<1>6. ASSUME NEW s \in Slots, NEW c \in Charge, NEW e \in Events, HandleWebhook(s, c, e)
      PROVE  Single'
  BY <1>3, <1>6 DEF HandleWebhook
<1>7. ASSUME NEW s \in Slots, StatementFails(s) PROVE Single'
  <2>1. \A t \in Slots : pc'[t] = "idle" \/ (pc'[t] = pc[t] /\ job'[t] = job[t])
    BY <1>7 DEF StatementFails, KInv, OInv, TInv, TypeOK
  <2> QED
    BY <1>1, <1>7, <2>1 DEF StatementFails
<1>8. CASE Crash \/ UNCHANGED vars
  BY <1>1, <1>8 DEF Crash, vars
<1> QED
  BY <1>2, <1>4, <1>5, <1>6, <1>7, <1>8, SingleRun DEF Next

\* Initially nothing is confirmed.
LEMMA KInit == Init => KInv
BY BackedInit, RecordedInit DEF Init, KInv, Single, Credits, Confirming, Webhook, Verify

-----------------------------------------------------------------------------
(* The refinement of Charges.                                              *)

Gifts == [c \in Charge |-> Given(c)]

\* A step that gives c once more, or nothing, is one of Charges.
LEMMA GiveOnce ==
  ASSUME PaymentsAssumption, NEW c \in Charge, c \in paid, c \in Deposits => Given(c) = 0,
         Given(c)' = Given(c) + 1, \A d \in Charge \ {c} : Given(d)' = Given(d),
         UNCHANGED <<offered, paid>>, balance' = balance + Amount[c]
  PROVE  [Promise!Next]_<<offered, paid, Gifts, balance>>
<1>1. Gifts' = [Gifts EXCEPT ![c] = @ + 1]
  BY DEF Gifts
<1>2. Promise!Give(c)
  BY <1>1 DEF Promise!Give, Gifts
<1> QED
  BY <1>2 DEF Promise!Next

\* A step that gives nothing.
LEMMA GiveNothing ==
  ASSUME \A d \in Charge : Given(d)' = Given(d)
  PROVE  Gifts' = Gifts
BY DEF Gifts

\* Giving depends on few variables.
LEMMA GivenSame ==
  ASSUME \A d \in Deposits : status'[d] = status[d], UNCHANGED <<boosted, retitled, announced>>
  PROVE  Gifts' = Gifts
BY DEF Gifts, Given

\* The first state is one of Charges.
LEMMA PromiseInit == Init => Promise!Init
BY PaymentsAssumption DEF Init, Promise!Init, Given, Charge

\* A step of a request is one of Charges.
LEMMA PromiseRun ==
  ASSUME KInv, NEW s \in Slots, Run(s)
  PROVE  [Promise!Next]_<<offered, paid, Gifts, balance>>
<1> USE DEF paystack, perks
<1>0. /\ job[s] \in Charge /\ Busy(s) /\ Backed(s) /\ Recorded /\ Single
      /\ status \in [Charge -> Status] /\ TInv
      /\ Deposits \subseteq Charge /\ Deposits \cap Boosts = {}
      /\ balance \in Nat
  BY PaymentsAssumption
     DEF KInv, OInv, Run, SavePending, ReturnUrl, VerifyStep, WebhookStep, PerkStep, FindDeposit,
         FindPayment, Credit, Compare, WritePayment, SetBoosted, Retitle, Announce, Goto, TInv, TypeOK,
         Busy, Charge, Opening, Steps
<1>1. CASE SavePending(s)
  <2>1. /\ status' = [status EXCEPT ![job[s]] = "PENDING"] /\ pc[s] = "open"
        /\ UNCHANGED <<offered, paid, balance, boosted, retitled, announced>>
    BY <1>1 DEF SavePending, Goto
  <2>2. job[s] \in Deposits => status[job[s]] = "none"
    BY <1>0, <2>1 DEF Recorded, Tracks
  <2>3. \A d \in Charge : Given(d)' = Given(d)
    BY <1>0, <2>1, <2>2 DEF Given
  <2> QED
    BY <2>1, <2>3, GiveNothing
<1>2. CASE ReturnUrl(s)
  <2>1. /\ offered' = offered \cup {job[s]}
        /\ UNCHANGED <<paid, status, balance, boosted, retitled, announced>>
    BY <1>2 DEF ReturnUrl
  <2>2. Gifts' = Gifts
    BY <2>1, GivenSame
  <2>3. Promise!Open(job[s])
    BY <2>1, <2>2 DEF Promise!Open, Gifts
  <2> QED
    BY <1>0, <2>3 DEF Promise!Next
<1>3. CASE Credit(s, "credit") \/ Credit(s, "hookCredit")
  <2>0. PICK c \in Charge : c = job[s]
    BY <1>0
  <2>1. /\ pc[s] \in Credits /\ status' = [status EXCEPT ![c] = "SUCCESS"]
        /\ balance' = balance + Amount[c]
        /\ UNCHANGED <<offered, paid, boosted, retitled, announced>>
    BY <1>3, <2>0 DEF Credit, Resolved, Goto, Credits
  <2>2. c \in Deposits /\ status[c] = "PENDING" /\ c \in paid
    BY <1>0, <2>0, <2>1 DEF Single, Backed, Credits, Webhook
  <2>3. Given(c) = 0 /\ Given(c)' = Given(c) + 1
    BY <1>0, <2>1, <2>2 DEF Given
  <2>4. \A d \in Charge \ {c} : Given(d)' = Given(d)
    BY <1>0, <2>1 DEF Given
  <2> QED
    BY <1>0, <2>1, <2>2, <2>3, <2>4, GiveOnce, PaymentsAssumption
<1>4. CASE WritePayment(s, "write", "idle") \/ WritePayment(s, "hookWrite", "boost")
  <2>1. /\ job[s] \in Boosts /\ status' \in {status, [status EXCEPT ![job[s]] = verdict[s]]}
        /\ UNCHANGED <<offered, paid, balance, boosted, retitled, announced>>
    BY <1>0, <1>4 DEF WritePayment, Written, Busy, Saves
  <2>2. \A d \in Deposits : status'[d] = status[d]
    BY <1>0, <2>1
  <2> QED
    BY <2>1, <2>2, GivenSame
<1>5. CASE PerkStep(s)
  <2>0. PICK b \in Charge : b = job[s]
    BY <1>0
  <2>1. /\ b \in Boosts /\ b \in paid /\ b \notin Deposits /\ Amount[b] = 0
        /\ retitled[b] \in Nat /\ announced[b] \in Nat /\ balance + Amount[b] = balance
        /\ UNCHANGED <<status, offered, paid, balance>>
    BY <1>0, <1>5, <2>0, PaymentsAssumption
       DEF PerkStep, SetBoosted, Retitle, Announce, Goto, Busy, Backed, Perks, TInv, TypeOK
  <2>2. \/ b \notin boosted /\ boosted' = boosted \cup {b} /\ UNCHANGED <<retitled, announced>>
        \/ retitled' = [retitled EXCEPT ![b] = @ + 1] /\ UNCHANGED <<boosted, announced>>
        \/ announced' = [announced EXCEPT ![b] = @ + 1] /\ UNCHANGED <<boosted, retitled>>
        \/ UNCHANGED <<boosted, retitled, announced>>
    <3>1. b \in boosted => boosted \cup {b} = boosted
      OBVIOUS
    <3> QED
      BY <1>5, <2>0, <3>1 DEF PerkStep, SetBoosted, Retitle, Announce
  <2>3. CASE UNCHANGED <<boosted, retitled, announced>>
    BY <2>1, <2>3, GivenSame
  <2>4. CASE ~UNCHANGED <<boosted, retitled, announced>>
    <3>1. Given(b)' = Given(b) + 1
      BY <1>0, <2>1, <2>2, <2>4 DEF Given, TInv, TypeOK
    <3>2. \A d \in Charge \ {b} : Given(d)' = Given(d)
      BY <1>0, <2>1, <2>2 DEF Given, TInv, TypeOK, Charge
    <3> QED
      BY <1>0, <2>1, <3>1, <3>2, GiveOnce, PaymentsAssumption
  <2> QED
    BY <2>3, <2>4
<1>6. CASE \/ FindDeposit(s, "deposit", "credit", "payment")
           \/ FindDeposit(s, "hookDeposit", "hookCredit", "hookPayment")
           \/ FindPayment(s, "payment", "save") \/ FindPayment(s, "hookPayment", "hookSave")
           \/ Compare(s, "save", "write") \/ Compare(s, "hookSave", "hookWrite")
  <2>1. UNCHANGED <<offered, paid, balance, status, boosted, retitled, announced>>
    BY <1>6 DEF FindDeposit, FindPayment, Compare
  <2> QED
    BY <2>1, GivenSame
<1> QED
  BY <1>1, <1>2, <1>3, <1>4, <1>5, <1>6 DEF Run, VerifyStep, WebhookStep

\* Every step is one of Charges, or none.
LEMMA PromiseStep ==
  ASSUME KInv, [Next]_vars
  PROVE  [Promise!Next]_<<offered, paid, Gifts, balance>>
<1> USE DEF paystack, perks
<1>1. ASSUME NEW c \in Charge, PayAtPaystack(c)
      PROVE  [Promise!Next]_<<offered, paid, Gifts, balance>>
  <2>1. Gifts' = Gifts
    BY <1>1, GivenSame DEF PayAtPaystack
  <2>2. Promise!Pay(c)
    BY <1>1, <2>1 DEF PayAtPaystack, Promise!Pay, Gifts
  <2> QED
    BY <2>2 DEF Promise!Next
<1>2. CASE UNCHANGED <<offered, paid, balance, status, boosted, retitled, announced>>
  BY <1>2, GivenSame
<1> QED
  BY <1>1, <1>2, PromiseRun DEF Next, ReverseAtPaystack, AnswerLost, Initialize, VerifyPayment,
    HandleWebhook, StatementFails, Crash, vars

\* A deposit is added to the wallet at most once, and a boost's perks are given
\* for its own paid charge alone, counted each time, as long as confirmations of
\* one deposit do not overlap.
THEOREM PaymentsHonourCharges ==
  ASSUME ~Races
  PROVE  Spec => HonoursCharges
<1>1. KInv /\ [Next]_vars => KInv'
  BY KNext
<1>2. KInv /\ [Next]_vars => [Promise!Next]_<<offered, paid, Gifts, balance>>
  BY PromiseStep
<1> QED
  BY KInit, PromiseInit, <1>1, <1>2, PTL DEF Spec, HonoursCharges, Promise!Spec, Promise!vars, Gifts
=============================================================================
