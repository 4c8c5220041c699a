------------------------------ MODULE Payments ------------------------------
(***************************************************************************)
(* Money that comes in through Paystack (PaymentsService): deposits into   *)
(* the wallet and boosts of an errand, from the checkout the user is given *)
(* through the webhook and the verify endpoint that confirm it to the      *)
(* handler of payment.boost.succeeded (ErrandsService).                    *)
(*                                                                         *)
(* A deposit is a DEPOSIT row of the wallet, a boost a row of payments; a  *)
(* boost names the errand it is for, which has no other.  A slot is one    *)
(* request in flight; one action is what runs between two awaits.  The     *)
(* transaction that credits a deposit is one step, as Wallet shows.        *)
(* Paystack keeps sending charge.success until it is answered: that, and   *)
(* that a checkout is paid only by a user who was given it, is assumed of  *)
(* the outside world.                                                      *)
(***************************************************************************)
EXTENDS Integers, FiniteSets

CONSTANTS
  Slots,       \* requests in flight
  Deposits,    \* the deposits that may be asked for
  Boosts,      \* the boosted errands, each with its one charge
  None,        \* no charge
  Amount,      \* what each deposit adds to the wallet, 0 for a boost
  Races,       \* FALSE: two confirmations of one deposit do not overlap; the
               \* code lets them, FALSE isolates what holds when they do not
  MaxTroubles  \* bound: crashes, failed statements and lost answers, together

Charge == Deposits \cup Boosts
Events == {"charge.success", "charge.failed"}

ASSUME PaymentsAssumption ==
  /\ Deposits \cap Boosts = {} /\ None \notin Charge
  /\ Amount \in [Charge -> Nat] /\ \A b \in Boosts : Amount[b] = 0
  /\ Races \in BOOLEAN /\ MaxTroubles \in Nat

VARIABLES
  status,      \* the status of each charge's row
  offered,     \* the charges whose checkout reached the user
  paid,        \* the charges paid at Paystack, at one time or another
  reversed,    \* those whose payment Paystack took back
  acked,       \* those whose charge.success was answered
  balance,     \* wallets.balance
  boosted,     \* the errands with isBoosted set
  retitled,    \* how often each boosted errand's title was rewritten
  announced,   \* how often runners nearby were told of it
  troubles,    \* what went wrong so far
  pc,          \* what each request does next
  job,         \* the charge it is about
  verdict,     \* what it will write into payments.status
  seen         \* the status its save found

vars == <<status, offered, paid, reversed, acked, balance, boosted, retitled, announced,
          troubles, pc, job, verdict, seen>>
paystack == <<offered, paid, reversed, acked>>
perks == <<boosted, retitled, announced>>
locals == <<pc, job, verdict, seen>>

Status == {"none", "PENDING", "SUCCESS", "FAILED"}     \* "none": no row
Opening == {"open", "offer"}
Webhook == {"hookDeposit", "hookCredit", "hookPayment", "hookSave", "hookWrite"}
Verify == {"deposit", "credit", "payment", "save", "write"}
Perks == {"boost", "retitle", "announce"}
Steps == {"idle"} \cup Opening \cup Webhook \cup Verify \cup Perks

\* Confirming a charge, from Paystack's word to the last write.
Confirming(s) == pc[s] \in Webhook \cup Verify

Init ==
  /\ status = [c \in Charge |-> "none"]
  /\ offered = {} /\ paid = {} /\ reversed = {} /\ acked = {}
  /\ balance = 0
  /\ boosted = {}
  /\ retitled = [b \in Boosts |-> 0]
  /\ announced = [b \in Boosts |-> 0]
  /\ troubles = 0
  /\ pc = [s \in Slots |-> "idle"]
  /\ job = [s \in Slots |-> None]
  /\ verdict = [s \in Slots |-> "none"]
  /\ seen = [s \in Slots |-> "none"]

Start(s, next, c, v) ==
  /\ pc[s] = "idle"
  /\ pc' = [pc EXCEPT ![s] = next]
  /\ job' = [job EXCEPT ![s] = c]
  /\ verdict' = [verdict EXCEPT ![s] = v]
  /\ seen' = seen

Goto(s, here, next) ==
  /\ pc[s] = here
  /\ pc' = [pc EXCEPT ![s] = next]
  /\ job' = [job EXCEPT ![s] = IF next = "idle" THEN None ELSE job[s]]
  /\ verdict' = [verdict EXCEPT ![s] = IF next = "idle" THEN "none" ELSE verdict[s]]
  /\ seen' = seen

Trouble == troubles < MaxTroubles /\ troubles' = troubles + 1

-----------------------------------------------------------------------------
(* initializeDeposit, initializeBoostPayment: Paystack opens the checkout, *)
(* the row is saved PENDING, the answer carries the URL to the user.       *)

Initialize(s, c) ==
  /\ status[c] = "none"
  /\ \A t \in Slots : ~(pc[t] \in Opening /\ job[t] = c)
  /\ Start(s, "open", c, "none")
  /\ UNCHANGED <<status, paystack, balance, perks, troubles>>

SavePending(s) ==
  LET c == job[s] IN
  /\ Goto(s, "open", "offer")
  /\ status' = [status EXCEPT ![c] = "PENDING"]
  /\ UNCHANGED <<paystack, balance, perks, troubles>>

ReturnUrl(s) ==
  /\ Goto(s, "offer", "idle")
  /\ offered' = offered \cup {job[s]}
  /\ UNCHANGED <<status, paid, reversed, acked, balance, perks, troubles>>

\* The user pays at Paystack's page.
PayAtPaystack(c) ==
  /\ c \in offered \ paid
  /\ paid' = paid \cup {c}
  /\ UNCHANGED <<status, offered, reversed, acked, balance, perks, troubles, locals>>

\* A chargeback: Paystack calls the transaction "reversed" from then on.
ReverseAtPaystack(c) ==
  /\ c \in paid \ reversed
  /\ reversed' = reversed \cup {c}
  /\ UNCHANGED <<status, offered, paid, acked, balance, perks, troubles, locals>>

-----------------------------------------------------------------------------
(* Confirming a charge.                                                    *)

Quiet(c) == Races \/ c \notin Deposits \/ \A s \in Slots : Confirming(s) => job[s] # c

\* What verifyPayment makes of Paystack's answer.
Outcome_Raw(c) == IF c \in paid \ reversed THEN "SUCCESS" ELSE "abandoned"
Outcome(c) == IF c \in paid \ reversed THEN "SUCCESS" ELSE "FAILED"

\* verifyPayment, of whoever knows the reference: Paystack answers first.
VerifyPayment(s, c) ==
  /\ c \in offered
  /\ Quiet(c)
  /\ Start(s, IF Outcome(c) = "SUCCESS" THEN "deposit" ELSE "payment", c, Outcome(c))
  /\ UNCHANGED <<status, paystack, balance, perks, troubles>>

\* Paystack's events about a charge: success until it is answered, failures.
Sends(c, e) ==
  IF e = "charge.success" THEN c \in paid \ acked ELSE c \in offered \ paid

\* The event handleWebhook acts on; any other is answered and forgotten.
Concerns_Any(e) == TRUE
Concerns(e) == e = "charge.success"

HandleWebhook(s, c, e) ==
  /\ Sends(c, e)
  /\ Concerns(e)
  /\ Quiet(c)
  /\ Start(s, "hookDeposit", c, "SUCCESS")
  /\ UNCHANGED <<status, paystack, balance, perks, troubles>>

\* confirmDeposit looks for a PENDING deposit with this reference...
Awaits_AnyStatus(c) == c \in Deposits
Awaits(c) == c \in Deposits /\ status[c] = "PENDING"

FindDeposit(s, here, credit, payment) ==
  /\ Goto(s, here, IF Awaits(job[s]) THEN credit ELSE payment)
  /\ UNCHANGED <<status, paystack, balance, perks, troubles>>

\* ... and credits it, in a transaction that does not look again.
Resolved_Unmarked(c) == status
Resolved(c) == [status EXCEPT ![c] = "SUCCESS"]

Credit(s, here) ==
  LET c == job[s] IN
  /\ Goto(s, here, "idle")
  /\ balance' = balance + Amount[c]
  /\ status' = Resolved(c)
  /\ UNCHANGED <<offered, paid, reversed, perks, troubles>>

\* No deposit: the payments table, where only boosts are.
FindPayment(s, here, save) ==
  /\ Goto(s, here, IF job[s] \in Boosts THEN save ELSE "idle")
  /\ UNCHANGED <<status, offered, paid, reversed, balance, perks, troubles>>

\* paymentsRepository.save: a SELECT, then an UPDATE if the status differs.
Compare(s, here, write) ==
  /\ pc[s] = here
  /\ pc' = [pc EXCEPT ![s] = write]
  /\ seen' = [seen EXCEPT ![s] = status[job[s]]]
  /\ UNCHANGED <<status, paystack, balance, perks, troubles, job, verdict>>

Written(s) ==
  IF verdict[s] = seen[s] THEN status ELSE [status EXCEPT ![job[s]] = verdict[s]]

WritePayment(s, here, next) ==
  /\ pc[s] = here
  /\ pc' = [pc EXCEPT ![s] = next]
  /\ job' = [job EXCEPT ![s] = IF next = "idle" THEN None ELSE job[s]]
  /\ verdict' = [verdict EXCEPT ![s] = "none"]
  /\ seen' = [seen EXCEPT ![s] = "none"]
  /\ status' = Written(s)
  /\ UNCHANGED <<offered, paid, reversed, balance, perks, troubles>>

VerifyStep(s) ==
  \/ FindDeposit(s, "deposit", "credit", "payment")
  \/ Credit(s, "credit") /\ UNCHANGED acked
  \/ FindPayment(s, "payment", "save") /\ UNCHANGED acked
  \/ Compare(s, "save", "write")
  \/ WritePayment(s, "write", "idle") /\ UNCHANGED acked

\* The answer { received: true } of a request about c.
Answer(s) == acked' = acked \cup {job[s]}

\* A boost is answered and its event handled by the same slot from then on.
WebhookStep(s) ==
  \/ FindDeposit(s, "hookDeposit", "hookCredit", "hookPayment")
  \/ Credit(s, "hookCredit") /\ Answer(s)
  \/ /\ FindPayment(s, "hookPayment", "hookSave")
     /\ IF job[s] \in Boosts THEN UNCHANGED acked ELSE Answer(s)
  \/ Compare(s, "hookSave", "hookWrite")
  \/ WritePayment(s, "hookWrite", "boost") /\ Answer(s)

\* The answer gets lost on its way: Paystack will send the event again.
AnswerLost(c) ==
  /\ c \in acked
  /\ Trouble
  /\ acked' = acked \ {c}
  /\ UNCHANGED <<status, offered, paid, reversed, balance, perks, locals>>

-----------------------------------------------------------------------------
(* handleBoostPaymentSucceeded: once per event emitted.                    *)

SetBoosted(s) ==
  /\ Goto(s, "boost", "retitle")
  /\ boosted' = boosted \cup {job[s]}
  /\ UNCHANGED <<status, paystack, balance, retitled, announced, troubles>>

\* The AI rewrites the title, or fails and is only logged.
Retitle(s) ==
  /\ Goto(s, "retitle", "announce")
  /\ retitled' \in {retitled, [retitled EXCEPT ![job[s]] = @ + 1]}
  /\ UNCHANGED <<status, paystack, balance, boosted, announced, troubles>>

Announce(s) ==
  /\ Goto(s, "announce", "idle")
  /\ announced' \in {announced, [announced EXCEPT ![job[s]] = @ + 1]}
  /\ UNCHANGED <<status, paystack, balance, boosted, retitled, troubles>>

PerkStep(s) == SetBoosted(s) \/ Retitle(s) \/ Announce(s)

-----------------------------------------------------------------------------

\* A statement fails: the request ends in an error and is not answered.
StatementFails(s) ==
  /\ pc[s] # "idle"
  /\ Trouble
  /\ pc' = [pc EXCEPT ![s] = "idle"]
  /\ job' = [job EXCEPT ![s] = None]
  /\ verdict' = [verdict EXCEPT ![s] = "none"]
  /\ seen' = [seen EXCEPT ![s] = "none"]
  /\ UNCHANGED <<status, paystack, balance, perks>>

Crash ==
  /\ \E s \in Slots : pc[s] # "idle"
  /\ Trouble
  /\ pc' = [s \in Slots |-> "idle"]
  /\ job' = [s \in Slots |-> None]
  /\ verdict' = [s \in Slots |-> "none"]
  /\ seen' = [s \in Slots |-> "none"]
  /\ UNCHANGED <<status, paystack, balance, perks>>

Run(s) == SavePending(s) \/ ReturnUrl(s) \/ VerifyStep(s) \/ WebhookStep(s) \/ PerkStep(s)

Next ==
  \/ \E c \in Charge : PayAtPaystack(c) \/ ReverseAtPaystack(c) \/ AnswerLost(c)
  \/ \E s \in Slots :
       \/ \E c \in Charge :
            \/ Initialize(s, c)
            \/ VerifyPayment(s, c)
            \/ \E e \in Events : HandleWebhook(s, c, e)
       \/ Run(s)
       \/ StatementFails(s)
  \/ Crash

Spec == Init /\ [][Next]_vars

\* The database answers or fails, and Paystack sends a charge.success until it is
\* answered: a slot is free for it again and again, so the delivery is strongly
\* fair.  That the calls of the AI and of the push service end frees the slots of
\* the model; the server has no slots, and no confirmation waits for them.
LiveSpec ==
  /\ Spec
  /\ \A s \in Slots : WF_vars(Run(s))
  /\ \A c \in Charge : SF_vars(\E s \in Slots : HandleWebhook(s, c, "charge.success"))

-----------------------------------------------------------------------------

TypeOK ==
  /\ status \in [Charge -> Status]
  /\ offered \subseteq Charge /\ paid \subseteq Charge /\ reversed \subseteq paid /\ acked \subseteq Charge
  /\ balance \in Nat
  /\ boosted \subseteq Boosts
  /\ retitled \in [Boosts -> Nat]
  /\ announced \in [Boosts -> Nat]
  /\ troubles \in Nat
  /\ pc \in [Slots -> Steps]
  /\ job \in [Slots -> Charge \cup {None}]
  /\ verdict \in [Slots -> Status]
  /\ seen \in [Slots -> Status]

\* No deposit is credited and no perk of a boost given for a charge that was never
\* paid ("a user can't get the paid perks without completing payment"), however
\* the confirmations of one charge overlap and whatever events Paystack sends.
OnlyPaidIsGiven ==
  /\ {d \in Deposits : status[d] = "SUCCESS"} \cup boosted \subseteq paid
  /\ \A b \in Boosts : retitled[b] + announced[b] > 0 => b \in paid

\* Money a user paid into the wallet gets there, though the server dies, its
\* statements fail or its answers are lost a number of times.
PaidDepositCredited ==
  \A d \in Deposits : d \in paid ~> status[d] = "SUCCESS"

\* A deposit that was paid is added to the wallet at most once and the perks of a
\* boost are given for its charge alone, through redelivered events, lost answers
\* and verifies of what was confirmed before.  Each time a perk is given counts.
Given(c) ==
  IF c \in Deposits THEN IF status[c] = "SUCCESS" THEN 1 ELSE 0
  ELSE (IF c \in boosted THEN 1 ELSE 0) + retitled[c] + announced[c]
Promise == INSTANCE Charges WITH
  Once <- Deposits, opened <- offered, given <- [c \in Charge |-> Given(c)], funds <- balance
HonoursCharges == Promise!Spec
=============================================================================
