# Verification of the community errand backend

TLA+ models of the NestJS backend in `src/`, the TLC configurations that check
them on small instances, and TLAPS proofs of what holds for every instance.
Everything is written from the code; where a doc or a comment promises
something, the promise is a property and the run says whether the code keeps it.

## The system

One Node process (or several) serves HTTP and a WebSocket gateway over one
PostgreSQL database, with Redis for one-time codes. Handlers are `async`
functions: between two `await`s a handler runs alone, at every `await` any other
handler may run. There are only a few explicit transactions (all in
`WalletService`), no locks and no `version` columns. Three facts about
TypeORM and PostgreSQL decide what can go wrong:

- `save(entity)` reads the row again and writes every column in which the entity
  differs from it. An entity read before an `await` therefore undoes what
  others wrote meanwhile, in columns the handler never touched too.
- `update(...).where(...)` is one statement; its WHERE sees the row as it is.
- A statement that fails inside a transaction makes PostgreSQL refuse every
  later statement of that transaction.

| component | state | operations | talks to |
|---|---|---|---|
| Wallet ledger (`wallet/`) | `wallets.balance`, `wallet_transactions` | getBalance, credit, debit, reverseTransaction, markTransactionStatus, createPendingDeposit, confirmDeposit, linkTransactionToErrand | called by errands, payments, bills, subscriptions, referrals |
| Errands (`errands/`) | errand row (status, runnerId, priorityUntil), applications | create, acceptErrand, applyToErrand, acceptApplication, declineApplication, updateStatus, cancel, boost | wallet (debit, reversal), payments (payout, refund, boost), referrals, notifications |
| Payments (`payments/`) | `payments` rows of boosts, deposits in the ledger | initializeDeposit, initializeBoostPayment, verifyPayment, handleWebhook, processPayout, processRefund, initiateWithdrawal | Paystack, wallet, errands (boost), users (KYC) |
| Bills (`bills/`) | ledger rows only | purchaseAirtime, purchaseData, settle | VTpass, wallet |
| Subscriptions (`subscriptions/`) | `users.proExpiresAt`, `subscriptions` rows | subscribe, cancelAutoRenew, the hourly renewal | wallet, users |
| Referrals (`referrals/`) | `referrals` rows | createPending, completeIfPending | wallet; called by auth and errands |
| One-time codes (`otp/`) | a code and an attempts key in Redis, or in memory for development | request, resend, verify | mail; called by auth and users |
| Auth (`auth/`) | users, trusted devices | register, login, resendDeviceLoginCode, confirmDevice, verifyEmail, resendVerification, forgotPassword, resetPassword, refreshToken | users, otp, referrals |
| Users (`users/`) | profile, role, location, KYC | update, submitKyc, approveKyc, rejectKyc, confirmBankChange | otp, Dojah |
| Ratings (`ratings/`) | ratings, `users.ratingAvg` | create | errands, users |
| Chat (`messages/`) | messages, the gateway's connected clients and rooms | connect, joinErrand, sendMessage | errands |
| Notifications, settings, admin, AI, mail, uploads | device tokens, settings, operators | thin reads and writes | external services |

What makes them correct, and what is hard about it:

- *Wallet*: no balance below zero; balance and ledger agree; a failed debit is
  refunded once. Hard: concurrent calls on one wallet, the first insert of the
  wallet row, the check of a deposit outside the transaction that credits it.
- *Errands*: one runner, who keeps the errand; the price is held before the
  errand is posted and leaves once, to the runner or back. Hard: stale
  `save`s, unconditional `update`s, a status machine that clients drive.
- *Payments, withdrawals, bills*: an external call between a reservation and
  its outcome; rejected, ambiguous and repeated answers.
- *Deposits and boosts*: Paystack says the same thing many times, through the
  webhook and through verify; the boost's perks ride on an event in memory.
- *Subscriptions, referrals, ratings, profile*: read, compute, write back, all into
  one users row; a sweep that charges on its own; time that passes meanwhile.
- *One-time codes*: the code and its attempts are two keys that expire apart,
  read and written in separate calls; what an accepted code does comes after.

## Modules

| module | what it is |
|---|---|
| `LedgerRows` | the row types of the ledger and their meaning; shared |
| `Ledger` | abstract: a ledger whose operations are atomic |
| `Wallet` | `WalletService`, one action per database round trip |
| `WalletProofs` | theorems about `Wallet` |
| `Sums` | lemmas: a sum over a finite set does not depend on the order it is taken in |
| `Lifecycle` | abstract: what an errand promises, with its escrow |
| `Errands` | one errand under concurrent handlers of `ErrandsService`, with `processPayout` and `processRefund` |
| `ErrandsProofs` | theorems about `Errands` with anything overlapping |
| `ErrandsKeptProofs` | theorems about `Errands` when only accepts overlap |
| `Reservation` | abstract: money set aside for a payment leaves once, out or back |
| `Outbound` | withdrawals, bill purchases and the KYC row that says where withdrawals go |
| `OutboundProofs` | theorems about the payments of `Outbound` and whom withdrawals pay |
| `Charges` | abstract: what was bought is given once, and only for a charge that was paid |
| `Payments` | deposits and boosts: checkout, webhook, verify, and the handler of `payment.boost.succeeded` |
| `PaymentsProofs` | theorems about `Payments` |
| `Members` | one user's Pro membership, average rating, profile, and the referral bonuses of their guests |
| `MembersProofs` | theorems about `Members` |
| `OneTimeCodes` | abstract: a code stands until used, replaced or lost, is guessed a limited number of times, and used once |
| `Codes` | the one-time codes of one account with the registration, logins, devices, verification and password resets they serve |
| `CodesProofs` | theorems about `Codes` |
| `MCWallet`, `MCErrands`, `MCOutbound`, `MCPayments`, `MCMembers`, `MCCodes` | instances for TLC |

`Errands`, `Outbound`, `Payments` and `Members` all call the wallet and take each
call as one action: `Wallet` is where the call is taken apart and shown to
implement an atomic ledger.

Operators named `X_Y` (for example `Covers_Stale`) stand before the operator
`X` and are that operator with a plausible slip in it; no specification uses
them. They document which slip each property catches.

### Wallet

A request of `Wallet` is one call of the service, from its first query to its return: `pc`
says where it is, `call` what it was asked, `found` the balance in the wallet entity it read.
`FindWallet`, `InsertWallet` and `RereadWallet` are the three queries of `getOrCreateWallet`,
the last of which may find nothing, when the insert failed for another reason than a
duplicate, and then throws; `MarkTransactionStatus` and `CommitMark` are the find and the save
of `markTransactionStatus`. In `credit` and `debit` the insert of a missing wallet row stays
uncommitted (`inserting`) and blocks other inserts of the same `userId` until the transaction
ends; from its UPDATE on, a transaction holds the row lock, so UPDATE, ledger row and COMMIT
are one action (`CommitPosting`, `CommitReversal`, `CommitConfirmation`). Any statement may
fail (`Faults`): the call throws and its transaction rolls back. A crash does so to all calls
in flight. Callers are represented by what they may ask: a payment that was charged is
reversed (`processRefund`, which checks SUCCESS first), an outbound debit is resolved once by
the caller that made it. `MaxConfirms` bounds how many `confirmDeposit` calls for one
reference overlap; the code sets no bound, the run with 1 shows what holds otherwise.

`Ledger` is the same service with every operation atomic: balances change
together with the rows that explain them.

### Errands

A slot of `Errands` is a handler in flight. `Start` takes up a request (the read of the errand
and the checks that follow it), `job` keeps what the handler will use after its next `await`,
and every further action is what runs between two `await`s. `cancel` and `updateStatus` write
back the `runnerId` they read. A handler whose checks fail changes nothing and has no action.
With `Faults` any statement may fail: in `create` the save of the errand and the link lead to
the undo of the payment, the settings, read before the `try`, do not (`ReadSettings`); a
payout or a refund that fails is logged, and the request succeeds; any other failure leaves
what was written before it. Of the money only the ERRAND_PAYMENT row, its link to the errand,
the EARNING rows and the REVERSAL rows are kept: `Wallet` shows that the calls behind them are
atomic. The priority window is a flag: opened by `create` or not, closed by time. One errand
is enough, since no handler here reads another one.

`Racing` names the operations whose requests may overlap. The code allows all
of them to, and that is how the theorems and the violation runs take it; a smaller
set isolates what holds when the rest is quiet. `ClientMoves` restricts what
clients ask `updateStatus` for: the code refuses only PENDING and a COMPLETED
that does not follow IN_PROGRESS.

`Lifecycle` is what the README of the backend and the comments of the code
describe: post after the price is held, bid, assign once, work, complete and
pay, or cancel before pickup and return. It counts payouts and returns and allows one of
all of them, so that a second one is a step it does not have.

### Outbound

A request of `Outbound` is one `initiateWithdrawal`, `purchaseAirtime` or
`purchaseData`, from the first query to the answer; a desk is one KYC handler
(`submitKyc`, `confirmBankChange`, `approveKyc`, `rejectKyc`). The wallet calls are
one action each, as `Wallet` shows; the balance may fall between the read that
decides the amount of a withdrawal and the debit, and grows by what is earned meanwhile
(`earned`). An external call acts at the provider and is answered in one action, or it
is never answered (`CallHangs`): no client of Paystack or VTpass has a timeout, so its request
waits for good (`hanging`), whether or not the provider has acted. `sent` remembers whom it
paid and `unclear` that the answer did not tell, or did not come. Nothing resumes a
request after a crash (`cutOff`): its debit stays PENDING.

`UnclearTransfer` and `UnclearPurchase` are the answers after which the provider may have done
what it was asked. The code takes Paystack's 4xx as final and the rest as unclear; of VTpass
it takes everything but silence as final, a 5xx included, and says so
(`bills.service.ts:101`). The run uses those two sets, and `AnswersTold` is what the theorems
assume of them. With `serverError` in `UnclearPurchase` `NeverPaidAndReturned` fails: the
reversal then rests on what VTpass promises about its 5xx.

The KYC row keeps its status, the bank account and the recipient code, which stands for the
account Paystack made it for. `kycRepository.save` is two actions, the SELECT that compares
and the UPDATE of the columns that differ, because a withdrawal saves this entity too; either
may fail. `approved` is history: the accounts on the rows that `approveKyc` read. What the
admin saw in the listing before, which a resubmission may have changed since, is not modelled.
`KycRaces` FALSE lets a KYC handler run alone, while withdrawals and purchases overlap each
other; the code sets no such limit.

`Reservation` is the promise of the comments at `payments.service.ts:249` and
`bills.service.ts:94`: reserve first, then send, or return, or leave to a person. Its funds
grow only by what was earned and by a return, so a second return, or one of money that was
sent, is a step it does not have.

### Payments

A slot of `Payments` is one request in flight about one charge. `Initialize`,
`SavePending` and `ReturnUrl` open a deposit or a boost: Paystack's checkout, the
PENDING row, the answer with the URL. `VerifyPayment` and `HandleWebhook` confirm: both
look for a PENDING deposit (`FindDeposit`, `Credit`) and fall back to the `payments`
table (`FindPayment`, then the save as its SELECT `Compare` and its UPDATE
`WritePayment`). A webhook that resolved a boost is answered and goes on in the same
slot as the listener of `payment.boost.succeeded` (`SetBoosted`, `Retitle`, `Announce`).
Paystack sends `charge.success` until it gets an answer; `AnswerLost` makes it send once
more, and it may take a payment back (`ReverseAtPaystack`), after which it answers a verify
with something else than success. `retitled` and `announced` count, since the listener does not
look at `isBoosted`. `Races` FALSE keeps two confirmations of one deposit from overlapping,
which the code does not; those of a boost overlap in any case.

`Charges` is the promise: `Give` only what was paid for, and a deposit once. The perks of a
boost are given one by one and counted, and `Charges` lets a repeated event give them again, as
the code does.

### Members

One user and the handlers that write their `users` row: `Subscribe` and the
hourly sweep (`ProcessRenewals`, `NextDue`, then `subscribe` again or `Lapse`, `Check`,
`ClearPro`), `CancelAutoRenew`, the profile save that writes back the whole entity
it read, and the average written by `SaveAverage`. `owed` is history: the day
up to which the user has paid, each period counted from the end of the one
before. The user refers guests: `SignUp` records whether the user is Pro at that
moment; `CompleteErrand` reads an errand of the guest that may be completed, `SaveErrand`
writes COMPLETED, whoever did so meanwhile, and the steps after it are
`maybeCompleteReferral` and `completeIfPending`, of the guest as requester or as runner.
`ReopenErrand` takes an errand back to IN_PROGRESS, and it may be completed again.
Time is a number of days and passes between any two awaits. With `Races` FALSE the handlers
that write `proExpiresAt`, a profile save among them, wait for each other; all others
overlap anything.
`cut` and `missed` remember whom a crash or a failed statement struck midway, so
that a property can say what holds for everybody else.

### Codes

One account. A key of `Codes` is what a code is for: the signup, a password reset, or
one device. `code` and `attempts` are the two Redis keys; `Expire` and
`ExpireAttempts` are their times to live, in the order in which they were set, and
`CountMiss` is INCR, which makes a counter that is gone without a time to
live. `SetCode`, `SetAttempts` and `Mail` are `OtpService.request`; `Submit`, `GetAttempts`
and then `DropCode`, `CountMiss` or `UseCode` are `verify`. After `UseCode` the request
goes on to trust the device, set the verified flag or the password. A submitted code is one
that was mailed, of any age, or a mistyped one. `issued`, `mailed`, `used`, `wrong`
and `entered` are history. A login without a device id is mailed a code for the id
"unknown", as `auth.service.ts:110` has it, and is never handed tokens (`LoginUnnamed`); a
registration without one is, and trusts nothing (`NoDevice`). With `Races` FALSE requests
with the same code wait for each other; profile saves overlap everything.

`OneTimeCodes` is the promise of the comment at `otp.service.ts:193`. A code that a request has
read and not yet judged still stands there: the refinement mapping takes what the
request read, not what Redis holds.

## Runs

Handlers are interchangeable (symmetry) in `MCErrands_overlaps` and `MCMembers_members`,
handlers and devices in `MCCodes_codes`; no liveness is checked there. Deadlock is
not checked: calls that have all returned, and an errand whose requests are all
answered, have nothing left to do.

| run | instance | shows |
|---|---|---|
| `MCWallet_races` | 3 calls on one wallet, 2 amounts, failing statements, crashes, 1 confirmation of a reference at a time | no negative balance; ledger, balances and the balances shown agree; failed debits and reversals match; `Wallet` implements `Ledger` |
| `MCWallet_double_confirm` | 3 calls, 1 amount, no failures, 2 confirmations at once | **violated** `LedgerBalances`: one deposit is credited twice |
| `MCErrands_overlaps` | 2 handlers; those that accept, apply or decline overlap; creations, status updates to anything and cancellations run alone; faults, crashes | only an eligible runner gets, bids on or is paid for the errand; debited before posted; paid once, refunded once |
| `MCErrands_accepts` | 3 handlers, creations and accepts overlap, the other requests run alone and move the errand forward, fair | the first acceptance stands; applications match the errand; the escrow does leave; `Errands` implements `Lifecycle` with its liveness, in which it leaves once |
| `MCErrands_reopened` | one request at a time, errands taken back to OPEN | **violated** `NotPaidAndRefunded`: a completed errand is reopened, cancelled and refunded |
| `MCOutbound_payouts` | 2 withdrawals or purchases, 1 KYC handler at a time, 2 accounts, every answer of the providers and none, faults, crashes, fair | nothing is both paid and returned, or returned twice; transfers go to accounts `approveKyc` read; money stays PENDING only after an unclear or missing answer, a crash or a failed statement; `Outbound` implements `Reservation` |
| `MCOutbound_old_account` | the same without faults | **violated** `TransfersFollowKyc`: after a bank change was confirmed and approved, the kept recipient code pays the old account |
| `MCPayments_charges` | a deposit and a boost, 2 requests, confirmations of the deposit one at a time, those of the boost at will, 1 crash, failed statement or lost answer, fair | nothing is given for a charge that was not paid; a deposit that was paid is credited; `Payments` implements `Charges` |
| `MCMembers_members` | 4 requests, 2 at a time of which one writes Pro's end; plans of 1 and 2 days over 3 days; a guest with 2 errands, completed and taken back, 2 raters; 1 trouble | Pro is never longer than paid for, nor shorter; every bonus is earned; a subscription is renewed once |
| `MCMembers_cancelled_renewal` | one request at a time, 3 subscriptions | **violated** `CancelledStays`: an older auto-renewing subscription renews and charges after auto-renewal was turned off |
| `MCMembers_bonus_twice` | 2 handlers that overlap at will, a guest with one errand | **violated** `BonusOnce`: two completions of the errand overlap, both count one and both credit |
| `MCCodes_codes` | 4 requests, 2 at a time unless they share a code; a named device and "unknown", the signup and reset codes; 1 wrong guess allowed; 1 trouble | tokens go to known devices; one change per code; `Codes` implements `OneTimeCodes` |

The violated properties state what a comment, a test or the README of the
backend says; `PROJECT.json` quotes the line. Other instances give further
counterexamples, which are worth a look when the code changes. Of `Errands`, with the
constants of `MCErrands_accepts`, `Spec` and two handlers unless said otherwise:

| constants | property | what happens |
|---|---|---|
| `Racing` = {acceptErrand, applyToErrand} | `RunnerKept` | an application that was read OPEN sets the errand back to PENDING after an accept, and a second runner replaces the first, although `errands.service.ts:398` says the second "sees 0 affected rows" |
| `Racing` = {updateStatus} | `PaidOnce` | two completions both find no earning and both credit, although `payments.service.spec.ts:115` calls the payout "idempotent" |
| `Racing` = {acceptErrand, cancel} | `CancelledUnpicked` | a cancel that read OPEN saves CANCELLED, and no runner, over an accept, although `errands.service.ts:696` says "Only possible before a runner has picked up the errand" |
| `Racing` = {declineApplication, acceptApplication} | `ApplicationsMatchErrand` | a decline that counted before the accept sets the errand back to OPEN, its runner still in it |
| `Racing` = {updateStatus, acceptErrand}, clients ask for anything | `RunnerKept` | a status update that read the errand before an accept saves it without the runner |
| `Racing` = {cancel} | `RefundedOnce` | two cancels both find the payment SUCCESS |
| `Racing` = {create, cancel}, `LiveSpec` | `SettledEventually` | a cancel before the payment is linked to the errand refunds nothing |
| `ClientMoves` = {OPEN to CANCELLED}, `LiveSpec` | `SettledEventually` | cancelling through PATCH refunds nothing |
| `Faults` = TRUE | `NotPaidAndRefunded` | `create` fails after the errand was saved: it is refunded, accepted and paid |
| `Faults` = TRUE | `ApplicationsMatchErrand` | the second UPDATE of `acceptApplication` fails: the errand has its runner, their application is still PENDING |

Of `Wallet`, with two calls at once, `LostInsertRecovered` is violated: a first credit or
debit that loses the insert of the wallet row ends `failed`, although the comment at
`wallet.service.ts:51` means to recover; the second find runs in the transaction the failed
insert aborted. Of `Outbound`, with the constants of `MCOutbound_old_account`:

| constants | property | what happens |
|---|---|---|
| `KycRaces` = TRUE, two desks | `TransfersApproved` | a save that compared before a resubmission was saved writes APPROVED over bank details that stood on no row `approveKyc` read |
| `UnclearPurchase` = {serverError, timeout} | `NeverPaidAndReturned` | VTpass delivers, answers 5xx, and the debit is reversed |

And with `Races` = TRUE, no trouble:

| module | property | what happens |
|---|---|---|
| `Payments` | `HonoursCharges` | webhook and verify both find the deposit PENDING and both credit it |
| `Members` | `PaidTimeKept` | two overlapping subscriptions extend the same date; a profile save puts an older date back |
| `Members` | `FirstErrandPays` | two first errands complete at once, each counts two, and no bonus is paid, although `src/README.md:213` promises it for the first errand |
| `Members` | `AverageCurrent` | of two ratings that overlap the one that read first writes the average last; or a profile save writes an older one back (`PRD.md:307`) |
| `Members` | `OneRatingEach` | one rater's two requests both find no rating and both insert (`PRD.md:304`) |
| `Members` | `RenewedOnce` | two sweeps, of two servers, renew one row each; a crash before EXPIRED is saved charges twice as well, which the property sets aside |
| `Codes` | `KeepsOneTimeCodes` | two verifications accept one code, pass the limit of guesses together, or accept a code that was replaced |
| `Codes` | `ChangesAnswerCodes` | one reset code, two passwords |
| `Codes` | `NothingUndone` | a profile save that read the account before a verification or a new password writes the old row back |

`FirstErrandPays`, `AverageCurrent`, `OneRatingEach` and `NothingUndone` do not depend on
`Races`: the handlers they are about overlap in every instance. `BonusOnce` fails for one
handler at a time as well, with one trouble: a crash between the credit and the referral's
COMPLETED, and the errand reopened and completed again. With `TornIssues` = TRUE
`KeepsOneTimeCodes` fails: a request cut between the two writes leaves the counter of an
older code, which expires first, and the count starts again. A paid boost whose event is
lost, because the server died after it had answered the webhook, is never given: Paystack
has its answer and `verifyPayment` emits nothing.

**Bounds.** Wallet: three calls are enough for a debit with the credit that covers it and its
reversal, a deposit with its confirmation and a debit, or three calls racing for a missing
wallet row; two amounts, so that a balance covers one of two debits. More users add nothing
that calls on different wallets share; the proofs cover any number. Errands: the requester, a
Pro runner, a runner without Pro and a user whose role may not run errands, one for each
answer of the eligibility checks; the requester has both a runner's role and Pro, so that only
the check on ownership stops them. Two handlers for pairwise races, three where a guarded
update must reject two losers. Errands overlaps cancellations and status updates with nothing
in the run, because payouts and refunds are then counted; that who works on the errand, and
that it was debited first, holds with those overlapping too is proved. Outbound: two requests,
so that the second spends what the first has read, or is paid from what the first gave back; a
balance of one price is enough for one of them to be refused; two accounts, the old and the
new one; one desk, since KYC handlers run alone in the passing run. Payments: one charge of
each kind, since charges share nothing but the balance, and two requests, a webhook and a
verify, or a listener that still runs while the webhook comes again; one trouble, after which
Paystack comes back: that a paid deposit is not forgotten after more of them is proved
(`AnsweredIsCredited`). Members: four requests are two subscriptions with the sweep of the
first, or a sign-up with an errand completed twice or two errands; three days let both plans
run out, in either order. Codes: four requests are a registration, a code, a wrong guess and a
right one; two devices, so that the code of one might open the other.

**Fairness.** Weak fairness of every handler's next step: the event loop and the
database answer every query sooner or later, or the query fails. A provider that never
answers is not fair: in `Outbound` `CallHangs` is one of the steps a request may take, and what
hangs is done for the model. No fairness on requests, time, faults or crashes; the safety
runs of `Wallet`, `Members` and `Codes` assume none; in `Outbound` only the requests are
fair, no property needs the desks to end. In `Payments` the delivery of a `charge.success` is
strongly fair: Paystack repeats it until it is answered, and a slot is free for it again and
again, though other requests keep taking it. That the listeners of a boost end, which
call the AI and the push service, frees slots of the model; the server has none, and no
confirmation waits for them.

## Theorems

TLAPS proves them for every set of requests, users, slots and amounts. Where one has
a condition, it is on a constant that says what may overlap, fail or be asked for;
the runs have instances that meet it, and the tables above, or the paragraphs below,
say what happens without it.

| theorem | condition | property |
|---|---|---|
| *WalletProofs* | | |
| `TypeCorrect`, `NeverNegative`, `RowsBacked`, `FailedMeansReversed`, `StatementShows` | none | `TypeOK`, `BalanceNonNegative`, `RowsHaveWallets`, `FailedIffReversed`, `StatementShowsBalance` |
| `WalletImplementsLedger`, `BalancesMatchLedger` | `MaxConfirms <= 1`, finitely many requests | `ImplementsLedger`, `LedgerBalances` |
| *ErrandsProofs* | | |
| `TypeCorrect`, `OwnErrandNeverWorked`, `RolesKept`, `WindowKept`, `DebitedFirst` | none | `TypeOK`, `NeverOwnRunner`, `OnlyRunnersWork`, `WindowIsPro`, `PaidBeforePosted` |
| `OnePayout` | status updates run alone | `PaidOnce` |
| `OneRefund` | cancellations run alone | `RefundedOnce` |
| *ErrandsKeptProofs* | | |
| `AcceptanceStands` | only creations and accepts overlap, no client asks for OPEN or CANCELLED | `RunnerKept` |
| `OneStory` | the same, no crash, no failed statement | `ApplicationsMatchErrand` |
| `PromiseKept` | only creations and accepts overlap, clients ask for the next step only, no failed statement | the safety part of `KeepsPromise`: at most one payout or refund |
| `OneWayOnly` | the same | `NotPaidAndRefunded` |
| `PaidInFull` | the same, no crash | `NothingOwed`, for `SettledEventually` |
| *OutboundProofs* | | |
| `TypeCorrect`, `EndedMeansSettled` | none | `TypeOK`; `NothingForgotten`, for `OnlyUnclearStaysPending` |
| `PaidOrReturned`, `OutboundKeepsReservation` | `AnswersTold`: an answer the code takes as final is | `NeverPaidAndReturned`, `KeepsReservation` |
| `OnlyApprovedPaid` | `~KycRaces` | `TransfersApproved` |
| *PaymentsProofs* | | |
| `TypeCorrect`, `PaidBeforeGiven`, `AnsweredIsCredited` | none | `TypeOK`, `OnlyPaidIsGiven`; `NoDepositForgotten`, for `PaidDepositCredited` |
| `PaymentsHonourCharges` | `~Races` | `HonoursCharges` |
| *MembersProofs* | | |
| `TypeCorrect`, `NothingForFree`, `BonusesAreEarned` | none | `TypeOK`, `NeverMoreThanPaid`, `BonusEarned` |
| `NoSecondRenewal`, `TimeIsKept` | `~Races` | `RenewedOnce`, `PaidTimeKept` |
| *CodesProofs* | | |
| `TypeCorrect`, `KnownDevices` | none | `TypeOK`, `OnlyKnownDevicesEnter` |
| `CodeForChange` | `~Races` | `ChangesAnswerCodes` |
| `CodesKeptAsPromised` | `~Races`, `~TornIssues` | `KeepsOneTimeCodes` |

*`WalletProofs`*. `Known` (types, what a call in flight knows, and that the row a
resolving call is about stays what it was) is inductive. `NeverNegative` needs only the
WHERE of the debit: that amounts are natural and nothing about who read what. For
`RowsBacked` an insert is held by a transaction at its UPDATE, and a call past its insert
has a wallet committed or held. `FailedMeansReversed` goes by induction with `ReversesRow`
(a reversal refers to a row that is there); it holds for any overlap because the status
and the reversal row are written in one transaction.
In `WalletImplementsLedger` each commit is a step of `Ledger`, everything else
stutters. `BalancesMatchLedger` follows a balance and the statement, the sum of the effects
of the user's rows, through every commit: a step that inserts or rewrites one row moves
the statement by what it moves the balance (`StatementInsert`, `StatementChange`,
`MovesTogether`). That the sum may be taken apart at any row is what `Sums` shows. Both
assume `MaxConfirms <= 1`, which is exactly what the code does not ensure, and finitely
many requests, without which there is no sum.

*`ErrandsProofs`*. `IInv` is the typing invariant with `Fit` (everyone who is
written anywhere, or about to be, passed the checks), `Fresh` (before the errand
is saved there is one handler and nothing to find; needed because saving it may
open the priority window) and `Memory` (what a step may count on of its job).
It holds for any overlap, any client, faults and crashes. `OnePayout` adds `Unpaid`:
from the check for an earning to the credit nothing is paid, because a status
update that runs alone leaves nobody to pay meanwhile. `OneRefund` adds
`Unreturned`: the payment a refund or an undo is about to reverse stands, and there is
one at a time.

*`ErrandsKeptProofs`*. If only creations and accepts overlap and clients do not ask for OPEN
or CANCELLED, what a lone handler read of the errand still holds (`ReadHolds`), an errand with
a runner is past PENDING (`PickedUp`), and so the guarded UPDATEs reject every later accept:
`AcceptanceStands`. `Told` says what the applications mean while a handler is between two of
its writes, for each pair of writes the ones that may not match yet; between requests it is
`ApplicationsMatchErrand`. A crash or a failed statement between two writes leaves them so for
good, hence `OneStory` without either. For the refinement `Settles` ties the money to the
status: a payout is under way or done only when COMPLETED, a refund only when CANCELLED, and
no `undo` runs; with `Unpaid` and `Unreturned` of `ErrandsProofs` the counts are 0 until then
and one of them is 1 after. A step of a handler is then one of `Lifecycle` or none, crashes
included, and `OneWayOnly` is its consequence for money that left both ways. `Due` adds who
sends the money next: until a completed errand is paid, or a cancelled one refunded, some
handler is at a step of the payout or refund, and finds what it looks for (the link, no
earning). So none ends before (`PaidInFull`); a crash in between leaves the money where it
was.

*`OutboundProofs`*. `IInv` is typing with `Stage(r)`: what the debit, the amount and `sent`
may be at each step of a request, a hanging one included. It mentions one request only, so a
step of one leaves the stages of all others. It gives `PaidOrReturned` and, step by step,
`OutboundKeepsReservation`. `Accounted(r)` is about who forgets: nothing is debited before the
reservation, and a request ends with a debit PENDING only after an answer that was unclear or
did not come. With `~KycRaces`, `KInv` says that the KYC row, the entity of every withdrawal
past its check and the entity a desk is about to write are vouched for (an approved account
and any recipient code stood on a row `approveKyc` read), and that while a desk works nothing
else is underway (`Alone`), so what a save compared with is still the row. It gives
`OnlyApprovedPaid`.

*`PaymentsProofs`*. `Backed` says of a request that may still give something that its
charge was paid, and `Earned` that what is SUCCESS, boosted, retitled or announced was: they
hold with any overlap, whatever Paystack takes back later, and give `PaidBeforeGiven`.
`Recorded` is about deposits and holds with any overlap too: a deposit's row goes from PENDING
to SUCCESS and no way back, and Paystack has its answer only when it is SUCCESS, so a deposit
may be credited twice but is not forgotten. `Single` adds that nobody else confirms a deposit
that is about to be credited, which is then PENDING. All three make `PaymentsHonourCharges`:
each credit, each `SetBoosted` of an errand not yet boosted, each title and announcement is a
`Give`, everything else stutters.

*`MembersProofs`*. `Within` bounds every date that is stored, held or about to be written by
`owed`: stale saves only write dates that were once paid for, so `NothingForFree`. `Earning`
follows a completion from the errand saved as COMPLETED to the bonus: what is counted is an
errand of a guest in `completed` (`Counted`), and a referral is PENDING, and a bonus credited,
only for a guest of a paid-for Pro (`Entitled`, which needs `Within`). It gives
`BonusesAreEarned` for any overlap and however often an errand is completed; how many bonuses
one guest brings it does not bound, and the code does not either (`MCMembers_bonus_twice`).
The two others start from `Duties` (every handler is at a step of its operation, and two
writers of `proExpiresAt` are never both there) and from what each operation has at hand:
`Renewing` (what a sweep has yet to renew was not renewed, and what was and still looks
renewable is in its hands) and `Keeping` (a time that is held is the stored one, one about to
be written is `owed`; Pro lags only before an `extend`).

*`CodesProofs`*. `Admitted` follows a device from the mailed code that a request reads,
through its acceptance, into `trusted` and `entered`; `Cleared` says what each request may
count on. It gives `KnownDevices` for any overlap, registrations without a device id included.
If requests with one key wait for each other (`Duties`), `Safe` says that the code a request
looks at is gone or unchanged and not used, and, if no issue is torn, that the counter counts
the wrong guesses of the code that stands. `Answered` adds the account row: what a request is
about to save, a profile save that read the row long ago included, is a password there has
been and a flag its code had set, and each password but the first has a code of its own. The
two theorems follow; in the refinement an accepted code is `Use`, a wrong guess `Miss`, and a
code counts as standing from the look that found it until that request is through with it.

Assumptions on constants: `RowsAssumption` (amounts are positive naturals, `None`
is no request), `WalletAssumption`, `ErrandsAssumption` (distinct users, a null
that is no user, roles and plans are sets of users), `OutboundAssumption` (requests
are not desks, the biller is no account, prices and the threshold are positive),
`PaymentsAssumption` (deposits are not boosts, amounts are naturals), `MembersAssumption` (guests
are not raters, plans last a day or more), `CodesAssumption` (a device is not a purpose).

**Only model-checked** is what is temporal, since liveness under fairness is outside the
prover: `SettledEventually`, the liveness part of `KeepsPromise`,
`OnlyUnclearStaysPending` and `PaidDepositCredited`. Of each the safety half is proved, that no
handler ends with the work undone and no answer is given too early; that a fair handler ends
is left to TLC. `BonusOnce`, `TransfersFollowKyc` and `CancelledStays`, and the properties of
the counterexample tables, state what the code does not keep. What the runs that expect a violation
find is a counterexample, so there is nothing to prove; `LedgerBalances` and
`NotPaidAndRefunded` hold under the conditions above.

## What the models leave out

Amounts other than one price, the platform fee and decimals; titles, locations,
media and notifications; `findAll`, `findOne` and other reads; `etaMinutes` and
`completedAt`, written with the status and read by nobody. In `Errands`, `Members` and `Codes`
`save`'s own SELECT and UPDATE are one step: with a write between them the row keeps that
write instead of losing it, which the runs reach in the other order. Serialization
failures and deadlocks of PostgreSQL are not modelled: transactions here take
one wallet row each.

### Not modelled

- *Chat*: messages are only inserted and listed. The gateway's set of connected clients is
  never read; a socket that drops during the `await` in `handleJoinErrand` stays in it.
- *Push notifications, settings, administration*: tokens and settings are upserted by
  key, pushes are fire and forget; approvals and rejections are in `Outbound`.
- *AI, mail, uploads*: stateless calls; that they fail or a mail is lost is in the modules
  that make them.
- *Bootstrap, migrations, scripts*: wiring and the schema, whose unique indexes the models use.
- Of *users*: the one role change, phone numbers, referral codes and the last location. Roles are
  a constant of `Errands`; the rest is decided on by no modelled handler.
- Of *one-time codes*: the in-memory store of `OTP_BYPASS`, which the constructor refuses in
  production, and the metadata of a bank change, which `Outbound` has as `change`.
- Of *auth*: `refreshToken`, which changes nothing, and the signature of webhooks, taken as valid.

## What could be added

The role change of `users.service.ts:148` reads `roleChangedAt` and saves it later, so two
updates at once change the role twice; a model of it would be a copy of the profile save
in `Members`. A theorem of what a `create` that fails, or a crash, leaves behind: `OneStory` and
`PromiseKept` set them aside, and what a later repair may count on is not written down.
