------------------------------ MODULE Members -------------------------------
(***************************************************************************)
(* A user's Pro membership (SubscriptionsService, its hourly renewal       *)
(* sweep), average rating (RatingsService) and profile (UsersService),     *)
(* which all write the one users row, and the referral bonuses the user    *)
(* earns for guests who sign up meanwhile (ReferralsService,               *)
(* ErrandsService.maybeCompleteReferral).                                  *)
(*                                                                         *)
(* One user, whose wallet holds funds; a slot is one handler in flight and *)
(* one action is what runs between two awaits.  Times are days, 0 standing *)
(* for a null proExpiresAt.  A plan is the number of days it lasts, which  *)
(* is also its price.  An average is the ratings it was computed from.     *)
(* The wallet calls are atomic, as Wallet shows, and so is a TypeORM save, *)
(* whose two halves Outbound takes apart.                                  *)
(***************************************************************************)
EXTENDS Integers, FiniteSets

CONSTANTS
  Slots,        \* handlers in flight
  Rows,         \* bound: 1..n, the subscriptions that can be made
  Plans,        \* durations
  Guests,       \* people the user refers
  Errands,      \* bound: 1..n, the errands of each guest
  Raters,       \* the other parties of errands completed with the user
  Bonus,        \* referral_bonus_ngn
  Deposit,      \* what the wallet holds at first
  MaxClock,     \* bound: the last day
  MaxRequests,  \* bound: handlers started
  MaxTroubles,  \* bound: crashes and failed statements, together
  Races         \* FALSE: the handlers that write proExpiresAt wait for each
                \* other; the code lets them overlap, FALSE isolates what holds
                \* when they do not

ASSUME MembersAssumption ==
  /\ Rows \subseteq Nat \ {0} /\ Plans \subseteq Nat \ {0}
  /\ Errands \subseteq Nat \ {0} /\ IsFiniteSet(Errands)
  /\ {Bonus, Deposit, MaxClock, MaxRequests, MaxTroubles} \subseteq Nat
  /\ Races \in BOOLEAN
  /\ Guests \cap Raters = {} /\ "nobody" \notin Guests \cup Raters

VARIABLES
  clock,
  funds,        \* wallets.balance
  sub,          \* the user's subscriptions, by order of creation
  pro,          \* users.proExpiresAt
  owed,         \* the day up to which the user has paid for Pro
  renewals,     \* how often each subscription was renewed
  optedOut,     \* auto-renew cancelled, and not asked for again since
  referral,     \* the status of each guest's referral
  wasOwed,      \* the guests that signed up while the user had Pro paid for
  done,         \* the COMPLETED errands of each guest
  completed,    \* the guests of whom an errand ever was COMPLETED
  bonuses,      \* how many bonuses each guest brought
  rated,        \* the ratings of the user by each rater
  average,      \* users.ratingAvg: the ratings it is the mean of
  requests, troubles,
  cut,          \* trouble struck a subscribe or renewal after its debit
  missed,       \* the guests and raters whose request trouble struck
  pc,           \* what each handler does next
  job,          \* its operation and arguments
  held,         \* the proExpiresAt it read
  until,        \* the proExpiresAt it will write
  view          \* the ratings it read, or those behind the average it read

vars == <<clock, funds, sub, pro, owed, renewals, optedOut, referral, wasOwed, done,
          completed, bonuses, rated, average, requests, troubles, cut, missed, pc, job, held, until, view>>
account == <<clock, funds, sub, pro, owed, renewals, optedOut>>
guests == <<referral, wasOwed, done, completed, bonuses>>
ratings == <<rated, average>>
history == <<troubles, cut, missed>>

Ops == {"none", "subscribe", "sweep", "cancel", "profile", "signUp", "complete", "rate"}
SubStatus == {"none", "ACTIVE", "EXPIRED"}
Sub == [status : SubStatus, plan : Plans \cup {0}, expires : Nat, auto : BOOLEAN]
ReferralStatus == {"none", "PENDING", "VOID", "COMPLETED"}
Steps == {"idle", "find", "debit", "insert", "extend", "each", "renewed", "lapse", "check",
          "clear", "stop", "saveProfile", "refer", "saveErrand", "count", "findReferral", "credit", "paid",
          "insertRating", "readRatings", "saveAverage"}

\* What a handler is about: a row of subscriptions or of errands, a plan and
\* whether it renews, the guest or rater, and for a sweep the rows found due, those to renew and the time.
Job(o, r, p, a, g, due, renew, now) ==
  [op |-> o, row |-> r, plan |-> p, auto |-> a, who |-> g,
   due |-> due, renew |-> renew, now |-> now]
Nobody == "nobody"
Unrated == [x \in Raters |-> 0]
NoJob == Job("none", 0, 0, FALSE, Nobody, {}, {}, 0)
Jobs == [op : Ops, row : Rows \cup Errands \cup {0}, plan : Plans \cup {0}, auto : BOOLEAN,
         who : Guests \cup Raters \cup {Nobody},
         due : SUBSET Rows, renew : SUBSET Rows, now : Nat]

Init ==
  /\ clock = 0
  /\ funds = Deposit
  /\ sub = [r \in Rows |-> [status |-> "none", plan |-> 0, expires |-> 0, auto |-> FALSE]]
  /\ pro = 0 /\ owed = 0
  /\ renewals = [r \in Rows |-> 0]
  /\ optedOut = FALSE
  /\ referral = [g \in Guests |-> "none"]
  /\ wasOwed = {}
  /\ done = [g \in Guests |-> {}] /\ completed = {}
  /\ bonuses = [g \in Guests |-> 0]
  /\ rated = Unrated /\ average = Unrated
  /\ requests = 0 /\ troubles = 0 /\ cut = FALSE /\ missed = {}
  /\ pc = [s \in Slots |-> "idle"]
  /\ job = [s \in Slots |-> NoJob]
  /\ held = [s \in Slots |-> 0]
  /\ until = [s \in Slots |-> 0]
  /\ view = [s \in Slots |-> Unrated]

Tick ==
  /\ clock < MaxClock
  /\ clock' = clock + 1
  /\ UNCHANGED <<funds, sub, pro, owed, renewals, optedOut, guests, ratings, requests, history,
                 pc, job, held, until, view>>

\* The handlers that write users.proExpiresAt from what they read of it.
Extenders == {"subscribe", "sweep", "profile"}
Conflict(o, p) == {o, p} \subseteq Extenders

Start(s, here, j, h, v) ==
  /\ pc[s] = "idle"
  /\ requests < MaxRequests
  /\ Races \/ \A t \in Slots : ~Conflict(j.op, job[t].op)
  /\ requests' = requests + 1
  /\ pc' = [pc EXCEPT ![s] = here]
  /\ job' = [job EXCEPT ![s] = j]
  /\ held' = [held EXCEPT ![s] = h]
  /\ view' = [view EXCEPT ![s] = v]
  /\ until' = until
  /\ UNCHANGED history

\* The next step, with the job, the time read and the time to write from then on.
Move(s, here, next, j, h, u, v) ==
  /\ pc[s] = here
  /\ pc' = [pc EXCEPT ![s] = next]
  /\ job' = [job EXCEPT ![s] = j]
  /\ held' = [held EXCEPT ![s] = h]
  /\ until' = [until EXCEPT ![s] = u]
  /\ view' = [view EXCEPT ![s] = v]
  /\ UNCHANGED <<requests, history>>

Step(s, here, next, j, h, u) == Move(s, here, next, j, h, u, view[s])

Goto(s, here, next) ==
  /\ pc[s] = here
  /\ IF next = "idle" THEN Move(s, here, next, NoJob, 0, 0, Unrated)
     ELSE Step(s, here, next, job[s], held[s], until[s])

-----------------------------------------------------------------------------
(* subscribe, for the user or for the sweep.                               *)

Later(a, b) == IF a > b THEN a ELSE b

Subscribe(s, p, a) ==
  /\ Start(s, "find", Job("subscribe", 0, p, a, Nobody, {}, {}, 0), 0, Unrated)
  /\ UNCHANGED <<account, guests, ratings>>

FindUser(s) ==
  /\ Step(s, "find", "debit", job[s], pro, 0)
  /\ UNCHANGED <<account, guests, ratings>>

Covers_Unchecked(p) == TRUE
Covers(p) == funds >= p

\* A wallet that cannot pay ends the request, or lets the renewal lapse.
Debit(s) ==
  LET j == job[s] IN
  /\ \/ /\ Covers(j.plan)
        /\ Goto(s, "debit", "insert")
        /\ funds' = funds - j.plan
        /\ renewals' = IF j.op = "sweep" THEN [renewals EXCEPT ![j.row] = @ + 1] ELSE renewals
     \/ /\ ~Covers(j.plan)
        /\ Goto(s, "debit", IF j.op = "sweep" THEN "lapse" ELSE "idle")
        /\ UNCHANGED <<funds, renewals>>
  /\ UNCHANGED <<clock, sub, pro, owed, optedOut, guests, ratings>>

\* The new period starts where the one read ends, or now.
Extended_FromNow(h, p) == clock + p
Extended_Twice(h, p) == Later(h, clock) + p + p
Extended(h, p) == Later(h, clock) + p

Insert(s) ==
  LET j == job[s]  u == Extended(held[s], j.plan) IN
  /\ Step(s, "insert", "extend", j, 0, u)
  /\ \E r \in Rows :
       /\ sub[r].status = "none"
       /\ \A q \in Rows : q < r => sub[q].status # "none"
       /\ sub' = [sub EXCEPT ![r] =
            [status |-> "ACTIVE", plan |-> j.plan, expires |-> u, auto |-> j.auto]]
  /\ owed' = Later(owed, clock) + j.plan
  /\ optedOut' = (optedOut /\ ~(j.op = "subscribe" /\ j.auto))
  /\ UNCHANGED <<clock, funds, pro, renewals, guests, ratings>>

ExtendPro(s) ==
  LET j == job[s] IN
  /\ IF j.op = "sweep" THEN Step(s, "extend", "renewed", j, 0, 0) ELSE Goto(s, "extend", "idle")
  /\ pro' = until[s]
  /\ UNCHANGED <<clock, funds, sub, owed, renewals, optedOut, guests, ratings>>

-----------------------------------------------------------------------------
(* processRenewals, hourly.                                                *)

Due_Any == {r \in Rows : sub[r].status # "none" /\ sub[r].expires <= clock}
Due == {r \in Rows : sub[r].status = "ACTIVE" /\ sub[r].expires <= clock}

ProcessRenewals(s) ==
  /\ Due # {}
  /\ Start(s, "each", Job("sweep", 0, 0, TRUE, Nobody, Due, {r \in Due : sub[r].auto}, clock),
           0, Unrated)
  /\ UNCHANGED <<account, guests, ratings>>

Swept(j, r) == Job("sweep", r, sub[r].plan, TRUE, Nobody, j.due \ {r}, j.renew, j.now)

NextDue(s) ==
  LET j == job[s] IN
  /\ \/ j.due = {} /\ Goto(s, "each", "idle")
     \/ \E r \in j.due :
          Step(s, "each", IF r \in j.renew THEN "find" ELSE "lapse", Swept(j, r), 0, 0)
  /\ UNCHANGED <<account, guests, ratings>>

\* A saved subscription, whose plan and end nobody changes.
Saved(r, status, auto) ==
  [sub EXCEPT ![r] =
     [status |-> status, plan |-> sub[r].plan, expires |-> sub[r].expires, auto |-> auto]]

\* The row as it was read when the sweep began, EXPIRED now.
MarkRenewed(s) ==
  /\ Goto(s, "renewed", "each")
  /\ sub' = Saved(job[s].row, "EXPIRED", TRUE)
  /\ UNCHANGED <<clock, funds, pro, owed, renewals, optedOut, guests, ratings>>

Lapse(s) ==
  /\ Goto(s, "lapse", "check")
  /\ sub' = Saved(job[s].row, "EXPIRED", FALSE)
  /\ UNCHANGED <<clock, funds, pro, owed, renewals, optedOut, guests, ratings>>

\* user.proExpiresAt <= now, of the moment the sweep began
Over(p, now) == p # 0 /\ p <= now

Check(s) ==
  /\ Goto(s, "check", IF Over(pro, job[s].now) THEN "clear" ELSE "each")
  /\ UNCHANGED <<account, guests, ratings>>

ClearPro(s) ==
  /\ Goto(s, "clear", "each")
  /\ pro' = 0
  /\ UNCHANGED <<clock, funds, sub, owed, renewals, optedOut, guests, ratings>>

-----------------------------------------------------------------------------
(* cancelAutoRenew and the profile.                                        *)

Newest(r) ==
  sub[r].status = "ACTIVE" /\ \A q \in Rows : sub[q].status = "ACTIVE" => q <= r

CancelAutoRenew(s) ==
  /\ \E r \in Rows :
       Newest(r) /\ Start(s, "stop", Job("cancel", r, 0, FALSE, Nobody, {}, {}, 0), 0, Unrated)
  /\ UNCHANGED <<account, guests, ratings>>

\* The save writes the row as read, still ACTIVE.
Stop(s) ==
  /\ Goto(s, "stop", "idle")
  /\ sub' = Saved(job[s].row, "ACTIVE", FALSE)
  /\ optedOut' = TRUE
  /\ UNCHANGED <<clock, funds, pro, owed, renewals, guests, ratings>>

\* UsersService.update reads the user and saves the whole entity back.
UpdateProfile(s) ==
  /\ Start(s, "saveProfile", Job("profile", 0, 0, FALSE, Nobody, {}, {}, 0), pro, average)
  /\ UNCHANGED <<account, guests, ratings>>

SaveProfile(s) ==
  /\ Goto(s, "saveProfile", "idle")
  /\ pro' = held[s]
  /\ average' = view[s]
  /\ UNCHANGED <<clock, funds, sub, owed, renewals, optedOut, guests, rated>>

-----------------------------------------------------------------------------
(* Referrals.                                                              *)

About(o, g, e) == Job(o, e, 0, FALSE, g, {}, {}, 0)
IsPro(p) == p > clock

\* createPending, when a guest registers with the user's code.
SignUp(s, g) ==
  /\ referral[g] = "none" /\ \A t \in Slots : job[t].who # g
  /\ g \notin missed \cup completed
  /\ Start(s, "refer", Job("signUp", 0, 0, IsPro(pro), g, {}, {}, 0), 0, Unrated)
  /\ wasOwed' = IF owed > clock THEN wasOwed \cup {g} ELSE wasOwed
  /\ UNCHANGED <<account, referral, done, completed, bonuses, ratings>>

SaveReferral(s) ==
  LET j == job[s] IN
  /\ Goto(s, "refer", "idle")
  /\ referral' = [referral EXCEPT ![j.who] = IF j.auto THEN "PENDING" ELSE "VOID"]
  /\ UNCHANGED <<account, wasOwed, done, completed, bonuses, ratings>>

\* updateStatus, asked for COMPLETED by either party, finds the errand
\* IN_PROGRESS; payouts are Errands' matter, the referral check comes after.
CompleteErrand(s, g, e) ==
  /\ referral[g] # "none" \/ g \in missed
  /\ e \notin done[g]
  /\ Start(s, "saveErrand", About("complete", g, e), 0, Unrated)
  /\ UNCHANGED <<account, guests, ratings>>

SaveErrand(s) ==
  LET g == job[s].who IN
  /\ Goto(s, "saveErrand", "count")
  /\ done' = [done EXCEPT ![g] = @ \cup {job[s].row}]
  /\ completed' = completed \cup {g}
  /\ UNCHANGED <<account, referral, wasOwed, bonuses, ratings>>

\* updateStatus, asked for IN_PROGRESS, takes a COMPLETED errand back.
ReopenErrand(g, e) ==
  /\ e \in done[g]
  /\ requests < MaxRequests /\ requests' = requests + 1
  /\ done' = [done EXCEPT ![g] = @ \ {e}]
  /\ UNCHANGED <<account, referral, wasOwed, completed, bonuses, ratings, history,
                 pc, job, held, until, view>>

First(n) == n = 1

Count(s) ==
  /\ Goto(s, "count", IF First(Cardinality(done[job[s].who])) THEN "findReferral" ELSE "idle")
  /\ UNCHANGED <<account, guests, ratings>>

Payable_NotPaid(g) == referral[g] \in {"PENDING", "VOID"}
Payable(g) == referral[g] = "PENDING"

FindReferral(s) ==
  /\ Goto(s, "findReferral", IF Payable(job[s].who) THEN "credit" ELSE "idle")
  /\ UNCHANGED <<account, guests, ratings>>

CreditBonus(s) ==
  /\ Goto(s, "credit", "paid")
  /\ funds' = funds + Bonus
  /\ bonuses' = [bonuses EXCEPT ![job[s].who] = @ + 1]
  /\ UNCHANGED <<clock, sub, pro, owed, renewals, optedOut, referral, wasOwed, done, completed,
                 ratings>>

SaveCompleted(s) ==
  /\ Goto(s, "paid", "idle")
  /\ referral' = [referral EXCEPT ![job[s].who] = "COMPLETED"]
  /\ UNCHANGED <<account, wasOwed, done, completed, bonuses, ratings>>

-----------------------------------------------------------------------------
(* Ratings.                                                                *)

\* RatingsService.create: no rating of this errand by this party so far.
NotYet(x) == rated[x] = 0

Rate(s, x) ==
  /\ NotYet(x)
  /\ Start(s, "insertRating", About("rate", x, 0), 0, Unrated)
  /\ UNCHANGED <<account, guests, ratings>>

InsertRating(s) ==
  /\ Goto(s, "insertRating", "readRatings")
  /\ rated' = [rated EXCEPT ![job[s].who] = @ + 1]
  /\ UNCHANGED <<account, guests, average>>

\* updateUserRatingAvg reads all ratings, then writes their mean.
ReadRatings(s) ==
  /\ Move(s, "readRatings", "saveAverage", job[s], 0, 0, rated)
  /\ UNCHANGED <<account, guests, ratings>>

SaveAverage(s) ==
  /\ Goto(s, "saveAverage", "idle")
  /\ average' = view[s]
  /\ UNCHANGED <<account, guests, rated>>

-----------------------------------------------------------------------------

Charged(s) == pc[s] \in {"insert", "extend", "renewed"}
Struck(S) ==
  /\ troubles < MaxTroubles
  /\ troubles' = troubles + 1
  /\ cut' = (cut \/ \E s \in S : Charged(s))
  /\ missed' = missed \cup ({job[s].who : s \in S} \cap (Guests \cup Raters))
  /\ UNCHANGED <<account, guests, requests, ratings>>

\* A statement fails.  A failed renewal lapses; any other handler ends.
StatementFails(s) ==
  LET renewing == job[s].op = "sweep" /\ pc[s] \in {"find", "debit", "insert", "extend", "renewed"}
  IN
  /\ pc[s] # "idle"
  /\ Struck({s})
  /\ pc' = [pc EXCEPT ![s] = IF renewing THEN "lapse" ELSE "idle"]
  /\ job' = [job EXCEPT ![s] = IF renewing THEN job[s] ELSE NoJob]
  /\ held' = [held EXCEPT ![s] = 0]
  /\ until' = [until EXCEPT ![s] = 0]
  /\ view' = [view EXCEPT ![s] = Unrated]

Crash ==
  /\ \E s \in Slots : pc[s] # "idle"
  /\ Struck(Slots)
  /\ pc' = [s \in Slots |-> "idle"]
  /\ job' = [s \in Slots |-> NoJob]
  /\ held' = [s \in Slots |-> 0]
  /\ until' = [s \in Slots |-> 0]
  /\ view' = [s \in Slots |-> Unrated]

Next ==
  \/ Tick
  \/ \E s \in Slots :
       \/ \E p \in Plans, a \in BOOLEAN : Subscribe(s, p, a)
       \/ FindUser(s) \/ Debit(s) \/ Insert(s) \/ ExtendPro(s)
       \/ ProcessRenewals(s) \/ NextDue(s) \/ MarkRenewed(s)
       \/ Lapse(s) \/ Check(s) \/ ClearPro(s)
       \/ CancelAutoRenew(s) \/ Stop(s)
       \/ UpdateProfile(s) \/ SaveProfile(s)
       \/ \E g \in Guests : SignUp(s, g) \/ \E e \in Errands : CompleteErrand(s, g, e)
       \/ SaveReferral(s) \/ SaveErrand(s) \/ Count(s)
       \/ FindReferral(s) \/ CreditBonus(s) \/ SaveCompleted(s)
       \/ \E x \in Raters : Rate(s, x)
       \/ InsertRating(s) \/ ReadRatings(s) \/ SaveAverage(s)
       \/ StatementFails(s)
  \/ \E g \in Guests, e \in Errands : ReopenErrand(g, e)
  \/ Crash

Spec == Init /\ [][Next]_vars

-----------------------------------------------------------------------------

TypeOK ==
  /\ clock \in Nat /\ funds \in Nat /\ pro \in Nat /\ owed \in Nat
  /\ sub \in [Rows -> Sub]
  /\ renewals \in [Rows -> Nat]
  /\ optedOut \in BOOLEAN
  /\ referral \in [Guests -> ReferralStatus]
  /\ wasOwed \subseteq Guests
  /\ done \in [Guests -> SUBSET Errands] /\ completed \subseteq Guests
  /\ bonuses \in [Guests -> Nat]
  /\ rated \in [Raters -> Nat] /\ average \in [Raters -> Nat]
  /\ requests \in Nat /\ troubles \in Nat /\ cut \in BOOLEAN
  /\ missed \subseteq Guests \cup Raters
  /\ pc \in [Slots -> Steps]
  /\ job \in [Slots -> Jobs]
  /\ held \in [Slots -> Nat] /\ until \in [Slots -> Nat]
  /\ view \in [Slots -> [Raters -> Nat]]

Still == \A s \in Slots : pc[s] = "idle"

\* Whatever overlaps, fails or is saved back stale, Pro never lasts longer than
\* the periods paid for, each counted from the end of the one before.
NeverMoreThanPaid == pro <= owed

\* A subscriber who renews early, or is renewed by the sweep, keeps the time
\* paid for, unless trouble struck between a debit and the last write.
PaidTimeKept == Still /\ ~cut /\ owed > clock => pro = owed

\* Only a guest who signed up while the user had paid for Pro, and who completed
\* an errand, brings a bonus, whatever became of Pro and of the errand since and
\* however completions overlap.
BonusEarned == \A g \in Guests : bonuses[g] > 0 => g \in wasOwed \cap completed

\* A guest brings one bonus: the referral is completed "once, when the referred
\* user's first errand completes".
BonusOnce == \A g \in Guests : bonuses[g] <= 1

\* A guest with a completed errand has settled the referral, unless trouble struck:
\* the bonus pays out "on the referred user's first completed errand".
FirstErrandPays ==
  \A g \in Guests : Still /\ done[g] # {} /\ g \notin missed => referral[g] # "PENDING"

\* A subscription that ran out is renewed, and charged for, once, unless
\* trouble struck between the debit and the row's EXPIRED.
RenewedOnce == \A r \in Rows : ~cut => renewals[r] <= 1

\* The average users see counts every rating, unless trouble struck one of them:
\* "Rating updates user's average rating".
AverageCurrent == Still /\ missed \cap Raters = {} => average = rated

\* "Only one rating per errand per user"
OneRatingEach == \A x \in Raters : rated[x] <= 1

\* Turning auto-renewal off turns it off: "Pro stays active until it expires,
\* it just won't renew itself".
CancelledStays ==
  [][optedOut => renewals' = renewals]_vars
=============================================================================
