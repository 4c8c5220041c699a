--------------------------- MODULE MembersProofs ----------------------------
(***************************************************************************)
(* What Members keeps for any plans, prices, guests and handlers: first,   *)
(* whatever overlaps, fails or is saved back stale; then, where the        *)
(* handlers of Conflict wait for each other (~Races), what a stale save    *)
(* would break.                                                            *)
(***************************************************************************)
EXTENDS Members, TLAPS

People == Guests \cup Raters \cup {Nobody}

\* A job built from its parts is one and has them.
LEMMA JobShape ==
  ASSUME NEW o \in Ops, NEW r \in Rows \cup Errands \cup {0}, NEW p \in Plans \cup {0}, NEW a \in BOOLEAN,
         NEW g \in People, NEW due \in SUBSET Rows, NEW renew \in SUBSET Rows, NEW now \in Nat
  PROVE  /\ Job(o, r, p, a, g, due, renew, now) \in Jobs
         /\ Job(o, r, p, a, g, due, renew, now).op = o
         /\ Job(o, r, p, a, g, due, renew, now).auto = a
         /\ Job(o, r, p, a, g, due, renew, now).who = g
BY DEF Job, Jobs, People

\* The parts of a job.
LEMMA JobParts ==
  ASSUME NEW j \in Jobs
  PROVE  /\ j.op \in Ops /\ j.row \in Rows \cup Errands \cup {0} /\ j.plan \in Plans \cup {0}
         /\ j.auto \in BOOLEAN /\ j.who \in People
         /\ j.due \subseteq Rows /\ j.renew \subseteq Rows /\ j.now \in Nat
BY DEF Jobs, People

LEMMA PlanType ==
  ASSUME NEW j \in Jobs
  PROVE  j.plan \in Nat
<1>1. j.plan \in Plans \cup {0} /\ 0 \in Nat
  BY JobParts
<1>2. \A p \in Plans : p \in Nat
  BY MembersAssumption
<1> QED
  BY <1>1, <1>2

\* No job, and one about a guest or a rater only.
LEMMA PlainJobs ==
  /\ NoJob \in Jobs /\ NoJob.op = "none" /\ NoJob.who = Nobody
  /\ \A o \in Ops, g \in Guests \cup Raters, e \in Errands \cup {0} :
       About(o, g, e) \in Jobs /\ About(o, g, e).op = o /\ About(o, g, e).who = g
<1>1. ASSUME NEW o \in Ops, NEW g \in People, NEW e \in Errands \cup {0}
      PROVE LET j == Job(o, e, 0, FALSE, g, {}, {}, 0)
            IN  j \in Jobs /\ j.op = o /\ j.who = g
  BY DEF Job, Jobs, People
<1>2. NoJob \in Jobs /\ NoJob.op = "none" /\ NoJob.who = Nobody
  <2>1. "none" \in Ops /\ Nobody \in People /\ 0 \in Errands \cup {0}
    BY DEF Ops, People
  <2> HIDE DEF Nobody
  <2> QED
    BY <1>1, <2>1, Zenon DEF NoJob
<1>3. ASSUME NEW o \in Ops, NEW g \in Guests \cup Raters, NEW e \in Errands \cup {0}
      PROVE About(o, g, e) \in Jobs /\ About(o, g, e).op = o /\ About(o, g, e).who = g
  BY <1>1 DEF About, People
<1> QED
  BY <1>2, <1>3

\* A subscription row built from its columns.
LEMMA SubShape ==
  ASSUME NEW st \in SubStatus, NEW p \in Plans \cup {0}, NEW e \in Nat, NEW a \in BOOLEAN
  PROVE  [status |-> st, plan |-> p, expires |-> e, auto |-> a] \in Sub
BY DEF Sub

\* Its columns.
LEMMA SubParts ==
  ASSUME NEW u \in Sub
  PROVE  u.plan \in Plans \cup {0} /\ u.expires \in Nat
BY DEF Sub

-----------------------------------------------------------------------------

\* The columns of the handlers; whoever is about to save an errand has one of a guest.
Handlers ==
  /\ pc \in [Slots -> Steps] /\ job \in [Slots -> Jobs]
  /\ held \in [Slots -> Nat] /\ until \in [Slots -> Nat]
  /\ view \in [Slots -> [Raters -> Nat]]
  /\ \A s \in Slots : pc[s] = "saveErrand" => job[s].row \in Errands /\ job[s].who \in Guests

\* The rest.
Tables ==
  /\ clock \in Nat /\ funds \in Nat /\ pro \in Nat /\ owed \in Nat
  /\ sub \in [Rows -> Sub]
  /\ renewals \in [Rows -> Nat]
  /\ optedOut \in BOOLEAN
  /\ referral \in [Guests -> ReferralStatus]
  /\ wasOwed \subseteq Guests
  /\ done \in [Guests -> SUBSET Errands] /\ completed \subseteq Guests
  /\ bonuses \in [Guests -> Nat]
  /\ rated \in [Raters -> Nat] /\ average \in [Raters -> Nat]

History ==
  /\ requests \in Nat /\ troubles \in Nat /\ cut \in BOOLEAN
  /\ missed \subseteq Guests \cup Raters

LEMMA TypeParts == Handlers /\ Tables /\ History => TypeOK
BY DEF TypeOK, Handlers, Tables, History

\* Unrated is a set of ratings.
LEMMA UnratedType == Unrated \in [Raters -> Nat]
BY DEF Unrated

\* Counting one more.
LEMMA CountOne ==
  ASSUME NEW S, NEW f \in [S -> Nat], NEW x
  PROVE  [f EXCEPT ![x] = @ + 1] \in [S -> Nat]
<1>1. CASE x \in S
  <2>1. f[x] + 1 \in Nat
    BY <1>1
  <2> QED
    BY <1>1, <2>1
<1>2. CASE x \notin S
  BY <1>2
<1> QED
  BY <1>1, <1>2

\* The steps but the one that saves an errand.
Rest == Steps \ {"saveErrand"}

\* Taking up a request.
LEMMA StartTypes ==
  ASSUME Handlers, History, NEW s \in Slots, NEW here \in Steps, NEW j \in Jobs,
         here = "saveErrand" => j.row \in Errands /\ j.who \in Guests,
         NEW h \in Nat, NEW v \in [Raters -> Nat], Start(s, here, j, h, v)
  PROVE  Handlers' /\ History'
BY DEF Start, Handlers, History, history

\* A step of a handler.
LEMMA MoveTypes ==
  ASSUME Handlers, History, NEW s \in Slots, NEW here, NEW next \in Rest, NEW j \in Jobs,
         NEW h \in Nat, NEW u \in Nat, NEW v \in [Raters -> Nat], Move(s, here, next, j, h, u, v)
  PROVE  Handlers' /\ History'
BY DEF Move, Handlers, Rest, History, history

LEMMA StepTypes ==
  ASSUME Handlers, History, NEW s \in Slots, NEW here, NEW next \in Rest, NEW j \in Jobs,
         NEW h \in Nat, NEW u \in Nat, Step(s, here, next, j, h, u)
  PROVE  Handlers' /\ History'
<1>1. view[s] \in [Raters -> Nat]
  BY DEF Handlers
<1> QED
  BY <1>1, MoveTypes DEF Step

LEMMA GotoTypes ==
  ASSUME Handlers, History, NEW s \in Slots, NEW here, NEW next \in Rest, Goto(s, here, next)
  PROVE  Handlers' /\ History'
<1>1. /\ job[s] \in Jobs /\ held[s] \in Nat /\ until[s] \in Nat
      /\ NoJob \in Jobs /\ Unrated \in [Raters -> Nat] /\ 0 \in Nat
  BY PlainJobs, UnratedType DEF Handlers
<1> QED
  BY <1>1, MoveTypes, StepTypes DEF Goto

\* A saved subscription.
LEMMA SavedType ==
  ASSUME sub \in [Rows -> Sub], NEW r, NEW st \in SubStatus, NEW a \in BOOLEAN
  PROVE  Saved(r, st, a) \in [Rows -> Sub]
<1>1. CASE r \in Rows
  <2>1. sub[r].plan \in Plans \cup {0} /\ sub[r].expires \in Nat
    BY <1>1, SubParts
  <2>2. [status |-> st, plan |-> sub[r].plan, expires |-> sub[r].expires, auto |-> a] \in Sub
    BY <2>1, SubShape
  <2> QED
    BY <1>1, <2>2 DEF Saved
<1>2. CASE r \notin Rows
  BY <1>2 DEF Saved
<1> QED
  BY <1>1, <1>2

-----------------------------------------------------------------------------

Typed == Handlers /\ Tables /\ History

\* subscribe keeps the types.
LEMMA TypeSubscribe ==
  ASSUME Typed, NEW s \in Slots,
         \/ \E p \in Plans, a \in BOOLEAN : Subscribe(s, p, a)
         \/ FindUser(s) \/ Debit(s) \/ Insert(s) \/ ExtendPro(s)
  PROVE  Typed'
<1> USE DEF account, guests, ratings
<1>0. job[s] \in Jobs /\ held[s] \in Nat /\ until[s] \in Nat /\ pro \in Nat /\ 0 \in Nat
  BY DEF Typed, Handlers, Tables
<1>00. /\ job[s].plan \in Plans \cup {0} /\ job[s].plan \in Nat /\ job[s].auto \in BOOLEAN
  BY <1>0, JobParts, MembersAssumption
<1>1. ASSUME NEW p \in Plans, NEW a \in BOOLEAN, Subscribe(s, p, a) PROVE Typed'
  <2>1. Job("subscribe", 0, p, a, Nobody, {}, {}, 0) \in Jobs /\ "find" \in Steps
    BY DEF Job, Jobs, Ops, Steps
  <2>2. Handlers' /\ History'
    BY <1>0, <1>1, <2>1, StartTypes, UnratedType DEF Subscribe, Typed
  <2> QED
    BY <1>1, <2>2 DEF Subscribe, Typed, Tables
<1>2. CASE FindUser(s)
  <2>1. Handlers' /\ History'
    BY <1>0, <1>2, StepTypes DEF FindUser, Typed, Steps, Rest
  <2> QED
    BY <1>2, <2>1 DEF FindUser, Typed, Tables
<1>3. CASE Debit(s)
  <2>1. CASE Covers(job[s].plan) /\ Goto(s, "debit", "insert")
             /\ funds' = funds - job[s].plan
             /\ renewals' = IF job[s].op = "sweep" THEN [renewals EXCEPT ![job[s].row] = @ + 1]
                                                   ELSE renewals
    <3>1. Handlers' /\ History'
      BY <2>1, GotoTypes DEF Typed, Steps, Rest
    <3>2. funds' \in Nat
      BY <1>00, <2>1 DEF Covers, Typed, Tables
    <3>3. renewals' \in [Rows -> Nat]
      BY <2>1, CountOne DEF Typed, Tables
    <3> QED
      BY <1>3, <3>1, <3>2, <3>3 DEF Debit, Typed, Tables
  <2>2. CASE ~Covers(job[s].plan)
             /\ Goto(s, "debit", IF job[s].op = "sweep" THEN "lapse" ELSE "idle")
             /\ UNCHANGED <<funds, renewals>>
    <3>1. Handlers' /\ History'
      BY <2>2, GotoTypes DEF Typed, Steps, Rest
    <3> QED
      BY <1>3, <2>2, <3>1 DEF Debit, Typed, Tables
  <2> QED
    BY <1>3, <2>1, <2>2 DEF Debit
<1>4. CASE Insert(s)
  <2>1. Extended(held[s], job[s].plan) \in Nat /\ owed' \in Nat
    BY <1>0, <1>00, <1>4 DEF Insert, Extended, Later, Typed, Tables
  <2>2. Handlers' /\ History'
    BY <1>0, <1>4, <2>1, StepTypes DEF Insert, Typed, Steps, Rest
  <2>3. [status |-> "ACTIVE", plan |-> job[s].plan, expires |-> Extended(held[s], job[s].plan),
         auto |-> job[s].auto] \in Sub
    BY <1>00, <2>1, SubShape DEF SubStatus
  <2>4. sub' \in [Rows -> Sub]
    BY <1>4, <2>3 DEF Insert, Typed, Tables
  <2>5. optedOut' \in BOOLEAN
    BY <1>4 DEF Insert
  <2> QED
    BY <1>4, <2>1, <2>2, <2>4, <2>5 DEF Insert, Typed, Tables
<1>5. CASE ExtendPro(s)
  <2>1. Handlers' /\ History'
    BY <1>0, <1>5, StepTypes, GotoTypes DEF ExtendPro, Typed, Steps, Rest
  <2> QED
    BY <1>0, <1>5, <2>1 DEF ExtendPro, Typed, Tables
<1> QED
  BY <1>1, <1>2, <1>3, <1>4, <1>5

\* So do the sweep, cancelling and the profile.
LEMMA TypeSweep ==
  ASSUME Typed, NEW s \in Slots,
         \/ ProcessRenewals(s) \/ NextDue(s) \/ MarkRenewed(s)
         \/ Lapse(s) \/ Check(s) \/ ClearPro(s)
         \/ CancelAutoRenew(s) \/ Stop(s)
         \/ UpdateProfile(s) \/ SaveProfile(s)
  PROVE  Typed'
<1> USE DEF account, guests, ratings
<1>0. /\ job[s] \in Jobs /\ held[s] \in Nat /\ pro \in Nat /\ clock \in Nat /\ 0 \in Nat
      /\ view[s] \in [Raters -> Nat] /\ average \in [Raters -> Nat]
      /\ sub \in [Rows -> Sub]
  BY DEF Typed, Handlers, Tables
<1>1. CASE ProcessRenewals(s)
  <2>1. Job("sweep", 0, 0, TRUE, Nobody, Due, {r \in Due : sub[r].auto}, clock) \in Jobs
    BY <1>0, JobShape, ZenonT(30) DEF Ops, People, Due
  <2>2. Handlers' /\ History'
    BY <1>0, <1>1, <2>1, StartTypes, UnratedType DEF ProcessRenewals, Typed, Steps
  <2> QED
    BY <1>1, <2>2 DEF ProcessRenewals, Typed, Tables
<1>2. CASE NextDue(s)
  <2>1. CASE Goto(s, "each", "idle")
    BY <1>2, <2>1, GotoTypes DEF NextDue, Typed, Tables, Steps, Rest
  <2>2. ASSUME NEW r \in job[s].due,
               Step(s, "each", IF r \in job[s].renew THEN "find" ELSE "lapse",
                    Swept(job[s], r), 0, 0)
        PROVE Typed'
    <3>1. /\ r \in Rows /\ job[s].due \ {r} \subseteq Rows
          /\ job[s].renew \subseteq Rows /\ job[s].now \in Nat
      BY <1>0, JobParts
    <3>2. sub[r].plan \in Plans \cup {0}
      BY <1>0, <3>1, SubParts
    <3>3. Swept(job[s], r) \in Jobs
      BY <3>1, <3>2 DEF Swept, Job, Jobs, Ops
    <3>4. Handlers' /\ History'
      BY <1>0, <2>2, <3>3, StepTypes DEF Typed, Steps, Rest
    <3> QED
      BY <1>2, <3>4 DEF NextDue, Typed, Tables
  <2> QED
    BY <1>2, <2>1, <2>2 DEF NextDue
<1>3. CASE MarkRenewed(s)
  <2>1. Handlers' /\ History' /\ sub' \in [Rows -> Sub]
    BY <1>0, <1>3, GotoTypes, SavedType DEF MarkRenewed, Typed, Steps, Rest, SubStatus
  <2> QED
    BY <1>3, <2>1 DEF MarkRenewed, Typed, Tables
<1>4. CASE Lapse(s)
  <2>1. Handlers' /\ History' /\ sub' \in [Rows -> Sub]
    BY <1>0, <1>4, GotoTypes, SavedType DEF Lapse, Typed, Steps, Rest, SubStatus
  <2> QED
    BY <1>4, <2>1 DEF Lapse, Typed, Tables
<1>5. CASE Check(s)
  <2>1. Handlers' /\ History'
    BY <1>5, GotoTypes DEF Check, Typed, Steps, Rest
  <2> QED
    BY <1>5, <2>1 DEF Check, Typed, Tables
<1>6. CASE ClearPro(s)
  <2>1. Handlers' /\ History'
    BY <1>6, GotoTypes DEF ClearPro, Typed, Steps, Rest
  <2> QED
    BY <1>6, <2>1 DEF ClearPro, Typed, Tables
<1>7. CASE CancelAutoRenew(s)
  <2>1. PICK r \in Rows :
          Start(s, "stop", Job("cancel", r, 0, FALSE, Nobody, {}, {}, 0), 0, Unrated)
    BY <1>7 DEF CancelAutoRenew
  <2>2. Job("cancel", r, 0, FALSE, Nobody, {}, {}, 0) \in Jobs
    BY JobShape DEF Ops, People
  <2>3. Handlers' /\ History'
    BY <1>0, <2>1, <2>2, StartTypes, UnratedType DEF Typed, Steps
  <2> QED
    BY <1>7, <2>3 DEF CancelAutoRenew, Typed, Tables
<1>8. CASE Stop(s)
  <2>1. Handlers' /\ History' /\ sub' \in [Rows -> Sub]
    BY <1>0, <1>8, GotoTypes, SavedType DEF Stop, Typed, Steps, Rest, SubStatus
  <2> QED
    BY <1>8, <2>1 DEF Stop, Typed, Tables
<1>9. CASE UpdateProfile(s)
  <2>1. Job("profile", 0, 0, FALSE, Nobody, {}, {}, 0) \in Jobs
    BY JobShape DEF Ops, People
  <2>2. Handlers' /\ History'
    BY <1>0, <1>9, <2>1, StartTypes DEF UpdateProfile, Typed, Steps
  <2> QED
    BY <1>9, <2>2 DEF UpdateProfile, Typed, Tables
<1>10. CASE SaveProfile(s)
  <2>1. Handlers' /\ History'
    BY <1>10, GotoTypes DEF SaveProfile, Typed, Steps, Rest
  <2> QED
    BY <1>0, <1>10, <2>1 DEF SaveProfile, Typed, Tables
<1> QED
  BY <1>1, <1>2, <1>3, <1>4, <1>5, <1>6, <1>7, <1>8, <1>9, <1>10

\* And so do referrals and ratings.
LEMMA TypeOthers ==
  ASSUME Typed, NEW s \in Slots,
         \/ \E g \in Guests : SignUp(s, g) \/ \E e \in Errands : CompleteErrand(s, g, e)
         \/ SaveReferral(s) \/ SaveErrand(s) \/ Count(s) \/ FindReferral(s) \/ CreditBonus(s)
         \/ SaveCompleted(s)
         \/ \E x \in Raters : Rate(s, x)
         \/ InsertRating(s) \/ ReadRatings(s) \/ SaveAverage(s)
  PROVE  Typed'
<1> USE DEF account, guests, ratings
<1>0. /\ job[s] \in Jobs /\ 0 \in Nat /\ Bonus \in Nat
      /\ view[s] \in [Raters -> Nat] /\ rated \in [Raters -> Nat]
  BY MembersAssumption DEF Typed, Handlers, Tables
<1>1. ASSUME NEW g \in Guests, SignUp(s, g) PROVE Typed'
  <2>1. Job("signUp", 0, 0, IsPro(pro), g, {}, {}, 0) \in Jobs
    BY DEF Job, Jobs, Ops, IsPro
  <2>2. Handlers' /\ History'
    BY <1>0, <1>1, <2>1, StartTypes, UnratedType DEF SignUp, Typed, Steps
  <2> QED
    BY <1>1, <2>2 DEF SignUp, Typed, Tables
<1>2. ASSUME NEW g \in Guests, NEW e \in Errands, CompleteErrand(s, g, e) PROVE Typed'
  <2>1. About("complete", g, e) \in Jobs
    BY PlainJobs DEF Ops
  <2>2. About("complete", g, e).row = e /\ About("complete", g, e).who = g
    BY DEF About, Job
  <2>3. Handlers' /\ History'
    BY <1>0, <1>2, <2>1, <2>2, StartTypes, UnratedType DEF CompleteErrand, Typed, Steps
  <2> QED
    BY <1>2, <2>3 DEF CompleteErrand, Typed, Tables
<1>3. ASSUME NEW x \in Raters, Rate(s, x) PROVE Typed'
  <2>1. About("rate", x, 0) \in Jobs
    BY PlainJobs DEF Ops
  <2>2. Handlers' /\ History'
    BY <1>0, <1>3, <2>1, StartTypes, UnratedType DEF Rate, Typed, Steps
  <2> QED
    BY <1>3, <2>2 DEF Rate, Typed, Tables
<1>4. CASE SaveReferral(s)
  <2>1. Handlers' /\ History' /\ referral' \in [Guests -> ReferralStatus]
    BY <1>4, GotoTypes DEF SaveReferral, Typed, Tables, Steps, Rest, ReferralStatus
  <2> QED
    BY <1>4, <2>1 DEF SaveReferral, Typed, Tables
<1>11. CASE SaveErrand(s)
  <2>1. Handlers' /\ History'
    BY <1>11, GotoTypes DEF SaveErrand, Typed, Steps, Rest
  <2>2. job[s].row \in Errands /\ job[s].who \in Guests
    BY <1>11 DEF SaveErrand, Goto, Move, Step, Typed, Handlers
  <2> QED
    BY <1>11, <2>1, <2>2 DEF SaveErrand, Typed, Tables
<1>5. CASE Count(s) \/ FindReferral(s)
  <2>1. Handlers' /\ History'
    BY <1>5, GotoTypes DEF Count, FindReferral, Typed, Steps, Rest
  <2> QED
    BY <1>5, <2>1 DEF Count, FindReferral, Typed, Tables
<1>6. CASE CreditBonus(s)
  <2>1. Handlers' /\ History'
    BY <1>6, GotoTypes DEF CreditBonus, Typed, Steps, Rest
  <2>2. funds' \in Nat /\ bonuses' \in [Guests -> Nat]
    BY <1>0, <1>6, CountOne DEF CreditBonus, Typed, Tables
  <2> QED
    BY <1>6, <2>1, <2>2 DEF CreditBonus, Typed, Tables
<1>7. CASE SaveCompleted(s)
  <2>1. Handlers' /\ History' /\ referral' \in [Guests -> ReferralStatus]
    BY <1>7, GotoTypes DEF SaveCompleted, Typed, Tables, Steps, Rest, ReferralStatus
  <2> QED
    BY <1>7, <2>1 DEF SaveCompleted, Typed, Tables
<1>8. CASE InsertRating(s)
  <2>1. Handlers' /\ History' /\ rated' \in [Raters -> Nat]
    BY <1>8, GotoTypes, CountOne DEF InsertRating, Typed, Tables, Steps, Rest
  <2> QED
    BY <1>8, <2>1 DEF InsertRating, Typed, Tables
<1>9. CASE ReadRatings(s)
  <2>1. Handlers' /\ History'
    BY <1>0, <1>9, MoveTypes DEF ReadRatings, Typed, Steps, Rest
  <2> QED
    BY <1>9, <2>1 DEF ReadRatings, Typed, Tables
<1>10. CASE SaveAverage(s)
  <2>1. Handlers' /\ History'
    BY <1>10, GotoTypes DEF SaveAverage, Typed, Steps, Rest
  <2> QED
    BY <1>0, <1>10, <2>1 DEF SaveAverage, Typed, Tables
<1> QED
  BY <1>1, <1>2, <1>3, <1>4, <1>5, <1>6, <1>7, <1>8, <1>9, <1>10, <1>11

\* Trouble resets handlers, and remembers whom it struck.
LEMMA TypeTrouble ==
  ASSUME Typed, Crash \/ \E s \in Slots : StatementFails(s)
  PROVE  Typed'
<1> USE DEF account, guests, ratings
<1>0. NoJob \in Jobs /\ Unrated \in [Raters -> Nat] /\ 0 \in Nat
  BY PlainJobs, UnratedType
<1>1. ASSUME NEW S \in SUBSET Slots, Struck(S) PROVE Tables' /\ History'
  BY <1>1 DEF Struck, Typed, Tables, History
<1>2. CASE Crash
  <2>1. Handlers'
    BY <1>0, <1>2 DEF Crash, Handlers, Steps
  <2> QED
    BY <1>1, <1>2, <2>1 DEF Crash, Typed
<1>3. ASSUME NEW s \in Slots, StatementFails(s) PROVE Typed'
  <2>1. Handlers'
    BY <1>0, <1>3 DEF StatementFails, Typed, Handlers, Steps
  <2>2. Struck({s}) /\ {s} \in SUBSET Slots
    BY <1>3 DEF StatementFails
  <2> QED
    BY <1>1, <2>1, <2>2 DEF Typed
<1> QED
  BY <1>2, <1>3

\* Every step keeps the types.
LEMMA TypeNext ==
  ASSUME Typed, [Next]_vars
  PROVE  Typed'
<1>1. CASE Tick
  BY <1>1 DEF Tick, Typed, Handlers, Tables, History, guests, ratings, history
<1>3. ASSUME NEW g \in Guests, NEW e \in Errands, ReopenErrand(g, e) PROVE Typed'
  BY <1>3 DEF ReopenErrand, Typed, Handlers, Tables, History, account, ratings, history
<1>2. CASE UNCHANGED vars
  BY <1>2 DEF vars, Typed, Handlers, Tables, History
<1> QED
  BY <1>1, <1>2, <1>3, TypeSubscribe, TypeSweep, TypeOthers, TypeTrouble DEF Next

\* Initially all is empty.
LEMMA TypeInit == Init => Typed
<1>1. NoJob \in Jobs /\ Unrated \in [Raters -> Nat] /\ 0 \in Nat /\ Deposit \in Nat
  BY PlainJobs, UnratedType, MembersAssumption
<1>2. [status |-> "none", plan |-> 0, expires |-> 0, auto |-> FALSE] \in Sub
  BY SubShape DEF SubStatus
<1> SUFFICES ASSUME Init PROVE Typed
  OBVIOUS
<1>3. Handlers
  BY <1>1 DEF Init, Handlers, Steps
<1>4. sub \in [Rows -> Sub]
  BY <1>2 DEF Init
<1>5. Tables
  BY <1>1, <1>4 DEF Init, Tables, ReferralStatus
<1> QED
  BY <1>3, <1>5 DEF Init, Typed, History

\* Types: every column and every handler keeps its type; in particular no
\* subscription is paid for with money the wallet does not have.
THEOREM TypeCorrect == Spec => []TypeOK
<1>1. Typed => TypeOK
  BY TypeParts DEF Typed
<1> QED
  BY TypeInit, TypeNext, <1>1, PTL DEF Spec

-----------------------------------------------------------------------------
(* Pro never outlasts what was paid for: neither does what a handler read, *)
(* nor what it will write.                                                 *)

Within == pro <= owed /\ \A s \in Slots : held[s] <= owed /\ until[s] <= owed

\* A step that reads and writes no later time than was paid for.
LEMMA WithinMove ==
  ASSUME Typed, Typed', Within, NEW s \in Slots, owed <= owed', pro' <= owed',
         held'[s] <= owed', until'[s] <= owed',
         \A t \in Slots : t # s => held'[t] = held[t] /\ until'[t] = until[t]
  PROVE  Within'
<1> SUFFICES ASSUME NEW t \in Slots PROVE held'[t] <= owed' /\ until'[t] <= owed'
  BY DEF Within
<1>1. owed \in Nat /\ owed' \in Nat /\ held[t] \in Nat /\ until[t] \in Nat
  BY DEF Typed, Tables, Handlers
<1>2. CASE t = s
  BY <1>2
<1>3. CASE t # s
  <2>1. held[t] <= owed /\ until[t] <= owed
    BY DEF Within
  <2> QED
    BY <1>1, <1>3, <2>1
<1> QED
  BY <1>2, <1>3

\* What Start, Move, Step and Goto leave of the times at hand.
LEMMA MoveTimes ==
  ASSUME Typed, NEW s \in Slots
  PROVE  /\ \A here, j, h, v : Start(s, here, j, h, v) =>
              /\ held'[s] = h /\ until'[s] = until[s]
              /\ \A t \in Slots : t # s => held'[t] = held[t] /\ until'[t] = until[t]
         /\ \A here, next, j, h, u, v : Move(s, here, next, j, h, u, v) =>
              /\ held'[s] = h /\ until'[s] = u
              /\ \A t \in Slots : t # s => held'[t] = held[t] /\ until'[t] = until[t]
BY DEF Typed, Handlers, Start, Move

LEMMA GotoTimes ==
  ASSUME Typed, NEW s \in Slots, NEW here, NEW next, Goto(s, here, next)
  PROVE  /\ held'[s] \in {0, held[s]} /\ until'[s] \in {0, until[s]}
         /\ \A t \in Slots : t # s => held'[t] = held[t] /\ until'[t] = until[t]
BY MoveTimes DEF Goto, Step

\* A step that leaves Pro and what is owed alone and reads no time.
LEMMA WithinGoto ==
  ASSUME Typed, Typed', Within, NEW s \in Slots, NEW here, NEW next, Goto(s, here, next),
         owed' = owed, pro' <= owed
  PROVE  Within'
<1>1. /\ held'[s] \in {0, held[s]} /\ until'[s] \in {0, until[s]}
      /\ \A t \in Slots : t # s => held'[t] = held[t] /\ until'[t] = until[t]
  BY GotoTimes
<1>2. held[s] <= owed /\ until[s] <= owed /\ owed \in Nat
  BY DEF Within, Typed, Tables
<1> QED
  BY <1>1, <1>2, WithinMove

LEMMA WithinStart ==
  ASSUME Typed, Typed', Within, NEW s \in Slots, NEW here, NEW j, NEW h \in {0, pro}, NEW v,
         Start(s, here, j, h, v), owed' = owed, pro' = pro
  PROVE  Within'
<1>1. /\ held'[s] = h /\ until'[s] = until[s]
      /\ \A t \in Slots : t # s => held'[t] = held[t] /\ until'[t] = until[t]
  BY MoveTimes
<1>2. h <= owed /\ pro <= owed /\ until[s] <= owed /\ owed \in Nat
  BY DEF Within, Typed, Tables
<1> QED
  BY <1>1, <1>2, WithinMove

\* Every step of a handler.
LEMMA WithinHandler ==
  ASSUME Typed, Typed', Within, NEW s \in Slots,
         \/ \E p \in Plans, a \in BOOLEAN : Subscribe(s, p, a)
         \/ FindUser(s) \/ Debit(s) \/ Insert(s) \/ ExtendPro(s)
         \/ ProcessRenewals(s) \/ NextDue(s) \/ MarkRenewed(s)
         \/ Lapse(s) \/ Check(s) \/ ClearPro(s)
         \/ CancelAutoRenew(s) \/ Stop(s)
         \/ UpdateProfile(s) \/ SaveProfile(s)
         \/ \E g \in Guests : SignUp(s, g) \/ \E e \in Errands : CompleteErrand(s, g, e)
         \/ SaveReferral(s) \/ SaveErrand(s) \/ Count(s) \/ FindReferral(s) \/ CreditBonus(s)
         \/ SaveCompleted(s)
         \/ \E x \in Raters : Rate(s, x)
         \/ InsertRating(s) \/ ReadRatings(s) \/ SaveAverage(s)
  PROVE  Within'
<1> USE DEF account, guests, ratings
<1>0. /\ pro <= owed /\ held[s] <= owed /\ until[s] <= owed
      /\ pro \in Nat /\ owed \in Nat /\ clock \in Nat /\ held[s] \in Nat
  BY DEF Within, Typed, Tables, Handlers
<1>1. ASSUME NEW here, NEW j, NEW h \in {0, pro}, NEW v, Start(s, here, j, h, v),
             UNCHANGED <<owed, pro>>
      PROVE  Within'
  BY <1>1, WithinStart
<1>2. ASSUME NEW here, NEW next, Goto(s, here, next), UNCHANGED owed, pro' <= owed
      PROVE  Within'
  BY <1>2, WithinGoto
<1>3. ASSUME NEW here, NEW next, NEW j, NEW h \in {0, pro}, Step(s, here, next, j, h, 0),
             UNCHANGED owed, pro' <= owed
      PROVE  Within'
  <2>1. /\ held'[s] = h /\ until'[s] = 0
        /\ \A t \in Slots : t # s => held'[t] = held[t] /\ until'[t] = until[t]
    BY <1>3, MoveTimes DEF Step
  <2> QED
    BY <1>0, <1>3, <2>1, WithinMove
<1>4. CASE \E p \in Plans, a \in BOOLEAN : Subscribe(s, p, a)
  BY <1>1, <1>4 DEF Subscribe
<1>5. CASE FindUser(s)
  BY <1>0, <1>3, <1>5 DEF FindUser
<1>6. CASE Debit(s)
  <2>1. UNCHANGED owed /\ pro' <= owed
    BY <1>0, <1>6 DEF Debit
  <2>2. CASE Goto(s, "debit", "insert")
    BY <1>2, <2>1, <2>2
  <2>3. ASSUME NEW next \in {"lapse", "idle"}, Goto(s, "debit", next) PROVE Within'
    BY <1>2, <2>1, <2>3
  <2>4. CASE Goto(s, "debit", IF job[s].op = "sweep" THEN "lapse" ELSE "idle")
    <3>1. CASE job[s].op = "sweep"
      BY <2>3, <2>4, <3>1, Zenon
    <3>2. CASE job[s].op # "sweep"
      BY <2>3, <2>4, <3>2, Zenon
    <3> QED
      BY <3>1, <3>2
  <2> QED
    BY <1>6, <2>2, <2>4, Zenon DEF Debit
<1>7. CASE Insert(s)
  <2>0. job[s] \in Jobs
    BY DEF Typed, Handlers
  <2>1. job[s].plan \in Nat
    BY <2>0, PlanType
  <2>2. /\ Step(s, "insert", "extend", job[s], 0, Extended(held[s], job[s].plan))
        /\ owed' = Later(owed, clock) + job[s].plan /\ pro' = pro
    BY <1>7 DEF Insert
  <2>3. /\ held'[s] = 0 /\ until'[s] = Later(held[s], clock) + job[s].plan
        /\ \A t \in Slots : t # s => held'[t] = held[t] /\ until'[t] = until[t]
    BY <2>2, MoveTimes DEF Step, Extended
  <2>4. owed <= owed' /\ until'[s] <= owed' /\ pro <= owed' /\ owed' \in Nat
    BY <1>0, <2>1, <2>2, <2>3 DEF Later
  <2> QED
    BY <2>2, <2>3, <2>4, WithinMove
<1>8. CASE ExtendPro(s)
  BY <1>0, <1>2, <1>3, <1>8 DEF ExtendPro
<1>9. CASE ProcessRenewals(s)
  BY <1>1, <1>9 DEF ProcessRenewals
<1>10. CASE NextDue(s)
  <2>1. CASE Goto(s, "each", "idle")
    BY <1>0, <1>2, <1>10, <2>1 DEF NextDue
  <2>2. ASSUME NEW r \in job[s].due,
               Step(s, "each", IF r \in job[s].renew THEN "find" ELSE "lapse",
                    Swept(job[s], r), 0, 0)
        PROVE Within'
    BY <1>0, <1>3, <1>10, <2>2 DEF NextDue
  <2> QED
    BY <1>10, <2>1, <2>2 DEF NextDue
<1>11. CASE MarkRenewed(s) \/ Lapse(s) \/ Check(s) \/ ClearPro(s) \/ Stop(s)
  <2>0. UNCHANGED owed /\ pro' \in {0, pro}
    <3>1. CASE MarkRenewed(s) \/ Lapse(s)
      BY <3>1 DEF MarkRenewed, Lapse
    <3>2. CASE Check(s)
      BY <3>2, Zenon DEF Check
    <3>3. CASE ClearPro(s) \/ Stop(s)
      BY <3>3 DEF ClearPro, Stop
    <3> QED
      BY <1>11, <3>1, <3>2, <3>3
  <2>1. UNCHANGED owed /\ pro' <= owed
    BY <1>0, <2>0
  <2>2. CASE MarkRenewed(s)
    BY <1>2, <2>1, <2>2 DEF MarkRenewed
  <2>3. CASE Lapse(s)
    BY <1>2, <2>1, <2>3 DEF Lapse
  <2>4. CASE Check(s)
    <3>1. CASE Over(pro, job[s].now)
      BY <1>2, <2>1, <2>4, <3>1, Zenon DEF Check
    <3>2. CASE ~Over(pro, job[s].now)
      BY <1>2, <2>1, <2>4, <3>2, Zenon DEF Check
    <3> QED
      BY <3>1, <3>2
  <2>5. CASE ClearPro(s) \/ Stop(s)
    BY <1>2, <2>1, <2>5 DEF ClearPro, Stop
  <2> QED
    BY <1>11, <2>2, <2>3, <2>4, <2>5
<1>12. CASE CancelAutoRenew(s)
  BY <1>1, <1>12 DEF CancelAutoRenew
<1>13. CASE UpdateProfile(s)
  BY <1>1, <1>13 DEF UpdateProfile
<1>14. CASE SaveProfile(s)
  BY <1>0, <1>2, <1>14 DEF SaveProfile
<1>15. ASSUME NEW g \in Guests, SignUp(s, g) \/ \E e \in Errands : CompleteErrand(s, g, e)
       PROVE  Within'
  BY <1>1, <1>15 DEF SignUp, CompleteErrand
<1>16. ASSUME NEW x \in Raters, Rate(s, x) PROVE Within'
  BY <1>1, <1>16 DEF Rate
<1>17. CASE \/ SaveReferral(s) \/ SaveErrand(s) \/ Count(s) \/ FindReferral(s) \/ CreditBonus(s)
         \/ SaveCompleted(s)
            \/ InsertRating(s) \/ SaveAverage(s)
  BY <1>0, <1>2, <1>17 DEF SaveReferral, SaveErrand, Count, FindReferral, CreditBonus, SaveCompleted,
    InsertRating, SaveAverage
<1>18. CASE ReadRatings(s)
  <2>1. /\ held'[s] = 0 /\ until'[s] = 0 /\ UNCHANGED <<owed, pro>>
        /\ \A t \in Slots : t # s => held'[t] = held[t] /\ until'[t] = until[t]
    BY <1>18, MoveTimes DEF ReadRatings
  <2> QED
    BY <1>0, <2>1, WithinMove
<1> QED
  BY <1>4, <1>5, <1>6, <1>7, <1>8, <1>9, <1>10, <1>11, <1>12, <1>13, <1>14, <1>15, <1>16, <1>17,
    <1>18

\* Every step.
LEMMA WithinNext ==
  ASSUME Typed, Within, [Next]_vars
  PROVE  Within'
<1>0. Typed'
  BY TypeNext
<1>1. CASE Tick \/ UNCHANGED vars
  BY <1>1 DEF Tick, vars, Within
<1>3. CASE \E g \in Guests, e \in Errands : ReopenErrand(g, e)
  BY <1>3 DEF ReopenErrand, account, Within
<1>2. CASE Crash \/ \E s \in Slots : StatementFails(s)
  <2>1. /\ UNCHANGED <<pro, owed>>
        /\ \A t \in Slots : held'[t] \in {0, held[t]} /\ until'[t] \in {0, until[t]}
    BY <1>2 DEF Crash, StatementFails, Struck, account, Typed, Handlers
  <2> QED
    BY <2>1 DEF Within, Typed, Tables
<1> QED
  BY <1>0, <1>1, <1>2, <1>3, WithinHandler DEF Next

\* Pro lasts no longer than the periods paid for, whatever overlaps or fails.
THEOREM NothingForFree == Spec => []NeverMoreThanPaid
<1>1. Init => Within
  BY DEF Init, Within
<1>2. Typed /\ Within /\ [Next]_vars => Typed' /\ Within'
  BY TypeNext, WithinNext
<1>3. Within => NeverMoreThanPaid
  BY DEF Within, NeverMoreThanPaid
<1> QED
  BY TypeInit, <1>1, <1>2, <1>3, PTL DEF Spec

-----------------------------------------------------------------------------
(* The bonus.  Whoever is on the way to credit one has seen an errand of   *)
(* the guest COMPLETED and the referral PENDING; neither is forgotten,     *)
(* however often the errand is taken back and completed again.             *)

Counting == {"count", "findReferral", "credit", "paid"}

\* Whoever signs up, or is paid for, is entitled to it.
Entitled ==
  /\ \A t \in Slots : pc[t] = "refer" => (job[t].auto => job[t].who \in wasOwed)
  /\ \A t \in Slots : pc[t] \in {"credit", "paid"} => job[t].who \in wasOwed
  /\ \A g \in Guests : referral[g] \in {"PENDING", "COMPLETED"} => g \in wasOwed

\* An errand being counted was completed by a guest.
Counted ==
  /\ \A t \in Slots : pc[t] = "refer" => job[t].who \in Guests
  /\ \A t \in Slots : pc[t] \in Counting => job[t].who \in Guests \cap completed

Earning == Entitled /\ Counted /\ BonusEarned

\* Where the handlers are after Start, Move and Goto.
LEMMA Places ==
  ASSUME Typed, NEW s \in Slots
  PROVE  /\ \A here, j, h, v : Start(s, here, j, h, v) =>
              /\ pc[s] = "idle" /\ pc'[s] = here /\ job'[s] = j
              /\ \A t \in Slots : t # s => pc'[t] = pc[t] /\ job'[t] = job[t]
         /\ \A here, next, j, h, u, v : Move(s, here, next, j, h, u, v) =>
              /\ pc[s] = here /\ pc'[s] = next /\ job'[s] = j
              /\ \A t \in Slots : t # s => pc'[t] = pc[t] /\ job'[t] = job[t]
BY DEF Typed, Handlers, Start, Move

LEMMA GotoPlaces ==
  ASSUME Typed, NEW s \in Slots, NEW here, NEW next, Goto(s, here, next)
  PROVE  /\ pc[s] = here /\ pc'[s] = next /\ (next # "idle" => job'[s] = job[s])
         /\ \A t \in Slots : t # s => pc'[t] = pc[t] /\ job'[t] = job[t]
BY Places DEF Goto, Step

\* A step after which whoever moved is at nothing of the bonus.
LEMMA EarningElsewhere ==
  ASSUME Earning, UNCHANGED <<referral, wasOwed, completed, bonuses>>,
         \A t \in Slots : \/ pc'[t] = pc[t] /\ job'[t] = job[t]
                          \/ pc'[t] \notin Counting \cup {"refer"}
  PROVE  Earning'
<1>1. Entitled'
  BY DEF Earning, Entitled, Counting
<1>2. Counted'
  BY DEF Earning, Counted, Counting
<1>3. BonusEarned'
  BY DEF Earning, BonusEarned
<1> QED
  BY <1>1, <1>2, <1>3 DEF Earning

LEMMA EarningMove ==
  ASSUME Typed, Earning, UNCHANGED guests, NEW s \in Slots,
         pc'[s] \notin Counting \cup {"refer"},
         \A t \in Slots : t # s => pc'[t] = pc[t] /\ job'[t] = job[t]
  PROVE  Earning'
BY EarningElsewhere DEF guests

\* What the sign-up's step does.
LEMMA EarningSignUp ==
  ASSUME Typed, Within, Earning, NEW s \in Slots, NEW g \in Guests, SignUp(s, g)
  PROVE  Earning'
<1> DEFINE j == Job("signUp", 0, 0, IsPro(pro), g, {}, {}, 0)
<1>1. /\ pc'[s] = "refer" /\ job'[s] = j /\ UNCHANGED <<referral, completed, bonuses>>
      /\ \A t \in Slots : t # s => pc'[t] = pc[t] /\ job'[t] = job[t]
  BY Places DEF SignUp
<1>2. j.who = g /\ j.auto = (pro > clock)
  BY DEF Job, IsPro
<1>3. pro > clock => owed > clock
  BY DEF Typed, Tables, Within
<1>4. wasOwed \subseteq wasOwed' /\ (owed > clock => g \in wasOwed')
  BY DEF SignUp
<1> HIDE DEF j
<1>5. Entitled'
  BY <1>1, <1>2, <1>3, <1>4 DEF Earning, Entitled
<1>6. Counted'
  BY <1>1, <1>2 DEF Earning, Counted, Counting
<1>7. BonusEarned'
  BY <1>1, <1>4 DEF Earning, BonusEarned
<1> QED
  BY <1>5, <1>6, <1>7 DEF Earning

\* Whoever writes a referral writes what the guest is entitled to.
LEMMA EarningReferral ==
  ASSUME Typed, Earning, NEW s \in Slots, NEW here \in {"refer", "paid"}, Goto(s, here, "idle"),
         UNCHANGED <<wasOwed, completed, bonuses>>, NEW v,
         referral' = [referral EXCEPT ![job[s].who] = v],
         v \in {"PENDING", "COMPLETED"} => job[s].who \in wasOwed
  PROVE  Earning'
<1>1. /\ pc'[s] = "idle"
      /\ \A t \in Slots : t # s => pc'[t] = pc[t] /\ job'[t] = job[t]
  BY GotoPlaces
<1>2. referral \in [Guests -> ReferralStatus]
  BY DEF Typed, Tables
<1>3. Entitled'
  BY <1>1, <1>2 DEF Earning, Entitled
<1>4. Counted' /\ BonusEarned'
  BY <1>1 DEF Earning, Counted, Counting, BonusEarned
<1> QED
  BY <1>3, <1>4 DEF Earning

LEMMA EarningWrite ==
  ASSUME Typed, Earning, NEW s \in Slots, SaveReferral(s) \/ SaveCompleted(s)
  PROVE  Earning'
<1>1. CASE SaveReferral(s)
  <2>1. pc[s] = "refer" /\ Goto(s, "refer", "idle")
    BY <1>1, GotoPlaces DEF SaveReferral
  <2>2. (IF job[s].auto THEN "PENDING" ELSE "VOID") \in {"PENDING", "COMPLETED"} =>
          job[s].who \in wasOwed
    BY <2>1 DEF Earning, Entitled
  <2>3. /\ referral' = [referral EXCEPT ![job[s].who] = IF job[s].auto THEN "PENDING" ELSE "VOID"]
        /\ UNCHANGED <<wasOwed, completed, bonuses>>
    BY <1>1 DEF SaveReferral
  <2> QED
    BY <2>1, <2>2, <2>3, EarningReferral
<1>2. CASE SaveCompleted(s)
  <2>1. pc[s] = "paid" /\ Goto(s, "paid", "idle")
    BY <1>2, GotoPlaces DEF SaveCompleted
  <2>2. job[s].who \in wasOwed
    BY <2>1 DEF Earning, Entitled
  <2>3. /\ referral' = [referral EXCEPT ![job[s].who] = "COMPLETED"]
        /\ UNCHANGED <<wasOwed, completed, bonuses>>
    BY <1>2 DEF SaveCompleted
  <2> QED
    BY <2>1, <2>2, <2>3, EarningReferral
<1> QED
  BY <1>1, <1>2

\* An errand of a guest is found, and saved as COMPLETED.
LEMMA EarningComplete ==
  ASSUME Typed, Earning, NEW s \in Slots,
         SaveErrand(s) \/ \E g \in Guests, e \in Errands : CompleteErrand(s, g, e)
  PROVE  Earning'
<1>1. CASE \E g \in Guests, e \in Errands : CompleteErrand(s, g, e)
  <2>1. /\ pc'[s] = "saveErrand" /\ UNCHANGED guests
        /\ \A t \in Slots : t # s => pc'[t] = pc[t] /\ job'[t] = job[t]
    BY <1>1, Places DEF CompleteErrand
  <2> QED
    BY <2>1, EarningMove DEF Counting
<1>2. CASE SaveErrand(s)
  <2>1. /\ pc[s] = "saveErrand" /\ pc'[s] = "count" /\ job'[s] = job[s]
        /\ \A t \in Slots : t # s => pc'[t] = pc[t] /\ job'[t] = job[t]
    BY <1>2, GotoPlaces DEF SaveErrand
  <2>2. job[s].who \in Guests
    BY <2>1 DEF Typed, Handlers
  <2>3. completed' = completed \cup {job[s].who} /\ UNCHANGED <<referral, wasOwed, bonuses>>
    BY <1>2 DEF SaveErrand
  <2>4. Entitled'
    BY <2>1, <2>3 DEF Earning, Entitled
  <2>5. Counted'
    BY <2>1, <2>2, <2>3 DEF Earning, Counted, Counting
  <2>6. BonusEarned'
    BY <2>3 DEF Earning, BonusEarned
  <2> QED
    BY <2>4, <2>5, <2>6 DEF Earning
<1> QED
  BY <1>1, <1>2

\* Counting the guest's errands, and looking for the referral.
LEMMA EarningCount ==
  ASSUME Typed, Earning, NEW s \in Slots, Count(s) \/ FindReferral(s)
  PROVE  Earning'
<1>0. UNCHANGED guests
  BY DEF Count, FindReferral
<1>1. ASSUME pc'[s] = "idle", \A t \in Slots : t # s => pc'[t] = pc[t] /\ job'[t] = job[t]
      PROVE  Earning'
  BY <1>0, <1>1, EarningMove DEF Counting
<1>2. CASE Count(s)
  <2>1. CASE ~First(Cardinality(done[job[s].who]))
    <3>1. Goto(s, "count", "idle")
      BY <1>2, <2>1, Zenon DEF Count
    <3> QED
      BY <1>1, <3>1, GotoPlaces
  <2>2. CASE First(Cardinality(done[job[s].who]))
    <3>1. Goto(s, "count", "findReferral")
      BY <1>2, <2>2, Zenon DEF Count
    <3>2. /\ pc[s] = "count" /\ pc'[s] = "findReferral" /\ job'[s] = job[s]
          /\ \A t \in Slots : t # s => pc'[t] = pc[t] /\ job'[t] = job[t]
      BY <3>1, GotoPlaces
    <3>3. Entitled'
      BY <1>0, <3>2 DEF Earning, Entitled, guests
    <3>4. Counted'
      BY <1>0, <3>2 DEF Earning, Counted, Counting, guests
    <3> QED
      BY <1>0, <3>3, <3>4 DEF Earning, BonusEarned, guests
  <2> QED
    BY <2>1, <2>2
<1>3. CASE FindReferral(s)
  <2>1. CASE ~Payable(job[s].who)
    <3>1. Goto(s, "findReferral", "idle")
      BY <1>3, <2>1, Zenon DEF FindReferral
    <3> QED
      BY <1>1, <3>1, GotoPlaces
  <2>2. CASE Payable(job[s].who)
    <3>1. Goto(s, "findReferral", "credit")
      BY <1>3, <2>2, Zenon DEF FindReferral
    <3>2. /\ pc[s] = "findReferral" /\ pc'[s] = "credit" /\ job'[s] = job[s]
          /\ \A t \in Slots : t # s => pc'[t] = pc[t] /\ job'[t] = job[t]
      BY <3>1, GotoPlaces
    <3>3. job[s].who \in Guests /\ job[s].who \in wasOwed
      BY <2>2, <3>2 DEF Payable, Earning, Counted, Counting, Entitled
    <3>4. Entitled'
      BY <1>0, <3>2, <3>3 DEF Earning, Entitled, guests
    <3>5. Counted'
      BY <1>0, <3>2 DEF Earning, Counted, Counting, guests
    <3> QED
      BY <1>0, <3>4, <3>5 DEF Earning, BonusEarned, guests
  <2> QED
    BY <2>1, <2>2
<1> QED
  BY <1>2, <1>3

\* The bonus itself.
LEMMA EarningCredit ==
  ASSUME Typed, Earning, NEW s \in Slots, CreditBonus(s)
  PROVE  Earning'
<1>1. /\ pc[s] = "credit" /\ pc'[s] = "paid" /\ job'[s] = job[s]
      /\ \A t \in Slots : t # s => pc'[t] = pc[t] /\ job'[t] = job[t]
      /\ UNCHANGED <<referral, wasOwed, completed>>
  BY GotoPlaces DEF CreditBonus
<1>2. job[s].who \in wasOwed \cap completed
  BY <1>1 DEF Earning, Counted, Counting, Entitled
<1>3. \A g \in Guests : g # job[s].who => bonuses'[g] = bonuses[g]
  BY DEF CreditBonus, Typed, Tables
<1>4. Entitled'
  BY <1>1 DEF Earning, Entitled
<1>5. Counted'
  BY <1>1 DEF Earning, Counted, Counting
<1>6. BonusEarned'
  BY <1>1, <1>2, <1>3 DEF Earning, BonusEarned
<1> QED
  BY <1>4, <1>5, <1>6 DEF Earning

\* Every other step leaves the guests alone and ends elsewhere.
LEMMA EarningOthers ==
  ASSUME Typed, Earning, NEW s \in Slots,
         \/ \E p \in Plans, a \in BOOLEAN : Subscribe(s, p, a)
         \/ FindUser(s) \/ Debit(s) \/ Insert(s) \/ ExtendPro(s)
         \/ ProcessRenewals(s) \/ NextDue(s) \/ MarkRenewed(s)
         \/ Lapse(s) \/ Check(s) \/ ClearPro(s)
         \/ CancelAutoRenew(s) \/ Stop(s)
         \/ UpdateProfile(s) \/ SaveProfile(s)
         \/ \E x \in Raters : Rate(s, x)
         \/ InsertRating(s) \/ ReadRatings(s) \/ SaveAverage(s)
  PROVE  Earning'
<1> DEFINE Away == Steps \ (Counting \cup {"refer"})
<1>1. ASSUME NEW here \in Away, NEW j, NEW h, NEW v, Start(s, here, j, h, v), UNCHANGED guests
      PROVE  Earning'
  BY <1>1, Places, EarningMove
<1>2. ASSUME NEW here, NEW next \in Away, NEW j, NEW h, NEW u, NEW v,
             Move(s, here, next, j, h, u, v), UNCHANGED guests
      PROVE  Earning'
  BY <1>2, Places, EarningMove
<1>3. ASSUME NEW here, NEW next \in Away, NEW j, NEW h, NEW u,
             Step(s, here, next, j, h, u), UNCHANGED guests
      PROVE  Earning'
  BY <1>2, <1>3 DEF Step
<1>4. ASSUME NEW here, NEW next \in Away, Goto(s, here, next), UNCHANGED guests
      PROVE  Earning'
  BY <1>4, GotoPlaces, EarningMove
<1>5. /\ {"idle", "find", "debit", "insert", "extend", "each", "renewed", "lapse", "check",
          "clear", "stop", "saveProfile", "insertRating", "readRatings", "saveAverage"}
         \subseteq Away
  BY DEF Steps, Counting
<1> HIDE DEF Away
<1>6. CASE \E p \in Plans, a \in BOOLEAN : Subscribe(s, p, a)
  BY <1>1, <1>5, <1>6 DEF Subscribe
<1>7. CASE FindUser(s)
  BY <1>3, <1>5, <1>7 DEF FindUser
<1>8. CASE Debit(s)
  <2>1. CASE Goto(s, "debit", "insert")
    BY <1>4, <1>5, <1>8, <2>1 DEF Debit
  <2>2. CASE Goto(s, "debit", IF job[s].op = "sweep" THEN "lapse" ELSE "idle")
    <3>1. CASE job[s].op = "sweep"
      BY <1>4, <1>5, <1>8, <2>2, <3>1, Zenon DEF Debit
    <3>2. CASE job[s].op # "sweep"
      BY <1>4, <1>5, <1>8, <2>2, <3>2, Zenon DEF Debit
    <3> QED
      BY <3>1, <3>2
  <2> QED
    BY <1>8, <2>1, <2>2, Zenon DEF Debit
<1>9. CASE Insert(s)
  BY <1>3, <1>5, <1>9 DEF Insert
<1>10. CASE ExtendPro(s)
  BY <1>3, <1>4, <1>5, <1>10 DEF ExtendPro
<1>11. CASE ProcessRenewals(s)
  BY <1>1, <1>5, <1>11 DEF ProcessRenewals
<1>12. CASE NextDue(s)
  <2>1. CASE Goto(s, "each", "idle")
    BY <1>4, <1>5, <1>12, <2>1 DEF NextDue
  <2>2. ASSUME NEW r \in job[s].due,
               Step(s, "each", IF r \in job[s].renew THEN "find" ELSE "lapse",
                    Swept(job[s], r), 0, 0)
        PROVE  Earning'
    <3>0. UNCHANGED guests
      BY <1>12 DEF NextDue
    <3>1. CASE r \in job[s].renew
      BY <1>3, <1>5, <2>2, <3>0, <3>1, Zenon
    <3>2. CASE r \notin job[s].renew
      BY <1>3, <1>5, <2>2, <3>0, <3>2, Zenon
    <3> QED
      BY <3>1, <3>2
  <2> QED
    BY <1>12, <2>1, <2>2, Zenon DEF NextDue
<1>13. CASE MarkRenewed(s)
  BY <1>4, <1>5, <1>13 DEF MarkRenewed
<1>14. CASE Lapse(s)
  BY <1>4, <1>5, <1>14 DEF Lapse
<1>15. CASE Check(s)
  <2>1. CASE Over(pro, job[s].now)
    BY <1>4, <1>5, <1>15, <2>1, Zenon DEF Check
  <2>2. CASE ~Over(pro, job[s].now)
    BY <1>4, <1>5, <1>15, <2>2, Zenon DEF Check
  <2> QED
    BY <2>1, <2>2
<1>16. CASE ClearPro(s)
  BY <1>4, <1>5, <1>16 DEF ClearPro
<1>17. CASE CancelAutoRenew(s)
  BY <1>1, <1>5, <1>17 DEF CancelAutoRenew
<1>18. CASE Stop(s)
  BY <1>4, <1>5, <1>18 DEF Stop
<1>19. CASE UpdateProfile(s)
  BY <1>1, <1>5, <1>19 DEF UpdateProfile
<1>20. CASE SaveProfile(s)
  <2>1. Goto(s, "saveProfile", "idle") /\ UNCHANGED guests
    BY <1>20 DEF SaveProfile
  <2> QED
    BY <1>4, <1>5, <2>1
<1>21. CASE \E x \in Raters : Rate(s, x)
  BY <1>1, <1>5, <1>21 DEF Rate
<1>22. CASE InsertRating(s)
  BY <1>4, <1>5, <1>22 DEF InsertRating
<1>23. CASE ReadRatings(s)
  BY <1>2, <1>5, <1>23 DEF ReadRatings
<1>24. CASE SaveAverage(s)
  BY <1>4, <1>5, <1>24 DEF SaveAverage
<1> QED
  BY <1>6, <1>7, <1>8, <1>9, <1>10, <1>11, <1>12, <1>13, <1>14, <1>15, <1>16, <1>17, <1>18, <1>19,
    <1>20, <1>21, <1>22, <1>23, <1>24

\* Trouble: whoever it strikes is at nothing of the bonus any more.
LEMMA EarningTrouble ==
  ASSUME Typed, Earning, Crash \/ \E s \in Slots : StatementFails(s)
  PROVE  Earning'
<1>1. UNCHANGED guests
  BY DEF Crash, StatementFails, Struck
<1>2. \A t \in Slots : \/ pc'[t] = pc[t] /\ job'[t] = job[t]
                       \/ pc'[t] \in {"idle", "lapse"}
  <2>1. CASE Crash
    BY <2>1 DEF Crash
  <2>2. ASSUME NEW s \in Slots, StatementFails(s)
        PROVE  \A t \in Slots : \/ pc'[t] = pc[t] /\ job'[t] = job[t]
                                \/ pc'[t] \in {"idle", "lapse"}
    BY <2>2 DEF StatementFails, Typed, Handlers
  <2> QED
    BY <2>1, <2>2
<1> QED
  BY <1>1, <1>2, EarningElsewhere DEF Counting, guests

\* Every step.
LEMMA EarningNext ==
  ASSUME Typed, Within, Earning, [Next]_vars
  PROVE  Earning'
<1>1. CASE Tick \/ UNCHANGED vars
  BY <1>1, EarningElsewhere DEF Tick, vars, guests
<1>2. CASE Crash \/ \E s \in Slots : StatementFails(s)
  BY <1>2, EarningTrouble
<1>3. CASE \E g \in Guests, e \in Errands : ReopenErrand(g, e)
  BY <1>3, EarningElsewhere DEF ReopenErrand
<1>4. ASSUME NEW s \in Slots, \E g \in Guests : SignUp(s, g) PROVE Earning'
  BY <1>4, EarningSignUp
<1>5. ASSUME NEW s \in Slots,
             SaveErrand(s) \/ \E g \in Guests, e \in Errands : CompleteErrand(s, g, e)
      PROVE  Earning'
  BY <1>5, EarningComplete
<1>6. ASSUME NEW s \in Slots,
             \/ SaveReferral(s) \/ Count(s) \/ FindReferral(s) \/ CreditBonus(s)
             \/ SaveCompleted(s)
      PROVE  Earning'
  BY <1>6, EarningWrite, EarningCount, EarningCredit
<1> QED
  BY <1>1, <1>2, <1>3, <1>4, <1>5, <1>6, EarningOthers DEF Next

\* Whoever brings a bonus signed up while Pro was paid for and completed an
\* errand, whatever overlaps, crashes or fails.
THEOREM BonusesAreEarned == Spec => []BonusEarned
<1>1. Init => Within /\ Earning
  BY DEF Init, Within, Earning, Entitled, Counted, Counting, BonusEarned
<1>2. Typed /\ Within /\ Earning /\ [Next]_vars => Typed' /\ Within' /\ Earning'
  BY TypeNext, WithinNext, EarningNext
<1>3. Earning => BonusEarned
  BY DEF Earning
<1> QED
  BY TypeInit, <1>1, <1>2, <1>3, PTL DEF Spec

-----------------------------------------------------------------------------
(* Who does what.  Every handler is at a step of its operation, and when   *)
(* the handlers of Conflict wait for each other none overlaps another.     *)

\* Only s moves.
Alters(s) ==
  \A t \in Slots : t # s =>
    /\ pc'[t] = pc[t] /\ job'[t] = job[t]
    /\ held'[t] = held[t] /\ until'[t] = until[t] /\ view'[t] = view[t]

\* The steps of an operation.
Doing(o, p) ==
  \/ o = "none" /\ p = "idle"
  \/ o = "subscribe" /\ p \in {"find", "debit", "insert", "extend"}
  \/ o = "sweep" /\ p \in {"find", "debit", "insert", "extend", "renewed", "each", "lapse",
                           "check", "clear"}
  \/ o = "cancel" /\ p = "stop"
  \/ o = "profile" /\ p = "saveProfile"
  \/ o = "signUp" /\ p = "refer"
  \/ o = "complete" /\ p \in {"saveErrand", "count", "findReferral", "credit", "paid"}
  \/ o = "rate" /\ p \in {"insertRating", "readRatings", "saveAverage"}

Duties ==
  /\ \A s \in Slots : Doing(job[s].op, pc[s])
  /\ ~Races => \A s, t \in Slots : s # t => ~Conflict(job[s].op, job[t].op)

\* A step of s that goes on with its operation, ends it, or begins one.
Keeps(s) ==
  /\ Alters(s) /\ UNCHANGED <<troubles, cut, missed>>
  /\ Doing(job'[s].op, pc'[s])
  /\ \/ job'[s].op \in {"none", job[s].op}
     \/ ~Races => \A t \in Slots : ~Conflict(job'[s].op, job[t].op)

\* Start takes s from idle to its first step, apart from whom it conflicts with.
LEMMA StartDoes ==
  ASSUME Typed, NEW s \in Slots, NEW here, NEW j, NEW h, NEW v, Start(s, here, j, h, v)
  PROVE  /\ pc[s] = "idle" /\ pc'[s] = here /\ job'[s] = j /\ held'[s] = h /\ view'[s] = v
         /\ Alters(s) /\ UNCHANGED <<troubles, cut, missed>>
         /\ ~Races => \A t \in Slots : ~Conflict(j.op, job[t].op)
<1>1. pc[s] = "idle" /\ pc'[s] = here /\ job'[s] = j /\ held'[s] = h /\ view'[s] = v
  BY DEF Start, Typed, Handlers
<1>2. Alters(s)
  BY DEF Start, Typed, Handlers, Alters
<1> QED
  BY <1>1, <1>2 DEF Start, history

\* Move takes s from one step to the next.
LEMMA MoveDoes ==
  ASSUME Typed, NEW s \in Slots, NEW here, NEW next, NEW j, NEW h, NEW u, NEW v,
         Move(s, here, next, j, h, u, v)
  PROVE  /\ pc[s] = here /\ pc'[s] = next /\ job'[s] = j
         /\ held'[s] = h /\ until'[s] = u /\ view'[s] = v
         /\ Alters(s) /\ UNCHANGED <<troubles, cut, missed>>
<1>1. /\ pc[s] = here /\ pc'[s] = next /\ job'[s] = j
      /\ held'[s] = h /\ until'[s] = u /\ view'[s] = v
  BY DEF Move, Typed, Handlers
<1>2. Alters(s)
  BY DEF Move, Typed, Handlers, Alters
<1> QED
  BY <1>1, <1>2 DEF Move, history

\* Goto keeps what the handler remembers until it ends.
LEMMA GotoDoes ==
  ASSUME Typed, NEW s \in Slots, NEW here, NEW next, Goto(s, here, next)
  PROVE  /\ pc[s] = here /\ pc'[s] = next
         /\ next = "idle" => job'[s] = NoJob
         /\ next # "idle" => /\ job'[s] = job[s] /\ held'[s] = held[s]
                             /\ until'[s] = until[s] /\ view'[s] = view[s]
         /\ Alters(s) /\ UNCHANGED <<troubles, cut, missed>>
<1>1. CASE next = "idle"
  BY <1>1, MoveDoes DEF Goto
<1>2. CASE next # "idle"
  BY <1>2, MoveDoes DEF Goto, Step
<1> QED
  BY <1>1, <1>2

\* Nobody conflicts with a slot that does nothing, and conflicts are mutual.
LEMMA Conflicting ==
  /\ \A p : ~Conflict("none", p) /\ ~Conflict(p, "none")
  /\ \A o, p : Conflict(o, p) <=> Conflict(p, o)
  /\ \A o, p : {o, p} \subseteq {"subscribe", "sweep", "profile"} => Conflict(o, p)
BY DEF Conflict, Extenders

\* Taking up an operation, ...
LEMMA StartKeeps ==
  ASSUME Typed, Duties, NEW s \in Slots, NEW here, NEW j, NEW h, NEW v,
         Start(s, here, j, h, v), Doing(j.op, here)
  PROVE  Keeps(s) /\ job[s].op = "none" /\ job'[s].op = j.op
<1>1. job[s].op = "none"
  BY StartDoes DEF Duties, Doing
<1> QED
  BY <1>1, StartDoes DEF Keeps

\* ... going on with it, ...
LEMMA MoveKeeps ==
  ASSUME Typed, Duties, NEW s \in Slots, NEW here, NEW next, NEW j, NEW h, NEW u, NEW v,
         Move(s, here, next, j, h, u, v), j.op = job[s].op, Doing(job[s].op, next)
  PROVE  Keeps(s) /\ job'[s].op = job[s].op
BY MoveDoes DEF Keeps

\* ... and ending it.
LEMMA GotoKeeps ==
  ASSUME Typed, Duties, NEW s \in Slots, NEW here, NEW next,
         Goto(s, here, next), next = "idle" \/ Doing(job[s].op, next)
  PROVE  Keeps(s) /\ job'[s].op \in {"none", job[s].op}
<1>1. CASE next = "idle"
  BY <1>1, GotoDoes, PlainJobs DEF Keeps, Doing
<1>2. CASE next # "idle"
  BY <1>2, GotoDoes DEF Keeps
<1> QED
  BY <1>1, <1>2

-----------------------------------------------------------------------------

ProOps == {"none", "subscribe", "sweep", "cancel"}
ProStep(s) ==
  \/ \E p \in Plans, a \in BOOLEAN : Subscribe(s, p, a)
  \/ FindUser(s) \/ Debit(s) \/ Insert(s) \/ ExtendPro(s)
  \/ ProcessRenewals(s) \/ NextDue(s) \/ MarkRenewed(s)
  \/ Lapse(s) \/ Check(s) \/ ClearPro(s)
  \/ CancelAutoRenew(s) \/ Stop(s)

\* The steps of Pro and the sweep keep to their operations.
LEMMA ProMoves ==
  ASSUME Typed, Duties, NEW s \in Slots, ProStep(s)
  PROVE  /\ Keeps(s) /\ job[s].op \in ProOps /\ job'[s].op \in ProOps
         /\ UNCHANGED <<guests, ratings>>
<1> DEFINE Goal == /\ Keeps(s) /\ job[s].op \in ProOps /\ job'[s].op \in ProOps
<1>0. UNCHANGED <<guests, ratings>>
  BY DEF ProStep, Subscribe, FindUser, Debit, Insert, ExtendPro, ProcessRenewals, NextDue,
     MarkRenewed, Lapse, Check, ClearPro, CancelAutoRenew, Stop
<1>1. ASSUME NEW here, NEW j, NEW h, NEW v, Start(s, here, j, h, v), Doing(j.op, here),
             j.op \in ProOps
      PROVE  Goal
  BY <1>1, StartKeeps DEF ProOps
<1>2. ASSUME NEW here, NEW next, NEW j, NEW h, NEW u, Step(s, here, next, j, h, u),
             j.op = job[s].op, Doing(job[s].op, next), job[s].op \in ProOps
      PROVE  Goal
  BY <1>2, MoveKeeps DEF Step
<1>3. ASSUME NEW here, NEW next, Goto(s, here, next), next = "idle" \/ Doing(job[s].op, next),
             job[s].op \in ProOps
      PROVE  Goal
  BY <1>3, GotoKeeps DEF ProOps
<1>4. /\ pc[s] \in {"find", "debit", "insert", "extend"} => job[s].op \in {"subscribe", "sweep"}
      /\ pc[s] \in {"each", "renewed", "lapse", "check", "clear"} => job[s].op = "sweep"
      /\ pc[s] = "stop" => job[s].op = "cancel"
  BY DEF Duties, Doing
<1>5. /\ \A next \in {"debit", "insert", "extend"} :
           job[s].op \in {"subscribe", "sweep"} => Doing(job[s].op, next)
      /\ \A next \in {"find", "lapse", "renewed", "each", "check", "clear"} :
           job[s].op = "sweep" => Doing(job[s].op, next)
  BY DEF Doing
<1>6. {"subscribe", "sweep", "cancel"} \subseteq ProOps
  BY DEF ProOps
<1> SUFFICES Goal
  BY <1>0 DEF Goal
<1> HIDE DEF Goal
<1>7. ASSUME NEW p \in Plans, NEW a \in BOOLEAN, Subscribe(s, p, a) PROVE Goal
  <2> DEFINE j == Job("subscribe", 0, p, a, Nobody, {}, {}, 0)
  <2>1. Doing(j.op, "find") /\ j.op \in ProOps
    BY DEF Job, Doing, ProOps
  <2>2. Start(s, "find", j, 0, Unrated)
    BY <1>7 DEF Subscribe
  <2> HIDE DEF j
  <2> QED
    BY <1>1, <2>1, <2>2
<1>8. CASE FindUser(s)
  <2>1. Step(s, "find", "debit", job[s], pro, 0)
    BY <1>8 DEF FindUser
  <2>2. pc[s] = "find"
    BY <2>1 DEF Step, Move
  <2> QED
    BY <1>2, <1>4, <1>5, <1>6, <2>1, <2>2
<1>9. CASE Debit(s)
  <2>1. PICK next \in {"insert", "lapse", "idle"} :
          Goto(s, "debit", next) /\ (next = "lapse" => job[s].op = "sweep")
    <3>1. CASE Goto(s, "debit", "insert")
      BY <3>1
    <3>2. CASE Goto(s, "debit", IF job[s].op = "sweep" THEN "lapse" ELSE "idle")
      BY <3>2
    <3> QED
      BY <1>9, <3>1, <3>2 DEF Debit
  <2>2. pc[s] = "debit"
    BY <2>1, GotoDoes
  <2> QED
    BY <1>3, <1>4, <1>5, <1>6, <2>1, <2>2
<1>10. CASE Insert(s)
  <2>1. Step(s, "insert", "extend", job[s], 0, Extended(held[s], job[s].plan))
    BY <1>10 DEF Insert
  <2>2. pc[s] = "insert"
    BY <2>1 DEF Step, Move
  <2> QED
    BY <1>2, <1>4, <1>5, <1>6, <2>1, <2>2
<1>11. CASE ExtendPro(s)
  <2>1. CASE job[s].op = "sweep"
    BY <1>2, <1>5, <1>6, <1>11, <2>1 DEF ExtendPro
  <2>2. CASE job[s].op # "sweep"
    <3>1. Goto(s, "extend", "idle")
      BY <1>11, <2>2 DEF ExtendPro
    <3>2. pc[s] = "extend"
      BY <3>1, GotoDoes
    <3> QED
      BY <1>3, <1>4, <1>6, <3>1, <3>2
  <2> QED
    BY <2>1, <2>2
<1>12. CASE ProcessRenewals(s)
  <2> DEFINE j == Job("sweep", 0, 0, TRUE, Nobody, Due, {r \in Due : sub[r].auto}, clock)
  <2>1. Doing(j.op, "each") /\ j.op \in ProOps
    BY DEF Job, Doing, ProOps
  <2>2. Start(s, "each", j, 0, Unrated)
    BY <1>12 DEF ProcessRenewals
  <2> HIDE DEF j
  <2> QED
    BY <1>1, <2>1, <2>2
<1>13. CASE NextDue(s)
  <2>1. CASE Goto(s, "each", "idle")
    <3>1. pc[s] = "each"
      BY <2>1, GotoDoes
    <3> QED
      BY <1>3, <1>4, <1>6, <2>1, <3>1
  <2>2. ASSUME NEW r \in job[s].due, NEW next \in {"find", "lapse"},
               Step(s, "each", next, Swept(job[s], r), 0, 0)
        PROVE  Goal
    <3> DEFINE j == Swept(job[s], r)
    <3>1. j.op = "sweep"
      BY DEF Swept, Job
    <3>2. Step(s, "each", next, j, 0, 0)
      BY <2>2
    <3> HIDE DEF j
    <3>3. pc[s] = "each"
      BY <3>2 DEF Step, Move
    <3> QED
      BY <1>2, <1>4, <1>5, <1>6, <3>1, <3>2, <3>3
  <2>3. CASE \E r \in job[s].due :
               Step(s, "each", IF r \in job[s].renew THEN "find" ELSE "lapse", Swept(job[s], r), 0, 0)
    <3>1. PICK r \in job[s].due :
               Step(s, "each", IF r \in job[s].renew THEN "find" ELSE "lapse", Swept(job[s], r), 0, 0)
      BY <2>3
    <3>2. CASE r \in job[s].renew
      <4>1. Step(s, "each", "find", Swept(job[s], r), 0, 0)
        BY <3>1, <3>2, Zenon
      <4> QED
        BY <2>2, <4>1
    <3>3. CASE r \notin job[s].renew
      <4>1. Step(s, "each", "lapse", Swept(job[s], r), 0, 0)
        BY <3>1, <3>3, Zenon
      <4> QED
        BY <2>2, <4>1
    <3> QED
      BY <3>2, <3>3
  <2> QED
    BY <1>13, <2>1, <2>3, Zenon DEF NextDue
<1>14. CASE MarkRenewed(s) \/ ClearPro(s) \/ Lapse(s) \/ Check(s)
  <2>1. PICK here \in {"renewed", "clear", "lapse", "check"}, next \in {"each", "check", "clear"} :
          Goto(s, here, next)
    <3>1. CASE Check(s)
      <4>1. Goto(s, "check", IF Over(pro, job[s].now) THEN "clear" ELSE "each")
        BY <3>1 DEF Check
      <4> QED
        BY <4>1
    <3> QED
      BY <1>14, <3>1 DEF MarkRenewed, ClearPro, Lapse
  <2>2. pc[s] = here
    BY <2>1, GotoDoes
  <2> QED
    BY <1>3, <1>4, <1>5, <1>6, <2>1, <2>2
<1>15. CASE CancelAutoRenew(s)
  <2>1. PICK r \in Rows : Start(s, "stop", Job("cancel", r, 0, FALSE, Nobody, {}, {}, 0), 0, Unrated)
    BY <1>15 DEF CancelAutoRenew
  <2> DEFINE j == Job("cancel", r, 0, FALSE, Nobody, {}, {}, 0)
  <2>2. Doing(j.op, "stop") /\ j.op \in ProOps
    BY DEF Job, Doing, ProOps
  <2>3. Start(s, "stop", j, 0, Unrated)
    BY <2>1
  <2> HIDE DEF j
  <2> QED
    BY <1>1, <2>2, <2>3
<1>16. CASE Stop(s)
  <2>1. Goto(s, "stop", "idle")
    BY <1>16 DEF Stop
  <2>2. pc[s] = "stop"
    BY <2>1, GotoDoes
  <2> QED
    BY <1>3, <1>4, <1>6, <2>1, <2>2
<1> QED
  BY <1>7, <1>8, <1>9, <1>10, <1>11, <1>12, <1>13, <1>14, <1>15, <1>16 DEF ProStep

\* So do those of the profile, ...
LEMMA ProfileMoves ==
  ASSUME Typed, Duties, NEW s \in Slots, UpdateProfile(s) \/ SaveProfile(s)
  PROVE  /\ Keeps(s) /\ job[s].op \in {"none", "profile"} /\ job'[s].op \in {"none", "profile"}
         /\ UNCHANGED <<guests, rated, clock, funds, sub, owed, renewals, optedOut>>
<1>1. CASE UpdateProfile(s)
  <2> DEFINE j == Job("profile", 0, 0, FALSE, Nobody, {}, {}, 0)
  <2>1. Doing(j.op, "saveProfile") /\ j.op = "profile"
    BY DEF Job, Doing
  <2>2. Start(s, "saveProfile", j, pro, average) /\ UNCHANGED <<account, guests, ratings>>
    BY <1>1 DEF UpdateProfile
  <2> HIDE DEF j
  <2> QED
    BY <2>1, <2>2, StartKeeps DEF account, ratings
<1>2. CASE SaveProfile(s)
  <2>1. Goto(s, "saveProfile", "idle")
    BY <1>2 DEF SaveProfile
  <2>2. pc[s] = "saveProfile"
    BY <2>1, GotoDoes
  <2>3. job[s].op = "profile"
    BY <2>2 DEF Duties, Doing
  <2>4. UNCHANGED <<guests, rated, clock, funds, sub, owed, renewals, optedOut>>
    BY <1>2 DEF SaveProfile
  <2> QED
    BY <2>1, <2>3, <2>4, GotoKeeps
<1> QED
  BY <1>1, <1>2

GuestOps == {"none", "signUp", "complete"}
GuestStep(s) ==
  \/ \E g \in Guests : SignUp(s, g) \/ \E e \in Errands : CompleteErrand(s, g, e)
  \/ SaveReferral(s) \/ SaveErrand(s) \/ Count(s) \/ FindReferral(s) \/ CreditBonus(s)
  \/ SaveCompleted(s)

\* ... of referrals ...
LEMMA GuestMoves ==
  ASSUME Typed, Duties, NEW s \in Slots, GuestStep(s)
  PROVE  /\ Keeps(s) /\ job[s].op \in GuestOps /\ job'[s].op \in GuestOps
         /\ UNCHANGED <<ratings, clock, sub, pro, owed, renewals, optedOut>>
<1> DEFINE Goal == /\ Keeps(s) /\ job[s].op \in GuestOps /\ job'[s].op \in GuestOps
<1>0. UNCHANGED <<ratings, clock, sub, pro, owed, renewals, optedOut>>
  BY DEF GuestStep, SignUp, CompleteErrand, SaveReferral, SaveErrand, Count, FindReferral,
     CreditBonus, SaveCompleted, account
<1>1. ASSUME NEW here, NEW j, NEW h, NEW v, Start(s, here, j, h, v), Doing(j.op, here),
             j.op \in GuestOps
      PROVE  Goal
  BY <1>1, StartKeeps DEF GuestOps
<1>2. ASSUME NEW here \in {"refer", "saveErrand", "count", "findReferral", "credit", "paid"},
             NEW next \in {"idle", "count", "findReferral", "credit", "paid"}, Goto(s, here, next),
             here = "refer" => next = "idle"
      PROVE  Goal
  <2>1. pc[s] = here
    BY <1>2, GotoDoes
  <2>2. /\ here = "refer" => job[s].op = "signUp"
        /\ here # "refer" => job[s].op = "complete"
    BY <2>1 DEF Duties, Doing
  <2>3. next = "idle" \/ Doing(job[s].op, next)
    BY <1>2, <2>2 DEF Doing
  <2>4. job[s].op \in GuestOps
    BY <2>2 DEF GuestOps
  <2> QED
    BY <1>2, <2>3, <2>4, GotoKeeps DEF GuestOps
<1> SUFFICES Goal
  BY <1>0 DEF Goal
<1> HIDE DEF Goal
<1>3. ASSUME NEW g \in Guests, SignUp(s, g) PROVE Goal
  <2> DEFINE j == Job("signUp", 0, 0, IsPro(pro), g, {}, {}, 0)
  <2>1. Doing(j.op, "refer") /\ j.op \in GuestOps
    BY DEF Job, Doing, GuestOps
  <2>2. Start(s, "refer", j, 0, Unrated)
    BY <1>3 DEF SignUp
  <2> HIDE DEF j
  <2> QED
    BY <1>1, <2>1, <2>2
<1>4. ASSUME NEW g \in Guests, NEW e \in Errands, CompleteErrand(s, g, e) PROVE Goal
  <2> DEFINE j == About("complete", g, e)
  <2>1. Doing(j.op, "saveErrand") /\ j.op \in GuestOps
    BY DEF About, Job, Doing, GuestOps
  <2>2. Start(s, "saveErrand", j, 0, Unrated)
    BY <1>4 DEF CompleteErrand
  <2> HIDE DEF j
  <2> QED
    BY <1>1, <2>1, <2>2
<1>5. CASE SaveReferral(s) \/ SaveErrand(s) \/ CreditBonus(s) \/ SaveCompleted(s)
  BY <1>2, <1>5 DEF SaveReferral, SaveErrand, CreditBonus, SaveCompleted
<1>6. CASE Count(s)
  <2>1. Goto(s, "count", IF First(Cardinality(done[job[s].who])) THEN "findReferral" ELSE "idle")
    BY <1>6 DEF Count
  <2> QED
    BY <1>2, <2>1
<1>7. CASE FindReferral(s)
  <2>1. Goto(s, "findReferral", IF Payable(job[s].who) THEN "credit" ELSE "idle")
    BY <1>7 DEF FindReferral
  <2> QED
    BY <1>2, <2>1
<1> QED
  BY <1>3, <1>4, <1>5, <1>6, <1>7 DEF GuestStep

RatingStep(s) ==
  \/ \E x \in Raters : Rate(s, x)
  \/ InsertRating(s) \/ ReadRatings(s) \/ SaveAverage(s)

\* ... and of ratings.
LEMMA RatingMoves ==
  ASSUME Typed, Duties, NEW s \in Slots, RatingStep(s)
  PROVE  /\ Keeps(s) /\ job[s].op \in {"none", "rate"} /\ job'[s].op \in {"none", "rate"}
         /\ UNCHANGED <<account, guests>>
<1>0. UNCHANGED <<account, guests>>
  BY DEF RatingStep, Rate, InsertRating, ReadRatings, SaveAverage
<1>1. ASSUME NEW x \in Raters, Rate(s, x)
      PROVE  Keeps(s) /\ job[s].op \in {"none", "rate"} /\ job'[s].op \in {"none", "rate"}
  <2> DEFINE j == About("rate", x, 0)
  <2>1. Doing(j.op, "insertRating") /\ j.op = "rate"
    BY DEF About, Job, Doing
  <2>2. Start(s, "insertRating", j, 0, Unrated)
    BY <1>1 DEF Rate
  <2> HIDE DEF j
  <2> QED
    BY <2>1, <2>2, StartKeeps
<1>2. pc[s] \in {"insertRating", "readRatings", "saveAverage"} => job[s].op = "rate"
  BY DEF Duties, Doing
<1>3. Doing("rate", "readRatings") /\ Doing("rate", "saveAverage")
  BY DEF Doing
<1>4. CASE InsertRating(s)
  <2>1. Goto(s, "insertRating", "readRatings")
    BY <1>4 DEF InsertRating
  <2>2. pc[s] = "insertRating"
    BY <2>1, GotoDoes
  <2> QED
    BY <1>0, <1>2, <1>3, <2>1, <2>2, GotoKeeps
<1>5. CASE ReadRatings(s)
  <2>1. Move(s, "readRatings", "saveAverage", job[s], 0, 0, rated)
    BY <1>5 DEF ReadRatings
  <2>2. pc[s] = "readRatings"
    BY <2>1, MoveDoes
  <2> QED
    BY <1>0, <1>2, <1>3, <2>1, <2>2, MoveKeeps
<1>6. CASE SaveAverage(s)
  <2>1. Goto(s, "saveAverage", "idle")
    BY <1>6 DEF SaveAverage
  <2>2. pc[s] = "saveAverage"
    BY <2>1, GotoDoes
  <2> QED
    BY <1>0, <1>2, <2>1, <2>2, GotoKeeps
<1> QED
  BY <1>0, <1>1, <1>4, <1>5, <1>6 DEF RatingStep

\* What trouble does to a handler: nothing, or it ends, or its renewal lapses.
Hit(t) ==
  /\ job[t].who \in Guests \cup Raters => job[t].who \in missed'
  /\ Charged(t) => cut'
  /\ \/ pc'[t] = "idle" /\ job'[t] = NoJob
     \/ /\ pc'[t] = "lapse" /\ job'[t] = job[t] /\ job[t].op = "sweep"
        /\ pc[t] \in {"find", "debit", "insert", "extend", "renewed"}

Spared(t) ==
  /\ pc'[t] = pc[t] /\ job'[t] = job[t]
  /\ held'[t] = held[t] /\ until'[t] = until[t] /\ view'[t] = view[t]

Troubled ==
  /\ \A t \in Slots : Spared(t) \/ Hit(t)
  /\ missed \subseteq missed' /\ (cut => cut')
  /\ UNCHANGED <<account, guests, ratings>>

LEMMA TroubleHits ==
  ASSUME Typed, Crash \/ \E s \in Slots : StatementFails(s)
  PROVE  Troubled
<1>1. CASE Crash
  <2>1. Struck(Slots)
    BY <1>1 DEF Crash
  <2>2. ASSUME NEW t \in Slots PROVE Hit(t)
    <3>1. pc'[t] = "idle" /\ job'[t] = NoJob
      BY <1>1 DEF Crash
    <3>2. job[t].who \in Guests \cup Raters => job[t].who \in missed'
      BY <2>1 DEF Struck
    <3>3. Charged(t) => cut'
      BY <2>1 DEF Struck
    <3> QED
      BY <3>1, <3>2, <3>3 DEF Hit
  <2> QED
    BY <2>1, <2>2 DEF Struck, Troubled
<1>2. ASSUME NEW s \in Slots, StatementFails(s) PROVE Troubled
  <2>1. Struck({s})
    BY <1>2 DEF StatementFails
  <2>2. ASSUME NEW t \in Slots, t # s PROVE Spared(t)
    BY <1>2, <2>2 DEF StatementFails, Typed, Handlers, Spared
  <2>3. Hit(s)
    <3>1. \/ pc'[s] = "idle" /\ job'[s] = NoJob
          \/ /\ pc'[s] = "lapse" /\ job'[s] = job[s] /\ job[s].op = "sweep"
             /\ pc[s] \in {"find", "debit", "insert", "extend", "renewed"}
      BY <1>2 DEF StatementFails, Typed, Handlers
    <3>2. job[s].who \in Guests \cup Raters => job[s].who \in missed'
      BY <2>1 DEF Struck
    <3>3. Charged(s) => cut'
      BY <2>1 DEF Struck
    <3> QED
      BY <3>1, <3>2, <3>3 DEF Hit
  <2> QED
    BY <2>1, <2>2, <2>3 DEF Struck, Troubled
<1> QED
  BY <1>1, <1>2

\* The parts of Next.
LEMMA NextParts ==
  ASSUME [Next]_vars
  PROVE  \/ Tick \/ UNCHANGED vars
         \/ Crash \/ \E s \in Slots : StatementFails(s)
         \/ \E s \in Slots : ProStep(s)
         \/ \E s \in Slots : UpdateProfile(s) \/ SaveProfile(s)
         \/ \E s \in Slots : GuestStep(s)
         \/ \E s \in Slots : RatingStep(s)
         \/ \E g \in Guests, e \in Errands : ReopenErrand(g, e)
BY DEF Next, ProStep, GuestStep, RatingStep

\* A step that keeps to its operation keeps everybody to theirs.
LEMMA DutiesKept ==
  ASSUME Typed, Duties, NEW s \in Slots, Keeps(s)
  PROVE  Duties'
<1>1. \A t \in Slots : t # s => pc'[t] = pc[t] /\ job'[t] = job[t]
  BY DEF Keeps, Alters
<1>2. \A t \in Slots : Doing(job'[t].op, pc'[t])
  BY <1>1 DEF Duties, Keeps
<1>3. ~Races => \A t \in Slots : t # s => ~Conflict(job'[s].op, job[t].op)
  BY Conflicting DEF Keeps, Duties
<1>4. ~Races => \A t, u \in Slots : t # u => ~Conflict(job'[t].op, job'[u].op)
  BY <1>1, <1>3, Conflicting DEF Duties
<1> QED
  BY <1>2, <1>4 DEF Duties

LEMMA DutiesNext ==
  ASSUME Typed, Duties, [Next]_vars
  PROVE  Duties'
<1>1. CASE Tick \/ UNCHANGED vars
  BY <1>1 DEF Tick, vars, Duties
<1>4. CASE \E g \in Guests, e \in Errands : ReopenErrand(g, e)
  BY <1>4 DEF ReopenErrand, Duties
<1>2. CASE Crash \/ \E s \in Slots : StatementFails(s)
  <2>1. \A t \in Slots : Spared(t) \/ Hit(t)
    BY <1>2, TroubleHits DEF Troubled
  <2>2. \A t \in Slots : Doing(job'[t].op, pc'[t]) /\ job'[t].op \in {"none", job[t].op}
    BY <2>1, PlainJobs DEF Spared, Hit, Duties, Doing
  <2> QED
    BY <2>2, Conflicting DEF Duties
<1>3. ASSUME NEW s \in Slots,
             ProStep(s) \/ UpdateProfile(s) \/ SaveProfile(s) \/ GuestStep(s) \/ RatingStep(s)
      PROVE  Duties'
  <2>1. Keeps(s)
    BY <1>3, ProMoves, ProfileMoves, GuestMoves, RatingMoves
  <2> QED
    BY <2>1, DutiesKept
<1> QED
  BY <1>1, <1>2, <1>3, <1>4, NextParts

LEMMA DutiesInit == Init => Duties
BY PlainJobs, Conflicting DEF Init, Duties, Doing

-----------------------------------------------------------------------------
(* Renewals.  A row that was renewed stays renewable only while the sweep  *)
(* that renewed it is at work on it, and one sweep runs at a time.         *)

Renewable(r) == sub[r].status = "ACTIVE" /\ sub[r].auto
AtWork(t, r) == job[t].op = "sweep" /\ job[t].row = r /\ pc[t] \in {"insert", "extend", "renewed"}
Ahead(t) == job[t].op = "sweep" /\ pc[t] \in {"find", "debit"}

\* What a sweep has at hand and before it: subscriptions that were made, ...
Swept_Made ==
  \A t \in Slots : job[t].op = "sweep" =>
    /\ \A r \in job[t].due : r \in Rows /\ sub[r].status # "none"
    /\ job[t].row \notin job[t].due
    /\ Ahead(t) => job[t].row \in Rows /\ sub[job[t].row].status # "none"

\* ... and, of those to renew, none renewed so far.
Swept_Fresh ==
  \A t \in Slots : job[t].op = "sweep" =>
    /\ \A r \in job[t].due \cap job[t].renew : renewals[r] = 0
    /\ Ahead(t) => renewals[job[t].row] = 0

Once ==
  \A r \in Rows :
    /\ renewals[r] <= 1
    /\ sub[r].status = "none" => renewals[r] = 0
    /\ renewals[r] >= 1 /\ Renewable(r) => \E t \in Slots : AtWork(t, r)

Renewing == Swept_Made /\ (~cut => Swept_Fresh /\ Once)

\* One sweep, subscription or profile is in flight at a time.
LEMMA OnePays ==
  ASSUME Duties, ~Races, NEW s \in Slots, NEW t \in Slots, s # t,
         job[s].op \in {"subscribe", "sweep", "profile"}
  PROVE  job[t].op \notin {"subscribe", "sweep", "profile"}
BY Conflicting DEF Duties

\* A step of another kind.
LEMMA RenewingElsewhere ==
  ASSUME Renewing, UNCHANGED <<sub, renewals, cut>>,
         \A t \in Slots : \/ pc'[t] = pc[t] /\ job'[t] = job[t]
                          \/ job[t].op # "sweep" /\ job'[t].op # "sweep"
  PROVE  Renewing'
BY DEF Renewing, Swept_Made, Swept_Fresh, Once, Ahead, AtWork, Renewable

\* A sweep that goes on with the row at hand.
LEMMA RenewingOn ==
  ASSUME Renewing, UNCHANGED <<sub, renewals, cut>>, NEW s \in Slots, job'[s] = job[s], Alters(s),
         Ahead(s)' => Ahead(s), \A r \in Rows : AtWork(s, r) => AtWork(s, r)'
  PROVE  Renewing'
BY DEF Renewing, Swept_Made, Swept_Fresh, Once, AtWork, Ahead, Alters, Renewable

\* A saved row: its status is never none again, and it is renewable no more.
LEMMA SavedRow ==
  ASSUME Typed, NEW r, NEW st \in {"ACTIVE", "EXPIRED"}, NEW a \in BOOLEAN, sub' = Saved(r, st, a)
  PROVE  /\ \A q \in Rows : q # r => sub'[q] = sub[q]
         /\ r \in Rows => sub'[r].status = st /\ sub'[r].auto = a
<1>1. sub \in [Rows -> Sub]
  BY DEF Typed, Tables
<1> QED
  BY <1>1 DEF Saved

\* Trouble.
LEMMA RenewingTrouble ==
  ASSUME Renewing, Troubled
  PROVE  Renewing'
<1>1. \A t \in Slots : Spared(t) \/ Hit(t)
  BY DEF Troubled
<1>2. UNCHANGED <<sub, renewals>> /\ (cut => cut')
  BY DEF Troubled, account
<1>3. \A t \in Slots : \/ pc'[t] = pc[t] /\ job'[t] = job[t]
                       \/ job'[t].op # "sweep"
                       \/ pc'[t] = "lapse" /\ job'[t] = job[t]
  BY <1>1, PlainJobs DEF Spared, Hit
<1>4. \A t \in Slots, r \in Rows : AtWork(t, r) /\ ~cut' => AtWork(t, r)'
  BY <1>1 DEF Spared, Hit, AtWork, Charged
<1>5. Swept_Made'
  BY <1>2, <1>3 DEF Renewing, Swept_Made, Ahead
<1>6. ~cut' => Swept_Fresh'
  BY <1>2, <1>3 DEF Renewing, Swept_Fresh, Ahead
<1>7. ~cut' => Once'
  BY <1>2, <1>4 DEF Renewing, Once, Renewable
<1> QED
  BY <1>5, <1>6, <1>7 DEF Renewing

\* The debit counts the renewal.
LEMMA RenewingDebit ==
  ASSUME Typed, Duties, ~Races, Renewing, NEW s \in Slots, Debit(s)
  PROVE  Renewing'
<1>0. UNCHANGED sub
  BY DEF Debit
<1>1. CASE Goto(s, "debit", IF job[s].op = "sweep" THEN "lapse" ELSE "idle") /\ UNCHANGED renewals
  <2>1. CASE job[s].op = "sweep"
    <3>1. Goto(s, "debit", "lapse")
      BY <1>1, <2>1
    <3>2. /\ pc[s] = "debit" /\ pc'[s] = "lapse" /\ job'[s] = job[s] /\ Alters(s) /\ UNCHANGED cut
      BY <3>1, GotoDoes
    <3>3. UNCHANGED <<sub, renewals, cut>>
      BY <1>0, <1>1, <3>2
    <3>4. ~Ahead(s)' /\ \A r \in Rows : ~AtWork(s, r)
      BY <3>2 DEF Ahead, AtWork
    <3> QED
      BY <3>2, <3>3, <3>4, RenewingOn
  <2>2. CASE job[s].op # "sweep"
    <3>1. Goto(s, "debit", "idle")
      BY <1>1, <2>2
    <3>2. job'[s] = NoJob /\ Alters(s) /\ UNCHANGED cut
      BY <3>1, GotoDoes
    <3> QED
      BY <1>0, <1>1, <2>2, <3>2, PlainJobs, RenewingElsewhere DEF Alters
  <2> QED
    BY <2>1, <2>2
<1>2. CASE /\ Goto(s, "debit", "insert")
           /\ renewals' = IF job[s].op = "sweep" THEN [renewals EXCEPT ![job[s].row] = @ + 1]
                                                 ELSE renewals
  <2>1. /\ pc[s] = "debit" /\ pc'[s] = "insert" /\ job'[s] = job[s] /\ Alters(s) /\ UNCHANGED cut
    BY <1>2, GotoDoes
  <2>2. CASE job[s].op # "sweep"
    BY <1>0, <1>2, <2>1, <2>2, RenewingElsewhere DEF Alters
  <2>3. CASE job[s].op = "sweep"
    <3>1. Ahead(s) /\ AtWork(s, job[s].row)'
      BY <2>1, <2>3 DEF Ahead, AtWork
    <3>2. /\ job[s].row \in Rows /\ sub[job[s].row].status # "none"
          /\ job[s].row \notin job[s].due
      BY <2>3, <3>1 DEF Renewing, Swept_Made
    <3>3. renewals \in [Rows -> Nat] /\ renewals' = [renewals EXCEPT ![job[s].row] = @ + 1]
      BY <1>2, <2>3 DEF Typed, Tables
    <3>4. \A t \in Slots : t # s => job[t].op # "sweep"
      BY <2>3, OnePays
    <3>5. Swept_Made'
      BY <1>0, <2>1, <3>1 DEF Renewing, Swept_Made, Ahead, Alters
    <3>6. ~cut => Swept_Fresh'
      BY <2>1, <2>3, <3>2, <3>3, <3>4 DEF Renewing, Swept_Made, Swept_Fresh, Ahead, Alters
    <3>7. ~cut => Once'
      <4> SUFFICES ASSUME ~cut, NEW r \in Rows
                   PROVE  /\ renewals'[r] <= 1
                          /\ sub[r].status = "none" => renewals'[r] = 0
                          /\ renewals'[r] >= 1 /\ Renewable(r) => \E t \in Slots : AtWork(t, r)'
        BY <1>0 DEF Once, Renewable
      <4>1. CASE r = job[s].row
        <5>1. renewals[r] = 0
          BY <2>3, <3>1, <4>1 DEF Renewing, Swept_Fresh
        <5>2. AtWork(s, r)'
          BY <2>1, <2>3, <4>1 DEF AtWork
        <5> QED
          BY <3>2, <3>3, <4>1, <5>1, <5>2
      <4>2. CASE r # job[s].row
        <5>1. renewals'[r] = renewals[r]
          BY <3>3, <4>2
        <5>2. \A t \in Slots : AtWork(t, r) => AtWork(t, r)'
          BY <2>1, <4>2 DEF AtWork, Alters
        <5> QED
          BY <5>1, <5>2 DEF Renewing, Once
      <4> QED
        BY <4>1, <4>2
    <3> QED
      BY <2>1, <3>5, <3>6, <3>7 DEF Renewing
  <2> QED
    BY <2>2, <2>3
<1> QED
  BY <1>1, <1>2, Zenon DEF Debit

\* A new subscription was never renewed.
LEMMA RenewingInsert ==
  ASSUME Typed, Duties, ~Races, Renewing, NEW s \in Slots, Insert(s)
  PROVE  Renewing'
<1>1. /\ pc[s] = "insert" /\ pc'[s] = "extend" /\ job'[s] = job[s] /\ Alters(s) /\ UNCHANGED cut
      /\ UNCHANGED renewals
  BY MoveDoes DEF Insert, Step
<1>2. PICK r \in Rows : /\ sub[r].status = "none"
                       /\ \A q \in Rows : q # r => sub'[q] = sub[q]
                       /\ sub'[r].status = "ACTIVE"
  <2>1. sub \in [Rows -> Sub]
    BY DEF Typed, Tables
  <2> QED
    BY <2>1 DEF Insert
<1>3. \A q \in Rows : sub'[q].status = "none" => sub[q].status = "none"
  BY <1>2
<1>4. Swept_Made'
  BY <1>1, <1>3 DEF Renewing, Swept_Made, Ahead, Alters
<1>5. ~cut => Swept_Fresh'
  BY <1>1 DEF Renewing, Swept_Fresh, Ahead, Alters
<1>6. \A t \in Slots, q \in Rows : AtWork(t, q) => AtWork(t, q)'
  BY <1>1 DEF AtWork, Alters
<1>7. ~cut => Once'
  BY <1>1, <1>2, <1>6 DEF Renewing, Once, Renewable
<1> QED
  BY <1>1, <1>4, <1>5, <1>7 DEF Renewing

\* A row is saved back EXPIRED, or not renewing.
LEMMA RenewingSave ==
  ASSUME Typed, Duties, Renewing, NEW s \in Slots, MarkRenewed(s) \/ Lapse(s) \/ Stop(s)
  PROVE  Renewing'
<1>1. /\ Alters(s) /\ UNCHANGED <<cut, renewals>>
      /\ pc[s] \in {"renewed", "lapse", "stop"} /\ pc'[s] \in {"each", "check", "idle"}
      /\ job'[s] \in {job[s], NoJob}
  <2>1. UNCHANGED renewals
    BY DEF MarkRenewed, Lapse, Stop
  <2>2. CASE MarkRenewed(s)
    <3>1. Goto(s, "renewed", "each")
      BY <2>2 DEF MarkRenewed
    <3> QED
      BY <2>1, <3>1, GotoDoes
  <2>3. CASE Lapse(s)
    <3>1. Goto(s, "lapse", "check")
      BY <2>3 DEF Lapse
    <3> QED
      BY <2>1, <3>1, GotoDoes
  <2>4. CASE Stop(s)
    <3>1. Goto(s, "stop", "idle")
      BY <2>4 DEF Stop
    <3> QED
      BY <2>1, <3>1, GotoDoes
  <2> QED
    BY <2>2, <2>3, <2>4
<1>2. /\ \A q \in Rows : sub'[q].status = "none" => sub[q].status = "none"
      /\ \A q \in Rows : Renewable(q)' => Renewable(q) /\ q # job[s].row
  <2>1. CASE MarkRenewed(s)
    <3>1. sub' = Saved(job[s].row, "EXPIRED", TRUE)
      BY <2>1 DEF MarkRenewed
    <3> QED
      BY <3>1, SavedRow DEF Renewable
  <2>2. CASE Lapse(s)
    <3>1. sub' = Saved(job[s].row, "EXPIRED", FALSE)
      BY <2>2 DEF Lapse
    <3> QED
      BY <3>1, SavedRow DEF Renewable
  <2>3. CASE Stop(s)
    <3>1. sub' = Saved(job[s].row, "ACTIVE", FALSE)
      BY <2>3 DEF Stop
    <3> QED
      BY <3>1, SavedRow DEF Renewable
  <2> QED
    BY <2>1, <2>2, <2>3
<1>3. Swept_Made'
  BY <1>1, <1>2, PlainJobs DEF Renewing, Swept_Made, Ahead, Alters
<1>4. ~cut => Swept_Fresh'
  BY <1>1, PlainJobs DEF Renewing, Swept_Fresh, Ahead, Alters
<1>5. \A t \in Slots, q \in Rows : AtWork(t, q) => AtWork(t, q)' \/ q = job[s].row
  BY <1>1 DEF AtWork, Alters
<1>6. ~cut => Once'
  BY <1>1, <1>2, <1>5 DEF Renewing, Once
<1> QED
  BY <1>1, <1>3, <1>4, <1>6 DEF Renewing

\* The sweep begins, and takes up the next row due.
LEMMA RenewingSweep ==
  ASSUME Typed, Duties, ~Races, Renewing, NEW s \in Slots, ProcessRenewals(s) \/ NextDue(s)
  PROVE  Renewing'
<1>0. UNCHANGED <<sub, renewals>>
  BY DEF ProcessRenewals, NextDue, account
<1>1. CASE ProcessRenewals(s)
  <2> DEFINE j == Job("sweep", 0, 0, TRUE, Nobody, Due, {r \in Due : sub[r].auto}, clock)
  <2>1. Start(s, "each", j, 0, Unrated)
    BY <1>1 DEF ProcessRenewals
  <2>2. /\ j.op = "sweep" /\ j.row = 0 /\ j.due = Due /\ j.renew = {r \in Due : sub[r].auto}
    BY DEF Job
  <2> HIDE DEF j
  <2>3. /\ pc[s] = "idle" /\ pc'[s] = "each" /\ job'[s] = j /\ Alters(s) /\ UNCHANGED cut
        /\ \A t \in Slots : ~Conflict(j.op, job[t].op)
    BY <2>1, StartDoes
  <2>4. \A t \in Slots : job[t].op # "sweep"
    BY <2>2, <2>3, Conflicting
  <2>5. \A r \in Due : r \in Rows /\ sub[r].status = "ACTIVE"
    BY DEF Due
  <2>6. 0 \notin Due
    BY <2>5, MembersAssumption
  <2>7. Swept_Made'
    BY <1>0, <2>2, <2>3, <2>4, <2>5, <2>6 DEF Swept_Made, Ahead, Alters
  <2>8. ASSUME ~cut, NEW r \in j.due \cap j.renew PROVE renewals[r] = 0
    <3>1. r \in Rows /\ Renewable(r) /\ renewals[r] \in Nat
      BY <2>2, <2>5, <2>8 DEF Renewable, Typed, Tables
    <3> QED
      BY <2>4, <2>8, <3>1 DEF Renewing, Once, AtWork
  <2>9. ~cut => Swept_Fresh'
    BY <1>0, <2>2, <2>3, <2>4, <2>8 DEF Swept_Fresh, Ahead, Alters
  <2>10. ~cut => Once'
    <3>1. \A t \in Slots, q \in Rows : ~AtWork(t, q)
      BY <2>4 DEF AtWork
    <3> QED
      BY <1>0, <3>1 DEF Renewing, Once, Renewable
  <2> QED
    BY <2>3, <2>7, <2>9, <2>10 DEF Renewing
<1>2. CASE NextDue(s)
  <2>1. CASE Goto(s, "each", "idle")
    <3>1. pc[s] = "each" /\ job'[s] = NoJob /\ Alters(s) /\ UNCHANGED cut
      BY <2>1, GotoDoes
    <3>2. \A t \in Slots, q \in Rows : AtWork(t, q) => AtWork(t, q)'
      BY <3>1 DEF AtWork, Alters
    <3> QED
      BY <1>0, <3>1, <3>2, PlainJobs
         DEF Renewing, Swept_Made, Swept_Fresh, Once, Ahead, Renewable, Alters
  <2>2. ASSUME NEW r \in job[s].due, NEW next \in {"find", "lapse"},
               Step(s, "each", next, Swept(job[s], r), 0, 0),
               next = "find" => r \in job[s].renew
        PROVE  Renewing'
    <3> DEFINE j == Swept(job[s], r)
    <3>1. /\ pc[s] = "each" /\ pc'[s] = next /\ job'[s] = j /\ Alters(s) /\ UNCHANGED cut
      BY <2>2, MoveDoes DEF Step
    <3>2. j.op = "sweep" /\ j.row = r /\ j.due = job[s].due \ {r} /\ j.renew = job[s].renew
      BY DEF Swept, Job
    <3>3. job[s].op = "sweep"
      BY <3>1 DEF Duties, Doing
    <3> HIDE DEF j
    <3>4. Swept_Made'
      BY <1>0, <3>1, <3>2, <3>3 DEF Renewing, Swept_Made, Ahead, Alters
    <3>5. ~cut => Swept_Fresh'
      BY <1>0, <2>2, <3>1, <3>2, <3>3 DEF Renewing, Swept_Fresh, Ahead, Alters
    <3>6. \A t \in Slots, q \in Rows : AtWork(t, q) => AtWork(t, q)'
      BY <3>1 DEF AtWork, Alters
    <3>7. ~cut => Once'
      BY <1>0, <3>6 DEF Renewing, Once, Renewable
    <3> QED
      BY <3>1, <3>4, <3>5, <3>7 DEF Renewing
  <2>3. CASE \E r \in job[s].due :
               Step(s, "each", IF r \in job[s].renew THEN "find" ELSE "lapse", Swept(job[s], r), 0, 0)
    <3>1. PICK r \in job[s].due :
               Step(s, "each", IF r \in job[s].renew THEN "find" ELSE "lapse", Swept(job[s], r), 0, 0)
      BY <2>3
    <3>2. CASE r \in job[s].renew
      <4>1. Step(s, "each", "find", Swept(job[s], r), 0, 0)
        BY <3>1, <3>2, Zenon
      <4> QED
        BY <2>2, <3>2, <4>1
    <3>3. CASE r \notin job[s].renew
      <4>1. Step(s, "each", "lapse", Swept(job[s], r), 0, 0)
        BY <3>1, <3>3, Zenon
      <4> QED
        BY <2>2, <4>1
    <3> QED
      BY <3>2, <3>3
  <2> QED
    BY <1>2, <2>1, <2>3, Zenon DEF NextDue
<1> QED
  BY <1>1, <1>2

\* The other steps of Pro leave the rows alone.
LEMMA RenewingPro ==
  ASSUME Typed, Duties, ~Races, Renewing, NEW s \in Slots, ProStep(s)
  PROVE  Renewing'
<1>1. Keeps(s)
  BY ProMoves
<1>2. Alters(s) /\ UNCHANGED cut
  BY <1>1 DEF Keeps
<1>3. ASSUME UNCHANGED <<sub, renewals>>, job'[s] = job[s], Ahead(s)' => Ahead(s),
             pc[s] \notin {"insert", "extend", "renewed"} \/ pc'[s] \in {"insert", "extend", "renewed"}
      PROVE  Renewing'
  BY <1>2, <1>3, RenewingOn DEF AtWork
<1>4. ASSUME UNCHANGED <<sub, renewals>>, job[s].op # "sweep", job'[s].op # "sweep"
      PROVE  Renewing'
  BY <1>2, <1>4, RenewingElsewhere DEF Alters
<1>5. ASSUME NEW p \in Plans, NEW a \in BOOLEAN, Subscribe(s, p, a) PROVE Renewing'
  <2> DEFINE j == Job("subscribe", 0, p, a, Nobody, {}, {}, 0)
  <2>1. Start(s, "find", j, 0, Unrated) /\ UNCHANGED <<sub, renewals>>
    BY <1>5 DEF Subscribe, account
  <2>2. j.op = "subscribe"
    BY DEF Job
  <2> HIDE DEF j
  <2>3. pc[s] = "idle" /\ job'[s] = j
    BY <2>1, StartDoes
  <2>4. job[s].op = "none"
    BY <2>3 DEF Duties, Doing
  <2> QED
    BY <1>4, <2>1, <2>2, <2>3, <2>4
<1>6. CASE FindUser(s)
  <2>1. pc[s] = "find" /\ pc'[s] = "debit" /\ job'[s] = job[s] /\ UNCHANGED <<sub, renewals>>
    BY <1>6, MoveDoes DEF FindUser, Step, account
  <2> QED
    BY <1>3, <2>1 DEF Ahead
<1>7. CASE ExtendPro(s)
  <2>0. UNCHANGED <<sub, renewals>>
    BY <1>7 DEF ExtendPro
  <2>1. CASE job[s].op = "sweep"
    <3>1. pc[s] = "extend" /\ pc'[s] = "renewed" /\ job'[s] = job[s]
      BY <1>7, <2>1, MoveDoes DEF ExtendPro, Step
    <3> QED
      BY <1>3, <2>0, <3>1 DEF Ahead
  <2>2. CASE job[s].op # "sweep"
    <3>1. Goto(s, "extend", "idle")
      BY <1>7, <2>2 DEF ExtendPro
    <3> QED
      BY <1>4, <2>0, <2>2, <3>1, GotoDoes, PlainJobs
  <2> QED
    BY <2>1, <2>2
<1>8. CASE Check(s) \/ ClearPro(s)
  <2>0. UNCHANGED <<sub, renewals>>
    BY <1>8 DEF Check, ClearPro, account
  <2>1. PICK here \in {"check", "clear"}, next \in {"clear", "each"} : Goto(s, here, next)
    <3>1. CASE Check(s)
      <4>1. Goto(s, "check", IF Over(pro, job[s].now) THEN "clear" ELSE "each")
        BY <3>1 DEF Check
      <4> QED
        BY <4>1
    <3> QED
      BY <1>8, <3>1 DEF ClearPro
  <2>2. pc[s] = here /\ pc'[s] = next /\ job'[s] = job[s]
    BY <2>1, GotoDoes
  <2> QED
    BY <1>3, <2>0, <2>2 DEF Ahead
<1>9. CASE CancelAutoRenew(s)
  <2>0. UNCHANGED <<sub, renewals>>
    BY <1>9 DEF CancelAutoRenew, account
  <2>1. PICK r \in Rows : Start(s, "stop", Job("cancel", r, 0, FALSE, Nobody, {}, {}, 0), 0, Unrated)
    BY <1>9 DEF CancelAutoRenew
  <2> DEFINE j == Job("cancel", r, 0, FALSE, Nobody, {}, {}, 0)
  <2>2. j.op = "cancel" /\ Start(s, "stop", j, 0, Unrated)
    BY <2>1 DEF Job
  <2> HIDE DEF j
  <2>3. pc[s] = "idle" /\ job'[s] = j
    BY <2>2, StartDoes
  <2>4. job[s].op = "none"
    BY <2>3 DEF Duties, Doing
  <2> QED
    BY <1>4, <2>0, <2>2, <2>3, <2>4
<1> QED
  BY <1>5, <1>6, <1>7, <1>8, <1>9, RenewingDebit, RenewingInsert, RenewingSave, RenewingSweep
     DEF ProStep

\* Every step.
LEMMA RenewingNext ==
  ASSUME Typed, Duties, ~Races, Renewing, [Next]_vars
  PROVE  Renewing'
<1>1. CASE Tick \/ UNCHANGED vars \/ \E g \in Guests, e \in Errands : ReopenErrand(g, e)
  BY <1>1, RenewingElsewhere DEF Tick, vars, ReopenErrand, account, history
<1>2. ASSUME NEW s \in Slots, UpdateProfile(s) \/ SaveProfile(s) \/ GuestStep(s) \/ RatingStep(s)
      PROVE  Renewing'
  <2>1. /\ Alters(s) /\ UNCHANGED <<cut, sub, renewals>>
        /\ job[s].op # "sweep" /\ job'[s].op # "sweep"
    BY <1>2, ProfileMoves, GuestMoves, RatingMoves DEF Keeps, GuestOps, account
  <2> QED
    BY <2>1, RenewingElsewhere DEF Alters
<1> QED
  BY <1>1, <1>2, NextParts, TroubleHits, RenewingTrouble, RenewingPro

\* A subscription that ran out is renewed once, unless trouble struck between
\* the debit and the row's EXPIRED.
THEOREM NoSecondRenewal ==
  ASSUME ~Races
  PROVE  Spec => []RenewedOnce
<1>1. Init => Renewing
  <2>1. Init => Swept_Made
    BY PlainJobs DEF Init, Swept_Made
  <2>2. Init => Swept_Fresh
    BY PlainJobs DEF Init, Swept_Fresh
  <2>3. Init => Once
    BY DEF Init, Once
  <2> QED
    BY <2>1, <2>2, <2>3 DEF Renewing
<1>2. Typed /\ Duties /\ Renewing /\ [Next]_vars => Typed' /\ Duties' /\ Renewing'
  BY TypeNext, DutiesNext, RenewingNext
<1>3. Renewing => RenewedOnce
  BY DEF Renewing, Once, RenewedOnce
<1> QED
  BY TypeInit, DutiesInit, <1>1, <1>2, <1>3, PTL DEF Spec

-----------------------------------------------------------------------------
(* The time paid for.  What a handler of Pro or the profile holds is Pro   *)
(* as it is, for one of them runs at a time.                               *)

\* What the handlers hold, the end they will write once it is paid for, and
\* that what a sweep clears is over.
HeldTime ==
  \A t \in Slots :
    /\ pc[t] \in {"debit", "insert", "saveProfile"} => held[t] = pro
    /\ pc[t] = "extend" /\ ~cut => until[t] = owed
    /\ job[t].op = "sweep" => job[t].now <= clock
    /\ pc[t] = "clear" => pro <= job[t].now

\* Pro lags only while a handler is about to extend it.
InTime == ~cut /\ owed > clock => pro = owed \/ \E t \in Slots : pc[t] = "extend"

Keeping == HeldTime /\ InTime

\* The steps at which a handler holds a time.
Holding == {"debit", "insert", "extend", "clear", "saveProfile"}

\* While s is at work on Pro or the profile nobody else holds a time.
LEMMA OneHolds ==
  ASSUME Duties, ~Races, NEW s \in Slots, NEW t \in Slots, s # t,
         job[s].op \in {"subscribe", "sweep", "profile"}
  PROVE  pc[t] \notin Holding
BY OnePays DEF Duties, Doing, Holding

\* A step that leaves Pro and what is owed alone, and takes s to where it holds
\* no time.
LEMMA KeepingElsewhere ==
  ASSUME Keeping, UNCHANGED <<clock, pro, owed, cut>>, NEW s \in Slots, Alters(s),
         pc[s] # "extend", pc'[s] \notin Holding,
         job'[s].op = "sweep" => job'[s].now <= clock
  PROVE  Keeping'
BY DEF Keeping, HeldTime, InTime, Alters, Holding

\* Trouble leaves a payment cut, or strikes before it.
LEMMA KeepingTrouble ==
  ASSUME Keeping, Troubled
  PROVE  Keeping'
<1>1. \A t \in Slots : Spared(t) \/ Hit(t)
  BY DEF Troubled
<1>2. UNCHANGED <<clock, pro, owed>> /\ (cut => cut')
  BY DEF Troubled, account
<1>3. HeldTime'
  BY <1>1, <1>2, PlainJobs DEF Keeping, HeldTime, Spared, Hit
<1>4. \A t \in Slots : pc[t] = "extend" /\ ~cut' => pc'[t] = "extend"
  BY <1>1 DEF Spared, Hit, Charged
<1>5. InTime'
  BY <1>2, <1>4 DEF Keeping, InTime
<1> QED
  BY <1>3, <1>5 DEF Keeping

\* A new day: what was owed beyond it was owed beyond the day before.
LEMMA KeepingTick ==
  ASSUME Typed, Keeping, Tick
  PROVE  Keeping'
<1>1. clock' = clock + 1 /\ UNCHANGED <<pro, owed, cut, pc, job, held, until>>
  BY DEF Tick, history
<1>2. clock \in Nat /\ owed \in Nat /\ pro \in Nat /\ \A t \in Slots : job[t].now \in Nat
  BY JobParts DEF Typed, Tables, Handlers
<1>3. HeldTime'
  BY <1>1, <1>2 DEF Keeping, HeldTime
<1>4. InTime'
  BY <1>1, <1>2 DEF Keeping, InTime
<1> QED
  BY <1>3, <1>4 DEF Keeping

\* The payment: the new period starts where the last one ends.
LEMMA KeepingPay ==
  ASSUME Typed, Duties, ~Races, Within, Keeping, NEW s \in Slots,
         FindUser(s) \/ Debit(s) \/ Insert(s) \/ ExtendPro(s)
  PROVE  Keeping'
<1>0. /\ pc[s] \in {"find", "debit", "insert", "extend"} => job[s].op \in {"subscribe", "sweep"}
      /\ clock \in Nat /\ owed \in Nat /\ pro \in Nat /\ pro <= owed
  BY DEF Duties, Doing, Typed, Tables, Within
<1>1. CASE FindUser(s)
  <2>1. /\ pc[s] = "find" /\ pc'[s] = "debit" /\ job'[s] = job[s] /\ held'[s] = pro
        /\ Alters(s) /\ UNCHANGED <<clock, pro, owed, cut>>
    BY <1>1, MoveDoes DEF FindUser, Step, account
  <2> QED
    BY <2>1 DEF Keeping, HeldTime, InTime, Alters
<1>2. CASE Debit(s)
  <2>1. UNCHANGED <<clock, pro, owed>>
    BY <1>2 DEF Debit
  <2>2. PICK next \in {"insert", "lapse", "idle"} : Goto(s, "debit", next)
    <3>1. CASE Goto(s, "debit", "insert")
      BY <3>1
    <3>2. CASE Goto(s, "debit", IF job[s].op = "sweep" THEN "lapse" ELSE "idle")
      BY <3>2
    <3> QED
      BY <1>2, <3>1, <3>2 DEF Debit
  <2>3. /\ pc[s] = "debit" /\ pc'[s] = next /\ Alters(s) /\ UNCHANGED cut
        /\ next # "idle" => job'[s] = job[s] /\ held'[s] = held[s]
        /\ next = "idle" => job'[s].op = "none"
    BY <2>2, GotoDoes, PlainJobs
  <2> QED
    BY <2>1, <2>3 DEF Keeping, HeldTime, InTime, Alters
<1>3. CASE Insert(s)
  <2>1. /\ pc[s] = "insert" /\ pc'[s] = "extend" /\ job'[s] = job[s] /\ Alters(s)
        /\ until'[s] = Extended(held[s], job[s].plan) /\ UNCHANGED <<clock, pro, cut>>
        /\ owed' = Later(owed, clock) + job[s].plan
    BY <1>3, MoveDoes DEF Insert, Step
  <2>2. \A t \in Slots : t # s => pc[t] \notin Holding
    BY <1>0, <2>1, OneHolds
  <2>3. held[s] = pro /\ (~cut /\ owed > clock => pro = owed)
    BY <2>1, <2>2 DEF Keeping, HeldTime, InTime, Holding
  <2>4. ~cut => until'[s] = owed'
    BY <1>0, <2>1, <2>3 DEF Extended, Later
  <2>5. HeldTime'
    BY <2>1, <2>2, <2>4 DEF Keeping, HeldTime, Alters, Holding
  <2>6. InTime'
    BY <2>1 DEF InTime
  <2> QED
    BY <2>5, <2>6 DEF Keeping
<1>4. CASE ExtendPro(s)
  <2>1. UNCHANGED <<clock, owed>> /\ pro' = until[s]
    BY <1>4 DEF ExtendPro
  <2>2. /\ pc[s] = "extend" /\ pc'[s] \in {"renewed", "idle"} /\ Alters(s) /\ UNCHANGED cut
        /\ job'[s] = job[s] \/ job'[s].op = "none"
    <3>1. CASE job[s].op = "sweep"
      BY <1>4, <3>1, MoveDoes DEF ExtendPro, Step
    <3>2. CASE job[s].op # "sweep"
      <4>1. Goto(s, "extend", "idle")
        BY <1>4, <3>2 DEF ExtendPro
      <4> QED
        BY <4>1, GotoDoes, PlainJobs
    <3> QED
      BY <3>1, <3>2
  <2>3. \A t \in Slots : t # s => pc[t] \notin Holding
    BY <1>0, <2>2, OneHolds
  <2>4. ~cut => pro' = owed
    BY <2>1, <2>2 DEF Keeping, HeldTime
  <2> QED
    BY <2>1, <2>2, <2>3, <2>4 DEF Keeping, HeldTime, InTime, Alters, Holding
<1> QED
  BY <1>1, <1>2, <1>3, <1>4

\* The sweep clears only what is over.
LEMMA KeepingClear ==
  ASSUME Typed, Duties, ~Races, Keeping, NEW s \in Slots, Check(s) \/ ClearPro(s)
  PROVE  Keeping'
<1>0. /\ pc[s] \in {"check", "clear"} => job[s].op = "sweep"
      /\ clock \in Nat /\ owed \in Nat /\ pro \in Nat /\ job[s].now \in Nat
  BY JobParts DEF Duties, Doing, Typed, Tables, Handlers
<1>1. CASE Check(s)
  <2>1. UNCHANGED <<clock, owed, pro>>
    BY <1>1 DEF Check, account
  <2>2. PICK next \in {"clear", "each"} :
          Goto(s, "check", next) /\ (next = "clear" => Over(pro, job[s].now))
    <3>1. Goto(s, "check", IF Over(pro, job[s].now) THEN "clear" ELSE "each")
      BY <1>1 DEF Check
    <3> QED
      BY <3>1
  <2>3. pc[s] = "check" /\ pc'[s] = next /\ job'[s] = job[s] /\ Alters(s) /\ UNCHANGED cut
    BY <2>2, GotoDoes
  <2> QED
    BY <2>1, <2>2, <2>3 DEF Keeping, HeldTime, InTime, Alters, Over
<1>2. CASE ClearPro(s)
  <2>1. /\ pc[s] = "clear" /\ pc'[s] = "each" /\ job'[s] = job[s] /\ Alters(s)
        /\ UNCHANGED <<clock, owed, cut>> /\ pro' = 0
    BY <1>2, GotoDoes DEF ClearPro
  <2>2. \A t \in Slots : t # s => pc[t] \notin Holding
    BY <1>0, <2>1, OneHolds
  <2>3. pro <= job[s].now /\ job[s].now <= clock
    BY <1>0, <2>1 DEF Keeping, HeldTime
  <2>4. ~cut => owed <= clock
    BY <1>0, <2>1, <2>2, <2>3 DEF Keeping, InTime, Holding
  <2>5. HeldTime'
    BY <2>1, <2>2 DEF Keeping, HeldTime, Alters, Holding
  <2>6. InTime'
    BY <1>0, <2>1, <2>4 DEF InTime
  <2> QED
    BY <2>5, <2>6 DEF Keeping
<1> QED
  BY <1>1, <1>2

\* The profile is read and saved back with the Pro it had.
LEMMA KeepingProfile ==
  ASSUME Typed, Duties, ~Races, Keeping, NEW s \in Slots, UpdateProfile(s) \/ SaveProfile(s)
  PROVE  Keeping'
<1>1. CASE UpdateProfile(s)
  <2> DEFINE j == Job("profile", 0, 0, FALSE, Nobody, {}, {}, 0)
  <2>1. j.op = "profile" /\ Start(s, "saveProfile", j, pro, average)
    BY <1>1 DEF UpdateProfile, Job
  <2> HIDE DEF j
  <2>2. /\ pc[s] = "idle" /\ pc'[s] = "saveProfile" /\ job'[s] = j /\ held'[s] = pro
        /\ Alters(s) /\ UNCHANGED cut
    BY <2>1, StartDoes
  <2>3. UNCHANGED <<clock, pro, owed>>
    BY <1>1 DEF UpdateProfile, account
  <2> QED
    BY <2>1, <2>2, <2>3 DEF Keeping, HeldTime, InTime, Alters
<1>2. CASE SaveProfile(s)
  <2>1. /\ pc[s] = "saveProfile" /\ pc'[s] = "idle" /\ job'[s] = NoJob /\ Alters(s)
        /\ UNCHANGED <<clock, owed, cut>> /\ pro' = held[s]
    BY <1>2, GotoDoes DEF SaveProfile
  <2>2. pro' = pro
    BY <2>1 DEF Keeping, HeldTime
  <2> QED
    BY <2>1, <2>2, PlainJobs, KeepingElsewhere DEF Holding
<1> QED
  BY <1>1, <1>2

\* The other steps of Pro.
LEMMA KeepingOthers ==
  ASSUME Typed, Duties, Keeping, NEW s \in Slots,
         \/ \E p \in Plans, a \in BOOLEAN : Subscribe(s, p, a)
         \/ ProcessRenewals(s) \/ NextDue(s) \/ MarkRenewed(s) \/ Lapse(s)
         \/ CancelAutoRenew(s) \/ Stop(s)
  PROVE  Keeping'
<1>0. UNCHANGED <<clock, pro, owed>> /\ clock \in Nat
  BY DEF Subscribe, ProcessRenewals, NextDue, MarkRenewed, Lapse, CancelAutoRenew, Stop, account,
     Typed, Tables
<1>1. ASSUME NEW here \in Steps \ Holding, NEW j, NEW h, NEW v, Start(s, here, j, h, v),
             j.op = "sweep" => j.now <= clock
      PROVE  Keeping'
  <2>1. pc[s] = "idle" /\ pc'[s] = here /\ job'[s] = j /\ Alters(s) /\ UNCHANGED cut
    BY <1>1, StartDoes
  <2> QED
    BY <1>0, <1>1, <2>1, KeepingElsewhere
<1>2. ASSUME NEW here \in Steps \ Holding, NEW next \in Steps \ Holding, Goto(s, here, next)
      PROVE  Keeping'
  <2>1. /\ pc[s] = here /\ pc'[s] = next /\ Alters(s) /\ UNCHANGED cut
        /\ job'[s] = job[s] \/ job'[s].op = "none"
    BY <1>2, GotoDoes, PlainJobs
  <2>2. job[s].op = "sweep" => job[s].now <= clock
    BY DEF Keeping, HeldTime
  <2>3. job'[s].op = "sweep" => job'[s].now <= clock
    BY <2>1, <2>2
  <2> QED
    BY <1>0, <1>2, <2>1, <2>3, KeepingElsewhere DEF Holding
<1>3. {"idle", "find", "each", "renewed", "lapse", "check", "stop"} \subseteq Steps \ Holding
  BY DEF Steps, Holding
<1>4. ASSUME NEW p \in Plans, NEW a \in BOOLEAN, Subscribe(s, p, a) PROVE Keeping'
  <2>1. Job("subscribe", 0, p, a, Nobody, {}, {}, 0).op = "subscribe"
    BY DEF Job
  <2> QED
    BY <1>1, <1>3, <1>4, <2>1 DEF Subscribe
<1>5. CASE ProcessRenewals(s)
  <2> DEFINE j == Job("sweep", 0, 0, TRUE, Nobody, Due, {r \in Due : sub[r].auto}, clock)
  <2>1. Start(s, "each", j, 0, Unrated) /\ j.now = clock
    BY <1>5 DEF ProcessRenewals, Job
  <2> HIDE DEF j
  <2> QED
    BY <1>0, <1>1, <1>3, <2>1
<1>6. CASE NextDue(s)
  <2>1. CASE Goto(s, "each", "idle")
    BY <1>2, <1>3, <2>1
  <2>2. CASE \E r \in job[s].due :
               Step(s, "each", IF r \in job[s].renew THEN "find" ELSE "lapse", Swept(job[s], r), 0, 0)
    <3>1. PICK r \in job[s].due, next \in {"find", "lapse"} :
               Step(s, "each", next, Swept(job[s], r), 0, 0)
      BY <2>2
    <3> DEFINE j == Swept(job[s], r)
    <3>2. j.now = job[s].now /\ Step(s, "each", next, j, 0, 0)
      BY <3>1 DEF Swept, Job
    <3> HIDE DEF j
    <3>3. pc[s] = "each" /\ pc'[s] = next /\ job'[s] = j /\ Alters(s) /\ UNCHANGED cut
      BY <3>2, MoveDoes DEF Step
    <3>4. job[s].op = "sweep"
      BY <3>3 DEF Duties, Doing
    <3>5. job'[s].now <= clock
      BY <3>2, <3>3, <3>4 DEF Keeping, HeldTime
    <3> QED
      BY <1>0, <1>3, <3>3, <3>5, KeepingElsewhere DEF Holding
  <2> QED
    BY <1>6, <2>1, <2>2, Zenon DEF NextDue
<1>7. CASE CancelAutoRenew(s)
  <2>1. PICK r \in Rows : Start(s, "stop", Job("cancel", r, 0, FALSE, Nobody, {}, {}, 0), 0, Unrated)
    BY <1>7 DEF CancelAutoRenew
  <2>2. Job("cancel", r, 0, FALSE, Nobody, {}, {}, 0).op = "cancel"
    BY DEF Job
  <2> QED
    BY <1>1, <1>3, <2>1, <2>2
<1>8. CASE MarkRenewed(s) \/ Lapse(s) \/ Stop(s)
  BY <1>2, <1>3, <1>8 DEF MarkRenewed, Lapse, Stop
<1> QED
  BY <1>4, <1>5, <1>6, <1>7, <1>8

\* Every step.
LEMMA KeepingNext ==
  ASSUME Typed, Duties, ~Races, Within, Keeping, [Next]_vars
  PROVE  Keeping'
<1>1. CASE UNCHANGED vars \/ \E g \in Guests, e \in Errands : ReopenErrand(g, e)
  BY <1>1 DEF vars, ReopenErrand, account, history, Keeping, HeldTime, InTime
<1>2. ASSUME NEW s \in Slots, GuestStep(s) \/ RatingStep(s)
      PROVE  Keeping'
  <2>1. /\ Alters(s) /\ UNCHANGED <<clock, pro, owed, cut>>
        /\ job[s].op \in {"none", "signUp", "complete", "rate"}
        /\ job'[s].op \in {"none", "signUp", "complete", "rate"}
        /\ Doing(job'[s].op, pc'[s])
    BY <1>2, GuestMoves, RatingMoves DEF Keeps, GuestOps, account
  <2>2. pc[s] # "extend" /\ pc'[s] \notin Holding
    BY <2>1 DEF Duties, Doing, Holding
  <2> QED
    BY <2>1, <2>2, KeepingElsewhere
<1>3. ASSUME NEW s \in Slots, ProStep(s) PROVE Keeping'
  BY <1>3, KeepingPay, KeepingClear, KeepingOthers DEF ProStep
<1> QED
  BY <1>1, <1>2, <1>3, NextParts, KeepingTick, TroubleHits, KeepingTrouble, KeepingProfile

\* Once the handlers are still a subscriber has the time paid for, unless
\* trouble struck between a debit and the last write.
THEOREM TimeIsKept ==
  ASSUME ~Races
  PROVE  Spec => []PaidTimeKept
<1>1. Init => Within /\ Keeping
  BY PlainJobs DEF Init, Within, Keeping, HeldTime, InTime
<1>2. Typed /\ Duties /\ Within /\ Keeping /\ [Next]_vars =>
        Typed' /\ Duties' /\ Within' /\ Keeping'
  BY TypeNext, DutiesNext, WithinNext, KeepingNext
<1>3. Keeping => PaidTimeKept
  BY DEF Keeping, InTime, PaidTimeKept, Still
<1> QED
  BY TypeInit, DutiesInit, <1>1, <1>2, <1>3, PTL DEF Spec

=============================================================================
