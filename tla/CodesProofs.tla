----------------------------- MODULE CodesProofs -----------------------------
(***************************************************************************)
(* What Codes keeps for any devices, requests and limit of attempts: its   *)
(* types and trusted devices whatever overlaps, expires or fails; that     *)
(* codes answer for changes, and the refinement of OneTimeCodes, when      *)
(* requests with the same code wait for each other.                        *)
(***************************************************************************)
EXTENDS Codes, FiniteSetTheorems, TLAPS

JobSet == [op : Ops, key : Keys \cup {"none", "profile"}, device : Devices \cup {NoDevice}]
EntitySet == [password : Nat, verified : BOOLEAN]

\* A job is made of its parts.
LEMMA JobShape ==
  ASSUME NEW o \in Ops, NEW k \in Keys \cup {"none", "profile"},
         NEW d \in Devices \cup {NoDevice}
  PROVE  /\ Job(o, k, d) \in JobSet
         /\ Job(o, k, d).op = o /\ Job(o, k, d).key = k /\ Job(o, k, d).device = d
BY DEF Job, JobSet

LEMMA JobParts ==
  ASSUME NEW j \in JobSet
  PROVE  /\ j.op \in Ops /\ j.key \in Keys \cup {"none", "profile"}
         /\ j.device \in Devices \cup {NoDevice}
BY DEF JobSet

LEMMA NoJobShape == NoJob \in JobSet /\ NoJob.op = "none"
BY JobShape DEF NoJob, Ops

\* So is what a request read of the users row.
LEMMA EntityShape ==
  ASSUME NEW p \in Nat, NEW v \in BOOLEAN
  PROVE  /\ Entity(p, v) \in EntitySet
         /\ Entity(p, v).password = p /\ Entity(p, v).verified = v
BY DEF Entity, EntitySet

LEMMA EntityParts ==
  ASSUME NEW e \in EntitySet
  PROVE  e.password \in Nat /\ e.verified \in BOOLEAN
BY DEF EntitySet

LEMMA NoEntityShape == NoEntity \in EntitySet
BY EntityShape DEF NoEntity

-----------------------------------------------------------------------------
(* Types.  A request that is about a code has a key for it, and one that   *)
(* will trust or hand tokens to a device has a device.                     *)

Fits(here, j) ==
  /\ here \notin {"idle", "saveProfile"} => j.key \in Keys
  /\ here \in {"find", "insert", "touch", "device"} => j.device \in Devices
  /\ here \in {"attempts", "use"} /\ j.op = "confirm" => j.device \in Devices

Requests ==
  /\ pc \in [Slots -> Steps] /\ job \in [Slots -> JobSet]
  /\ raw \in [Slots -> Nat] /\ entity \in [Slots -> EntitySet]
  /\ \A s \in Slots : Fits(pc[s], job[s])
  /\ requests \in Nat /\ troubles \in Nat

Store ==
  /\ code \in [Keys -> Nat] /\ lives \in [Keys -> Nat] /\ issued \in [Keys -> Nat]
  /\ attempts \in [Keys -> Nat \cup {Absent}] /\ wrong \in [Keys -> Nat]
  /\ mailed \in [Keys -> SUBSET Nat] /\ used \in [Keys -> SUBSET Nat]

Account ==
  /\ password \in Nat /\ passwords \in Nat /\ verified \in BOOLEAN
  /\ home \in Devices \cup {NoDevice} /\ trusted \subseteq Devices
  /\ entered \subseteq Devices \cup {NoDevice}

Typed == Requests /\ Store /\ Account

LEMMA TypedTypes == Typed => TypeOK
BY DEF Typed, Requests, Store, Account, TypeOK, JobSet, EntitySet

LEMMA StartTypes ==
  ASSUME Requests, NEW s \in Slots, NEW here \in Steps, NEW j \in JobSet, NEW c \in Nat,
         NEW e \in EntitySet, Fits(here, j), Start(s, here, j, c, e)
  PROVE  Requests'
<1>1. /\ pc' \in [Slots -> Steps] /\ job' \in [Slots -> JobSet]
      /\ raw' \in [Slots -> Nat] /\ entity' \in [Slots -> EntitySet]
      /\ requests' \in Nat /\ troubles' \in Nat
  BY DEF Start, Requests
<1>2. ASSUME NEW t \in Slots PROVE Fits(pc'[t], job'[t])
  <2>1. CASE t = s
    BY <2>1 DEF Start, Requests
  <2>2. CASE t # s
    BY <2>2 DEF Start, Requests
  <2> QED
    BY <2>1, <2>2
<1> QED
  BY <1>1, <1>2 DEF Requests, Fits

LEMMA StepTypes ==
  ASSUME Requests, NEW s \in Slots, NEW here, NEW next \in Steps, NEW c \in Nat,
         NEW e \in EntitySet, Fits(next, job[s]), Step(s, here, next, c, e)
  PROVE  Requests'
<1> DEFINE j == IF next = "idle" THEN NoJob ELSE job[s]
<1>0. j \in JobSet /\ Fits(next, j)
  BY NoJobShape DEF Requests, Fits
<1>1. /\ pc' = [pc EXCEPT ![s] = next] /\ job' = [job EXCEPT ![s] = j]
      /\ raw' = [raw EXCEPT ![s] = c] /\ entity' = [entity EXCEPT ![s] = e]
      /\ UNCHANGED <<requests, troubles>>
  BY DEF Step
<1> HIDE DEF j
<1>2. /\ pc' \in [Slots -> Steps] /\ job' \in [Slots -> JobSet]
      /\ raw' \in [Slots -> Nat] /\ entity' \in [Slots -> EntitySet]
      /\ requests' \in Nat /\ troubles' \in Nat
  BY <1>0, <1>1 DEF Requests
<1>3. ASSUME NEW t \in Slots PROVE Fits(pc'[t], job'[t])
  <2>1. CASE t = s
    BY <1>0, <1>1, <2>1 DEF Requests
  <2>2. CASE t # s
    BY <1>1, <2>2 DEF Requests
  <2> QED
    BY <2>1, <2>2
<1> QED
  BY <1>2, <1>3 DEF Requests, Fits

LEMMA GotoTypes ==
  ASSUME Requests, NEW s \in Slots, NEW here, NEW next \in Steps,
         Fits(next, job[s]), Goto(s, here, next)
  PROVE  Requests'
BY StepTypes, NoEntityShape, 0 \in Nat DEF Goto

\* A request that was at here fits it.
LEMMA HereFits ==
  ASSUME Requests, NEW s \in Slots
  PROVE  job[s] \in JobSet /\ Fits(pc[s], job[s])
BY DEF Requests

\* The requests that come in.
LEMMA TypeStarts ==
  ASSUME Typed, NEW s \in Slots,
         \/ \E d \in Devices : Login(s, d) \/ ResendDeviceCode(s, d) \/ ConfirmDevice(s, d)
         \/ \E d \in Devices \cup {NoDevice} : Register(s, d)
         \/ LoginUnnamed(s) \/ ForgotPassword(s) \/ ResendVerification(s)
         \/ VerifyEmail(s) \/ ResetPassword(s) \/ UpdateProfile(s)
  PROVE  Typed'
<1> USE DEF store, codes, row, doors
<1>0. 0 \in Nat /\ NoEntity \in EntitySet /\ {"signup", "reset"} \cup Devices \subseteq Keys
  BY NoEntityShape DEF Keys
<1>1. ASSUME NEW o \in Ops, NEW k \in Keys, NEW d \in Devices \cup {NoDevice},
             NEW here \in Steps, NEW c \in Nat, NEW e \in EntitySet,
             Start(s, here, Job(o, k, d), c, e), Fits(here, Job(o, k, d)),
             UNCHANGED <<store, codes, row, doors>>
      PROVE  Typed'
  <2>1. Requests'
    BY <1>1, JobShape, StartTypes DEF Typed
  <2>2. Store' /\ Account'
    BY <1>1 DEF Typed, Store, Account
  <2> QED
    BY <2>1, <2>2 DEF Typed
<1>2. ASSUME NEW o \in Ops, NEW k \in Keys, NEW d \in Devices \cup {NoDevice}
      PROVE  /\ Fits("issue", Job(o, k, d)) /\ Fits("peek", Job(o, k, d))
             /\ Fits("create", Job(o, k, d))
             /\ d \in Devices => Fits("device", Job(o, k, d))
             /\ d \in Devices \/ o # "confirm" => Fits("attempts", Job(o, k, d))
  BY JobShape DEF Fits
<1>3. ASSUME NEW o \in Ops, NEW k \in Keys, NEW d \in Devices \cup {NoDevice},
             NEW c \in mailed[k] \cup {0}, d \in Devices \/ o # "confirm", Submit(s, o, k, d, c)
      PROVE  Typed'
  <2>1. c \in Nat /\ code[k] \in Nat
    BY <1>0 DEF Typed, Store
  <2>2. Entity(c, FALSE) \in EntitySet
    BY <2>1, EntityShape
  <2> QED
    BY <1>1, <1>2, <1>3, <2>1, <2>2 DEF Submit, Steps
<1>4. ASSUME NEW d \in Devices, Login(s, d) \/ ResendDeviceCode(s, d) PROVE Typed'
  <2>0. /\ {"login", "resend"} \subseteq Ops /\ {"device", "peek"} \subseteq Steps
        /\ d \in Keys /\ d \in Devices \cup {NoDevice}
    BY <1>0 DEF Ops, Steps
  <2>1. Fits("device", Job("login", d, d)) /\ Fits("peek", Job("resend", d, d))
    BY <1>2, <2>0
  <2>2. CASE Login(s, d)
    <3>1. /\ Start(s, "device", Job("login", d, d), 0, NoEntity)
          /\ UNCHANGED <<store, codes, row, doors>>
      BY <2>2 DEF Login
    <3> QED
      BY <1>0, <1>1, <2>0, <2>1, <3>1
  <2>3. CASE ResendDeviceCode(s, d)
    <3>1. /\ Start(s, "peek", Job("resend", d, d), 0, NoEntity)
          /\ UNCHANGED <<store, codes, row, doors>>
      BY <2>3 DEF ResendDeviceCode
    <3> QED
      BY <1>0, <1>1, <2>0, <2>1, <3>1
  <2> QED
    BY <1>4, <2>2, <2>3
<1>5. ASSUME NEW d \in Devices, ConfirmDevice(s, d) PROVE Typed'
  BY <1>0, <1>3, <1>5 DEF ConfirmDevice, Submittable, Ops
<1>6. ASSUME NEW d \in Devices \cup {NoDevice}, Register(s, d) PROVE Typed'
  <2>1. /\ Start(s, "create", Job("register", "signup", d), 0, NoEntity)
        /\ UNCHANGED <<store, codes, row, doors>>
    BY <1>6 DEF Register
  <2>2. "register" \in Ops /\ "signup" \in Keys /\ "create" \in Steps
    BY <1>0 DEF Ops, Steps
  <2>3. Fits("create", Job("register", "signup", d))
    BY <1>2, <2>2
  <2> QED
    BY <1>0, <1>1, <2>1, <2>2, <2>3
<1>7. CASE ForgotPassword(s) \/ ResendVerification(s)
  <2>0. /\ {"forgot", "resend"} \subseteq Ops /\ "issue" \in Steps
        /\ {"signup", "reset"} \subseteq Keys /\ NoDevice \in Devices \cup {NoDevice}
    BY <1>0 DEF Ops, Steps
  <2>1. /\ Fits("issue", Job("forgot", "reset", NoDevice))
        /\ Fits("issue", Job("resend", "signup", NoDevice))
    BY <1>2, <2>0
  <2>2. CASE ForgotPassword(s)
    <3>1. /\ Start(s, "issue", Job("forgot", "reset", NoDevice), 0, NoEntity)
          /\ UNCHANGED <<store, codes, row, doors>>
      BY <2>2 DEF ForgotPassword
    <3> QED
      BY <1>0, <1>1, <2>0, <2>1, <3>1
  <2>3. CASE ResendVerification(s)
    <3>1. /\ Start(s, "issue", Job("resend", "signup", NoDevice), 0, NoEntity)
          /\ UNCHANGED <<store, codes, row, doors>>
      BY <2>3 DEF ResendVerification
    <3> QED
      BY <1>0, <1>1, <2>0, <2>1, <3>1
  <2> QED
    BY <1>7, <2>2, <2>3
<1>8. CASE VerifyEmail(s) \/ ResetPassword(s)
  BY <1>0, <1>3, <1>8 DEF VerifyEmail, ResetPassword, Submittable, Ops
<1>9. CASE UpdateProfile(s)
  <2> DEFINE j == Job("profile", "profile", NoDevice)
  <2>1. j \in JobSet /\ Fits("saveProfile", j)
    BY JobShape DEF Fits, Ops
  <2>2. Entity(password, verified) \in EntitySet
    BY EntityShape DEF Typed, Account
  <2>3. Start(s, "saveProfile", j, 0, Entity(password, verified))
    BY <1>9 DEF UpdateProfile
  <2> HIDE DEF j
  <2>4. Requests'
    BY <1>0, <2>1, <2>2, <2>3, StartTypes DEF Typed, Steps
  <2>5. Store' /\ Account'
    BY <1>9 DEF UpdateProfile, Typed, Store, Account
  <2> QED
    BY <2>4, <2>5 DEF Typed
<1>10. CASE LoginUnnamed(s)
  <2>0. /\ "login" \in Ops /\ "issue" \in Steps /\ Unknown \in Keys
        /\ NoDevice \in Devices \cup {NoDevice}
    BY <1>0, CodesAssumption DEF Ops, Steps
  <2>1. Fits("issue", Job("login", Unknown, NoDevice))
    BY <1>2, <2>0
  <2>2. /\ Start(s, "issue", Job("login", Unknown, NoDevice), 0, NoEntity)
        /\ UNCHANGED <<store, codes, row, doors>>
    BY <1>10 DEF LoginUnnamed
  <2> QED
    BY <1>0, <1>1, <2>0, <2>1, <2>2
<1> QED
  BY <1>4, <1>5, <1>6, <1>7, <1>8, <1>9, <1>10

\* Issuing and mailing a code.
LEMMA TypeIssue ==
  ASSUME Typed, NEW s \in Slots, Peek(s) \/ SetCode(s) \/ SetAttempts(s) \/ Mail(s)
  PROVE  Typed'
<1> USE DEF store, codes, row, doors
<1>0. /\ 0 \in Nat /\ NoEntity \in EntitySet /\ Requests
      /\ job[s] \in JobSet /\ Fits(pc[s], job[s]) /\ raw[s] \in Nat
  BY NoEntityShape, HereFits DEF Typed, Requests
<1>1. CASE Peek(s)
  <2>1. ASSUME NEW next \in {"idle", "issue"}, Goto(s, "peek", next) PROVE Requests'
    BY <1>0, <2>1, GotoTypes DEF Goto, Step, Fits, Steps
  <2>2. Requests'
    <3>1. CASE code[job[s].key] = 0
      BY <1>1, <2>1, <3>1, Zenon DEF Peek
    <3>2. CASE code[job[s].key] # 0
      BY <1>1, <2>1, <3>2, Zenon DEF Peek
    <3> QED
      BY <3>1, <3>2
  <2> QED
    BY <1>1, <2>2 DEF Peek, Typed, Store, Account
<1>2. CASE SetCode(s)
  <2>1. pc[s] = "issue" /\ job[s].key \in Keys
    BY <1>0, <1>2 DEF SetCode, Step, Fits
  <2>2. issued[job[s].key] + 1 \in Nat
    BY <2>1 DEF Typed, Store
  <2>3. Requests'
    BY <1>0, <1>2, <2>1, <2>2, StepTypes DEF SetCode, Fits, Steps
  <2>4. Store' /\ Account'
    BY <1>2, <2>2 DEF SetCode, Typed, Store, Account
  <2> QED
    BY <2>3, <2>4 DEF Typed
<1>3. CASE SetAttempts(s)
  <2>1. pc[s] = "counter" /\ job[s].key \in Keys
    BY <1>0, <1>3 DEF SetAttempts, Step, Fits
  <2>2. Requests'
    BY <1>0, <1>3, <2>1, StepTypes DEF SetAttempts, Fits, Steps
  <2>3. Store' /\ Account'
    BY <1>0, <1>3 DEF SetAttempts, Typed, Store, Account
  <2> QED
    BY <2>2, <2>3 DEF Typed
<1>4. CASE Mail(s)
  <2>1. Requests'
    BY <1>0, <1>4, GotoTypes DEF Mail, Fits, Steps
  <2>2. mailed' \in [Keys -> SUBSET Nat]
    <3>1. mailed \in [Keys -> SUBSET Nat]
      BY DEF Typed, Store
    <3>2. \A k \in Keys : mailed[k] \cup {raw[s]} \in SUBSET Nat
      BY <1>0, <3>1
    <3> QED
      BY <1>4, <3>1, <3>2 DEF Mail
  <2>3. entered' \subseteq Devices \cup {NoDevice}
    <3>1. job[s].device \in Devices \cup {NoDevice}
      BY <1>0, JobParts
    <3> QED
      BY <1>4, <3>1 DEF Mail, Typed, Account
  <2>4. Store' /\ Account'
    BY <1>4, <2>2, <2>3 DEF Mail, Typed, Store, Account
  <2> QED
    BY <2>1, <2>4 DEF Typed
<1> QED
  BY <1>1, <1>2, <1>3, <1>4

\* Verifying one.
LEMMA TypeVerify ==
  ASSUME Typed, NEW s \in Slots, GetAttempts(s) \/ DropCode(s) \/ CountMiss(s) \/ UseCode(s)
  PROVE  Typed'
<1> USE DEF store, codes, row, doors
<1>0. /\ 0 \in Nat /\ NoEntity \in EntitySet /\ Requests /\ Absent \in Int
      /\ job[s] \in JobSet /\ Fits(pc[s], job[s]) /\ raw[s] \in Nat
  BY NoEntityShape, HereFits DEF Typed, Requests, Absent
<1>1. CASE GetAttempts(s)
  <2>1. ASSUME NEW next \in {"drop", "use", "miss"}, Step(s, "attempts", next, raw[s], NoEntity)
        PROVE  Requests'
    <3>1. pc[s] = "attempts"
      BY <2>1 DEF Step
    <3>2. Fits(next, job[s]) /\ next \in Steps
      BY <1>0, <3>1 DEF Fits, Steps
    <3> QED
      BY <1>0, <2>1, <3>2, StepTypes
  <2>2. Requests'
    <3>1. CASE TooMany(attempts[job[s].key])
      BY <1>1, <2>1, <3>1, Zenon DEF GetAttempts
    <3>2. CASE ~TooMany(attempts[job[s].key]) /\ entity[s].password = raw[s]
      BY <1>1, <2>1, <3>2, Zenon DEF GetAttempts
    <3>3. CASE ~TooMany(attempts[job[s].key]) /\ entity[s].password # raw[s]
      BY <1>1, <2>1, <3>3, Zenon DEF GetAttempts
    <3> QED
      BY <3>1, <3>2, <3>3
  <2>3. Store' /\ Account'
    BY <1>1, Zenon DEF GetAttempts, Typed, Store, Account
  <2> QED
    BY <2>2, <2>3 DEF Typed
<1>2. CASE DropCode(s)
  <2>1. Requests'
    BY <1>0, <1>2, GotoTypes DEF DropCode, Fits, Steps
  <2>2. Store' /\ Account'
    BY <1>0, <1>2 DEF DropCode, Deleted, Typed, Store, Account
  <2> QED
    BY <2>1, <2>2 DEF Typed
<1>3. CASE CountMiss(s)
  <2>1. Requests'
    BY <1>0, <1>3, GotoTypes DEF CountMiss, Fits, Steps
  <2>2. pc[s] = "miss" /\ job[s].key \in Keys
    BY <1>0, <1>3 DEF CountMiss, Goto, Step, Fits
  <2> DEFINE k == job[s].key
             n == IF attempts[k] = Absent THEN 1 ELSE attempts[k] + 1
  <2>3. n \in Nat \cup {Absent} /\ wrong[k] + 1 \in Nat
    BY <2>2 DEF Typed, Store, Absent
  <2>4. attempts' = [attempts EXCEPT ![k] = n] /\ wrong' = [wrong EXCEPT ![k] = wrong[k] + 1]
    BY <1>3 DEF CountMiss
  <2>5. UNCHANGED <<code, lives, issued, mailed, used, row, doors>>
    BY <1>3 DEF CountMiss
  <2> HIDE DEF k, n
  <2>6. Store' /\ Account'
    BY <2>3, <2>4, <2>5 DEF Typed, Store, Account
  <2> QED
    BY <2>1, <2>6 DEF Typed
<1>4. CASE UseCode(s)
  <2> DEFINE j == job[s]
             e == IF j.op = "reset" THEN Entity(passwords + 1, FALSE) ELSE NoEntity
  <2>1. pc[s] = "use" /\ Step(s, "use", After(j.op), 0, e)
    BY <1>4 DEF UseCode
  <2>2. Fits(After(j.op), j) /\ After(j.op) \in Steps
    BY <1>0, <2>1 DEF Fits, After, Steps
  <2>3. passwords + 1 \in Nat
    BY DEF Typed, Account
  <2>4. e \in EntitySet
    BY <1>0, <2>3, EntityShape
  <2>5. passwords' \in Nat
    BY <1>4, <2>3 DEF UseCode, Typed, Account
  <2>6. used' \in [Keys -> SUBSET Nat]
    <3>1. used \in [Keys -> SUBSET Nat] /\ used' = [used EXCEPT ![j.key] = @ \cup {raw[s]}]
      BY <1>4 DEF UseCode, Typed, Store
    <3>2. \A k \in Keys : used[k] \cup {raw[s]} \in SUBSET Nat
      BY <1>0, <3>1
    <3> QED
      BY <3>1, <3>2
  <2>7. Store' /\ Account'
    BY <1>0, <1>4, <2>5, <2>6 DEF UseCode, Deleted, Typed, Store, Account
  <2> HIDE DEF j, e
  <2>8. Requests'
    BY <1>0, <2>1, <2>2, <2>4, StepTypes DEF j
  <2> QED
    BY <2>7, <2>8 DEF Typed
<1> QED
  BY <1>1, <1>2, <1>3, <1>4

\* The account, its devices and its row.
LEMMA TypeAccount ==
  ASSUME Typed, NEW s \in Slots,
         \/ CreateUser(s) \/ FindDevice(s) \/ InsertDevice(s) \/ TouchDevice(s) \/ CheckDevice(s)
         \/ SetVerified(s) \/ SetPassword(s) \/ SaveProfile(s)
  PROVE  Typed'
<1> USE DEF store, codes, row, doors
<1>0. /\ Requests /\ job[s] \in JobSet /\ Fits(pc[s], job[s]) /\ entity[s] \in EntitySet
      /\ job[s].device \in Devices \cup {NoDevice}
  BY HereFits, JobParts DEF Typed, Requests
<1>1. ASSUME NEW here \in Steps \ {"idle", "saveProfile"}, NEW next \in Steps,
             Goto(s, here, next), next \in {"find", "insert", "touch"} => job[s].device \in Devices,
             next \notin {"device", "attempts", "use"}
      PROVE  Requests'
  <2>1. Fits(next, job[s])
    BY <1>0, <1>1 DEF Goto, Step, Fits
  <2> QED
    BY <1>0, <1>1, <2>1, GotoTypes
<1>2. CASE CreateUser(s)
  <2>1. Requests'
    <3>1. CASE Goto(s, "create", "idle")
      BY <1>1, <3>1 DEF Steps
    <3>2. CASE Goto(s, "create", IF Named(job[s].device) THEN "find" ELSE "issue")
      <4>1. CASE Named(job[s].device)
        <5>1. job[s].device \in Devices
          BY <1>0, <4>1 DEF Named
        <5>2. Goto(s, "create", "find")
          BY <3>2, <4>1, Zenon
        <5> QED
          BY <1>1, <5>1, <5>2 DEF Steps
      <4>2. CASE ~Named(job[s].device)
        <5>1. Goto(s, "create", "issue")
          BY <3>2, <4>2, Zenon
        <5> QED
          BY <1>1, <5>1 DEF Steps
      <4> QED
        BY <4>1, <4>2
    <3> QED
      BY <1>2, <3>1, <3>2, Zenon DEF CreateUser
  <2>2. /\ password' \in Nat /\ passwords' \in Nat /\ home' \in Devices \cup {NoDevice}
        /\ UNCHANGED <<store, codes, verified, trusted, entered>>
    BY <1>0, <1>2 DEF CreateUser, Typed, Account
  <2> QED
    BY <2>1, <2>2 DEF Typed, Store, Account
<1>3. CASE FindDevice(s)
  <2>1. pc[s] = "find" /\ job[s].device \in Devices
    BY <1>0, <1>3 DEF FindDevice, Goto, Step, Fits
  <2>2. ASSUME NEW next \in {"touch", "insert"}, Goto(s, "find", next) PROVE Requests'
    BY <1>1, <2>1, <2>2 DEF Steps
  <2>3. Requests'
    <3>1. CASE job[s].device \in trusted
      BY <1>3, <2>2, <3>1, Zenon DEF FindDevice
    <3>2. CASE job[s].device \notin trusted
      BY <1>3, <2>2, <3>2, Zenon DEF FindDevice
    <3> QED
      BY <3>1, <3>2
  <2> QED
    BY <1>3, <2>3, Zenon DEF FindDevice, Typed, Store, Account
<1>4. ASSUME NEW here \in {"insert", "touch"}, TrustedNow(s, here)
      PROVE  /\ Requests' /\ entered' \subseteq Devices \cup {NoDevice}
             /\ job[s].device \in Devices
  <2>1. pc[s] = here /\ job[s].device \in Devices
    BY <1>0, <1>4 DEF TrustedNow, Fits
  <2>2. ASSUME NEW next \in {"issue", "idle"}, Goto(s, here, next) PROVE Requests'
    BY <1>1, <2>1, <2>2 DEF Steps
  <2>3. CASE job[s].op = "register"
    <3>1. Goto(s, here, "issue") /\ UNCHANGED entered
      BY <1>4, <2>3, Zenon DEF TrustedNow
    <3> QED
      BY <2>1, <2>2, <3>1 DEF Typed, Account
  <2>4. CASE job[s].op # "register"
    <3>1. Goto(s, here, "idle") /\ Enter(job[s].device)
      BY <1>4, <2>4, Zenon DEF TrustedNow
    <3> QED
      BY <2>1, <2>2, <3>1 DEF Typed, Account, Enter
  <2> QED
    BY <2>3, <2>4
<1>5. CASE InsertDevice(s)
  <2>1. CASE TrustedNow(s, "insert") /\ trusted' = trusted \cup {job[s].device}
    BY <1>4, <1>5, <2>1 DEF InsertDevice, Typed, Store, Account
  <2>2. CASE Goto(s, "insert", "idle") /\ UNCHANGED <<trusted, entered>>
    BY <1>1, <1>5, <2>2 DEF InsertDevice, Typed, Store, Account, Steps
  <2> QED
    BY <1>5, <2>1, <2>2 DEF InsertDevice
<1>6. CASE TouchDevice(s)
  BY <1>4, <1>6 DEF TouchDevice, Typed, Store, Account
<1>7. CASE CheckDevice(s)
  <2>1. pc[s] = "device" /\ job[s].device \in Devices
    BY <1>0, <1>7 DEF CheckDevice, Goto, Step, Fits
  <2>2. ASSUME NEW next \in {"touch", "issue"}, Goto(s, "device", next) PROVE Requests'
    BY <1>1, <2>1, <2>2 DEF Steps
  <2>3. Requests'
    <3>1. CASE Known(job[s].device)
      BY <1>7, <2>2, <3>1, Zenon DEF CheckDevice
    <3>2. CASE ~Known(job[s].device)
      BY <1>7, <2>2, <3>2, Zenon DEF CheckDevice
    <3> QED
      BY <3>1, <3>2
  <2> QED
    BY <1>7, <2>3, Zenon DEF CheckDevice, Typed, Store, Account
<1>8. CASE SetVerified(s)
  BY <1>1, <1>8 DEF SetVerified, Typed, Store, Account, Steps
<1>9. CASE SetPassword(s)
  <2>1. entity[s].password \in Nat /\ verified \in BOOLEAN
    BY <1>0, EntityParts DEF Typed, Account
  <2> QED
    BY <1>1, <1>9, <2>1 DEF SetPassword, Typed, Store, Account, Steps
<1>10. CASE SaveProfile(s)
  <2>1. Requests'
    BY <1>0, <1>10, GotoTypes DEF SaveProfile, Fits, Steps
  <2>2. entity[s].password \in Nat /\ entity[s].verified \in BOOLEAN
    BY <1>0, EntityParts
  <2> QED
    BY <1>10, <2>1, <2>2 DEF SaveProfile, Typed, Store, Account
<1> QED
  BY <1>2, <1>3, <1>5, <1>6, <1>7, <1>8, <1>9, <1>10

\* A code or a counter that expires.
LEMMA TypeExpire ==
  ASSUME Typed, NEW k \in Keys, Expire(k) \/ ExpireAttempts(k)
  PROVE  Typed'
<1>1. Requests'
  BY DEF Expire, ExpireAttempts, Typed, Requests, Fits
<1>2. Store' /\ Account'
  BY DEF Expire, ExpireAttempts, Typed, Store, Account, store, codes, row, doors
<1> QED
  BY <1>1, <1>2 DEF Typed

\* A crash, or a statement that fails.
LEMMA TypeTrouble ==
  ASSUME Typed, Crash \/ \E s \in Slots : StatementFails(s)
  PROVE  Typed'
<1> USE DEF store, codes, row, doors
<1>0. /\ NoJob \in JobSet /\ NoEntity \in EntitySet /\ "idle" \in Steps /\ 0 \in Nat
      /\ Requests /\ troubles + 1 \in Nat /\ Fits("idle", NoJob)
  BY NoJobShape, NoEntityShape DEF Steps, Typed, Requests, Fits
<1>1. CASE Crash
  <2>1. Requests'
    BY <1>0, <1>1 DEF Crash, Requests, Fits
  <2> QED
    BY <1>1, <2>1 DEF Crash, Typed, Store, Account
<1>2. ASSUME NEW s \in Slots, StatementFails(s) PROVE Typed'
  <2>1. Requests'
    <3>1. /\ pc' \in [Slots -> Steps] /\ job' \in [Slots -> JobSet]
          /\ raw' \in [Slots -> Nat] /\ entity' \in [Slots -> EntitySet]
          /\ requests' \in Nat /\ troubles' \in Nat
      BY <1>0, <1>2 DEF StatementFails, Requests
    <3>2. ASSUME NEW t \in Slots PROVE Fits(pc'[t], job'[t])
      <4>1. CASE t = s
        BY <1>0, <1>2, <4>1 DEF StatementFails, Requests
      <4>2. CASE t # s
        BY <1>0, <1>2, <4>2 DEF StatementFails, Requests
      <4> QED
        BY <4>1, <4>2
    <3> QED
      BY <3>1, <3>2 DEF Requests, Fits
  <2>2. entered' \subseteq Devices \cup {NoDevice}
    <3>1. job[s].device \in Devices \cup {NoDevice}
      BY HereFits, JobParts DEF Typed
    <3> QED
      BY <1>2, <3>1 DEF StatementFails, Typed, Account
  <2> QED
    BY <1>2, <2>1, <2>2 DEF StatementFails, Typed, Store, Account
<1> QED
  BY <1>1, <1>2

LEMMA TypeInit == Init => Typed
<1>1. /\ NoJob \in JobSet /\ NoEntity \in EntitySet /\ 0 \in Nat /\ {} \in SUBSET Nat
      /\ Absent \in Nat \cup {Absent} /\ "idle" \in Steps
  BY NoJobShape, NoEntityShape DEF Steps
<1>2. Init => Requests
  BY <1>1 DEF Init, Requests, Fits
<1>3. Init => Store
  <2>1. Init => attempts \in [Keys -> Nat \cup {Absent}]
    BY <1>1, Zenon DEF Init
  <2>2. Init => mailed \in [Keys -> SUBSET Nat] /\ used \in [Keys -> SUBSET Nat]
    BY <1>1 DEF Init
  <2>3. Init => /\ code \in [Keys -> Nat] /\ lives \in [Keys -> Nat]
                /\ issued \in [Keys -> Nat] /\ wrong \in [Keys -> Nat]
    BY <1>1 DEF Init
  <2> QED
    BY <2>1, <2>2, <2>3 DEF Store
<1>4. Init => Account
  BY <1>1, Zenon DEF Init, Account
<1> QED
  BY <1>2, <1>3, <1>4, Zenon DEF Typed

LEMMA TypeNext == Typed /\ [Next]_vars => Typed'
<1>1. ASSUME Typed, UNCHANGED vars PROVE Typed'
  BY <1>1 DEF vars, store, codes, row, doors, Typed, Requests, Store, Account, Fits
<1>2. ASSUME Typed, NEW k \in Keys, Expire(k) \/ ExpireAttempts(k) PROVE Typed'
  BY <1>2, TypeExpire
<1>3. ASSUME Typed, Crash \/ \E s \in Slots : StatementFails(s) PROVE Typed'
  BY <1>3, TypeTrouble
<1>4. ASSUME Typed, NEW s \in Slots,
             \/ \E d \in Devices : Login(s, d) \/ ResendDeviceCode(s, d) \/ ConfirmDevice(s, d)
             \/ \E d \in Devices \cup {NoDevice} : Register(s, d)
             \/ LoginUnnamed(s) \/ ForgotPassword(s) \/ ResendVerification(s)
             \/ VerifyEmail(s) \/ ResetPassword(s) \/ UpdateProfile(s)
      PROVE  Typed'
  BY <1>4, TypeStarts
<1>5. ASSUME Typed, NEW s \in Slots,
             \/ Peek(s) \/ SetCode(s) \/ SetAttempts(s) \/ Mail(s)
             \/ GetAttempts(s) \/ DropCode(s) \/ CountMiss(s) \/ UseCode(s)
             \/ CreateUser(s) \/ FindDevice(s) \/ InsertDevice(s) \/ TouchDevice(s)
             \/ CheckDevice(s) \/ SetVerified(s) \/ SetPassword(s) \/ SaveProfile(s)
      PROVE  Typed'
  BY <1>5, TypeIssue, TypeVerify, TypeAccount
<1> QED
  BY <1>1, <1>2, <1>3, <1>4, <1>5 DEF Next

\* Every variable stays in its domain, whatever overlaps, expires or fails.
THEOREM TypeCorrect == Spec => []TypeOK
BY TypeInit, TypeNext, TypedTypes, PTL DEF Spec

-----------------------------------------------------------------------------
(* Devices.  What a request at each step has been cleared for: a device    *)
(* being trusted is the one of the registration or one whose code came     *)
(* back, one that is about to be handed tokens is trusted.                 *)

Welcome(d) == d \in trusted \/ (d = NoDevice /\ home = NoDevice)

Cleared(here, j, c, e) ==
  /\ here \in {"find", "insert"} /\ j.op = "register" => j.device = home
  /\ here \in {"find", "insert"} /\ j.op # "register" =>
       used[j.device] \cap mailed[j.device] # {}
  /\ here = "touch" => j.device \in trusted
  /\ here \in {"issue", "counter", "mail"} /\ j.op = "register" => Welcome(j.device)
  /\ here \in {"find", "insert", "touch", "issue", "counter", "mail"} /\ j.op = "register" =>
       password # 0
  /\ here = "attempts" => c # 0 /\ e.password \in mailed[j.key] \cup {0}
  /\ here = "use" => c \in mailed[j.key]
  /\ here \in {"attempts", "use"} /\ j.op = "confirm" => j.key = j.device
  /\ here \in {"saveProfile", "setPassword"} => e.password # 0
  /\ here \in {"peek", "device"} => j.op # "register"
  /\ here = "create" => j.op = "register"

Admitted ==
  /\ \A d \in entered : Welcome(d)
  /\ \A d \in trusted : d = home \/ used[d] \cap mailed[d] # {}
  /\ password = 0 => home = NoDevice /\ NoDevice \notin entered
  /\ \A s \in Slots : Cleared(pc[s], job[s], raw[s], entity[s])

\* What most steps do to what requests are cleared by.
Grows ==
  /\ trusted \subseteq trusted' /\ home' = home
  /\ \A k \in Keys : used[k] \subseteq used'[k] /\ mailed[k] \subseteq mailed'[k]

Others(s) ==
  \A t \in Slots : t # s =>
    pc'[t] = pc[t] /\ job'[t] = job[t] /\ raw'[t] = raw[t] /\ entity'[t] = entity[t]

\* It leaves them cleared.
LEMMA StillCleared ==
  ASSUME Grows, password' = password \/ password' # 0,
         NEW here, NEW j, NEW c, NEW e, Fits(here, j), Cleared(here, j, c, e)
  PROVE  Cleared(here, j, c, e)'
<1>1. here \in {"find", "insert"} => j.device \in Keys
  BY DEF Fits, Keys
<1>2. here \in {"attempts", "use"} => j.key \in Keys
  BY DEF Fits
<1>3. Welcome(j.device) => Welcome(j.device)'
  BY DEF Grows, Welcome
<1>4. \A k \in Keys : used[k] \cap mailed[k] # {} => used'[k] \cap mailed'[k] # {}
  BY DEF Grows
<1>5. /\ here \in {"issue", "counter", "mail"} /\ j.op = "register" => Welcome(j.device)'
      /\ here \in {"find", "insert"} /\ j.op # "register" =>
           used'[j.device] \cap mailed'[j.device] # {}
  BY <1>1, <1>3, <1>4 DEF Cleared
<1>6. /\ here = "attempts" => c # 0 /\ e.password \in mailed'[j.key] \cup {0}
      /\ here = "use" => c \in mailed'[j.key]
  BY <1>2 DEF Cleared, Grows
<1>7. /\ here \in {"find", "insert"} /\ j.op = "register" => j.device = home'
      /\ here = "touch" => j.device \in trusted'
      /\ here \in {"find", "insert", "touch", "issue", "counter", "mail"} /\ j.op = "register" =>
           password' # 0
  BY DEF Cleared, Grows
<1> QED
  BY <1>5, <1>6, <1>7 DEF Cleared

\* A step of s that leaves devices, and a password that is set, alone.
LEMMA AdmittedQuiet ==
  ASSUME Typed, Admitted, Grows, UNCHANGED <<trusted, entered>>,
         password' = password \/ password' # 0, NEW s \in Slots, Others(s),
         Cleared(pc[s], job[s], raw[s], entity[s])'
  PROVE  Admitted'
<1>1. \A d \in trusted' : d = home' \/ used'[d] \cap mailed'[d] # {}
  BY DEF Admitted, Grows, Typed, Account, Keys
<1>2. ASSUME NEW t \in Slots PROVE Cleared(pc[t], job[t], raw[t], entity[t])'
  <2>1. CASE t = s
    BY <2>1
  <2>2. CASE t # s
    <3>1. Fits(pc[t], job[t]) /\ Cleared(pc[t], job[t], raw[t], entity[t])
      BY DEF Typed, Requests, Admitted
    <3>2. /\ pc'[t] = pc[t] /\ job'[t] = job[t] /\ raw'[t] = raw[t]
          /\ entity'[t] = entity[t]
      BY <2>2 DEF Others
    <3>3. PICK here, j, c, e : here = pc[t] /\ j = job[t] /\ c = raw[t] /\ e = entity[t]
      OBVIOUS
    <3>4. Cleared(here, j, c, e)'
      BY <3>1, <3>3, StillCleared
    <3> QED
      BY <3>2, <3>3, <3>4 DEF Cleared
  <2> QED
    BY <2>1, <2>2
<1> QED
  BY <1>1, <1>2 DEF Admitted, Grows, Welcome

\* Where Start and Step leave the requests.
LEMMA Places ==
  ASSUME Typed, NEW s \in Slots
  PROVE  /\ \A here, j, c, e : Start(s, here, j, c, e) =>
              /\ pc'[s] = here /\ job'[s] = j /\ raw'[s] = c /\ entity'[s] = e /\ Others(s)
         /\ \A here, next, c, e : Step(s, here, next, c, e) =>
              /\ pc[s] = here /\ pc'[s] = next /\ (next # "idle" => job'[s] = job[s])
              /\ raw'[s] = c /\ entity'[s] = e /\ Others(s)
BY DEF Typed, Requests, Start, Step, Others

\* Steps after which nothing needs clearing.
Free == {"idle", "drop", "miss", "verify"}

LEMMA AdmittedFree ==
  ASSUME Typed, Admitted, Grows, UNCHANGED <<trusted, entered>>,
         password' = password \/ password' # 0, NEW s \in Slots, Others(s), pc'[s] \in Free
  PROVE  Admitted'
<1>1. Cleared(pc[s], job[s], raw[s], entity[s])'
  BY DEF Free, Cleared
<1> QED
  BY <1>1, AdmittedQuiet

\* The requests that come in.
LEMMA AdmittedStarts ==
  ASSUME Typed, Admitted, NEW s \in Slots,
         \/ \E d \in Devices : Login(s, d) \/ ResendDeviceCode(s, d) \/ ConfirmDevice(s, d)
         \/ \E d \in Devices \cup {NoDevice} : Register(s, d)
         \/ LoginUnnamed(s) \/ ForgotPassword(s) \/ ResendVerification(s)
         \/ VerifyEmail(s) \/ ResetPassword(s) \/ UpdateProfile(s)
  PROVE  Admitted'
<1> USE DEF store, codes, row, doors
<1>0. {"signup", "reset"} \cup Devices \subseteq Keys
  BY DEF Keys
<1>1. ASSUME NEW here, NEW j, NEW c, NEW e, Start(s, here, j, c, e), Cleared(here, j, c, e),
             UNCHANGED <<store, codes, row, doors>>
      PROVE  Admitted'
  <2>1. Grows
    BY <1>1 DEF Grows
  <2>2. pc'[s] = here /\ job'[s] = j /\ raw'[s] = c /\ entity'[s] = e /\ Others(s)
    BY <1>1, Places
  <2>3. Cleared(pc[s], job[s], raw[s], entity[s])'
    BY <1>1, <2>2 DEF Cleared, Welcome
  <2> QED
    BY <1>1, <2>1, <2>2, <2>3, AdmittedQuiet
<1>2. ASSUME NEW o \in Ops \ {"register"}, NEW k \in Keys, NEW d \in Devices \cup {NoDevice},
             NEW here \in {"issue", "peek", "device"}
      PROVE  Cleared(here, Job(o, k, d), 0, NoEntity)
  BY <1>2, JobShape DEF Cleared
<1>3. ASSUME NEW o \in Ops, NEW k \in Keys, NEW d \in Devices \cup {NoDevice},
             NEW c \in mailed[k] \cup {0}, o # "confirm" \/ k = d, Submit(s, o, k, d, c)
      PROVE  Admitted'
  <2>1. /\ Start(s, "attempts", Job(o, k, d), code[k], Entity(c, FALSE)) /\ code[k] # 0
        /\ UNCHANGED <<store, codes, row, doors>>
    BY <1>3 DEF Submit
  <2>2. c \in Nat
    BY DEF Typed, Store
  <2> DEFINE j == Job(o, k, d)  e == Entity(c, FALSE)
  <2>3. j.op = o /\ j.key = k /\ j.device = d
    BY JobShape
  <2>4. e.password = c
    BY <2>2, EntityShape
  <2> HIDE DEF j, e
  <2>5. Cleared("attempts", j, code[k], e)
    BY <1>3, <2>1, <2>3, <2>4 DEF Cleared
  <2> QED
    BY <1>1, <2>1, <2>5 DEF j, e
<1>4. ASSUME NEW d \in Devices, Login(s, d) \/ ResendDeviceCode(s, d) PROVE Admitted'
  BY <1>0, <1>1, <1>2, <1>4 DEF Login, ResendDeviceCode, Ops
<1>5. ASSUME NEW d \in Devices, ConfirmDevice(s, d) PROVE Admitted'
  BY <1>0, <1>3, <1>5 DEF ConfirmDevice, Submittable, Ops
<1>6. ASSUME NEW d \in Devices \cup {NoDevice}, Register(s, d) PROVE Admitted'
  <2>1. Start(s, "create", Job("register", "signup", d), 0, NoEntity)
    BY <1>6 DEF Register
  <2>2. UNCHANGED <<store, codes, row, doors>>
    BY <1>6 DEF Register
  <2>3. Cleared("create", Job("register", "signup", d), 0, NoEntity)
    <3>0. "register" \in Ops /\ "signup" \in Keys \cup {"none", "profile"}
      BY <1>0 DEF Ops
    <3>1. Job("register", "signup", d).op = "register"
      BY <3>0, JobShape
    <3> QED
      BY <3>1 DEF Cleared
  <2> QED
    BY <1>1, <2>1, <2>2, <2>3
<1>7. CASE LoginUnnamed(s) \/ ForgotPassword(s) \/ ResendVerification(s)
  <2>1. UNCHANGED <<store, codes, row, doors>>
    BY <1>7 DEF LoginUnnamed, ForgotPassword, ResendVerification
  <2>2. \/ Start(s, "issue", Job("login", Unknown, NoDevice), 0, NoEntity)
        \/ Start(s, "issue", Job("forgot", "reset", NoDevice), 0, NoEntity)
        \/ Start(s, "issue", Job("resend", "signup", NoDevice), 0, NoEntity)
    BY <1>7 DEF LoginUnnamed, ForgotPassword, ResendVerification
  <2> QED
    BY <1>0, <1>1, <1>2, <2>1, <2>2, CodesAssumption DEF Ops
<1>8. CASE VerifyEmail(s) \/ ResetPassword(s)
  BY <1>0, <1>3, <1>8 DEF VerifyEmail, ResetPassword, Submittable, Ops
<1>9. CASE UpdateProfile(s)
  <2>0. Entity(password, verified).password # 0
    BY <1>9, EntityShape DEF UpdateProfile, Registered, Typed, Account
  <2>1. Cleared("saveProfile", Job("profile", "profile", NoDevice), 0, Entity(password, verified))
    BY <2>0 DEF Cleared
  <2> QED
    BY <1>1, <1>9, <2>1 DEF UpdateProfile
<1> QED
  BY <1>4, <1>5, <1>6, <1>7, <1>8, <1>9

\* Issuing a code, and mailing it.
LEMMA AdmittedIssue ==
  ASSUME Typed, Admitted, NEW s \in Slots,
         Peek(s) \/ SetCode(s) \/ SetAttempts(s) \/ Mail(s)
  PROVE  Admitted'
<1> USE DEF store, codes, row, doors, Goto
<1>0. Cleared(pc[s], job[s], raw[s], entity[s])
  BY DEF Admitted
<1>1. CASE Peek(s)
  <2>0. Grows /\ UNCHANGED <<trusted, entered, password>>
    BY <1>1, Zenon DEF Peek, Grows
  <2>1. ASSUME Goto(s, "peek", "idle") PROVE Admitted'
    BY <2>0, <2>1, Places, AdmittedFree DEF Free
  <2>2. ASSUME Goto(s, "peek", "issue") PROVE Admitted'
    <3>1. pc[s] = "peek" /\ pc'[s] = "issue" /\ job'[s] = job[s] /\ Others(s)
      BY <2>2, Places
    <3>2. Cleared(pc[s], job[s], raw[s], entity[s])'
      BY <1>0, <3>1 DEF Cleared
    <3> QED
      BY <2>0, <3>1, <3>2, AdmittedQuiet
  <2>3. CASE code[job[s].key] = 0
    BY <1>1, <2>1, <2>3, Zenon DEF Peek
  <2>4. CASE code[job[s].key] # 0
    BY <1>1, <2>2, <2>4, Zenon DEF Peek
  <2> QED
    BY <2>3, <2>4
<1>2. CASE SetCode(s) \/ SetAttempts(s)
  <2>0. Grows /\ UNCHANGED <<trusted, entered, password>>
    BY <1>2 DEF SetCode, SetAttempts, Grows
  <2>1. /\ pc[s] \in {"issue", "counter"} /\ pc'[s] \in {"counter", "mail"}
        /\ job'[s] = job[s] /\ Others(s)
    BY <1>2, Places DEF SetCode, SetAttempts
  <2>2. Cleared(pc[s], job[s], raw[s], entity[s])'
    BY <1>0, <2>0, <2>1 DEF Cleared, Welcome, Grows
  <2> QED
    BY <2>0, <2>1, <2>2, AdmittedQuiet
<1>3. CASE Mail(s)
  <2>1. /\ pc[s] = "mail" /\ pc'[s] = "idle" /\ Others(s)
        /\ UNCHANGED <<trusted, home, password, used>>
    BY <1>3, Places DEF Mail
  <2>2. /\ \A d \in entered' : Welcome(d)'
        /\ password' = 0 => home' = NoDevice /\ NoDevice \notin entered'
    BY <1>0, <1>3, <2>1 DEF Mail, Admitted, Cleared, Welcome
  <2>3. mailed \in [Keys -> SUBSET Nat] /\ trusted \subseteq Keys
    BY DEF Typed, Store, Account, Keys
  <2>4. Grows
    BY <1>3, <2>1, <2>3 DEF Mail, Grows
  <2>5. \A d \in trusted' : d = home' \/ used'[d] \cap mailed'[d] # {}
    BY <2>1, <2>3, <2>4 DEF Admitted, Grows
  <2>6. ASSUME NEW t \in Slots PROVE Cleared(pc[t], job[t], raw[t], entity[t])'
    <3>1. CASE t = s
      BY <2>1, <3>1 DEF Cleared
    <3>2. CASE t # s
      <4>1. Fits(pc[t], job[t]) /\ Cleared(pc[t], job[t], raw[t], entity[t])
        BY DEF Typed, Requests, Admitted
      <4> QED
        BY <2>1, <2>4, <3>2, <4>1 DEF Others, Grows, Cleared, Welcome, Fits, Keys
    <3> QED
      BY <3>1, <3>2
  <2> QED
    BY <2>1, <2>2, <2>5, <2>6 DEF Admitted
<1> QED
  BY <1>1, <1>2, <1>3

\* Verifying a code: what comes back is a code that was mailed.
LEMMA AdmittedVerify ==
  ASSUME Typed, Admitted, NEW s \in Slots,
         GetAttempts(s) \/ DropCode(s) \/ CountMiss(s) \/ UseCode(s)
  PROVE  Admitted'
<1> USE DEF store, codes, row, doors, Goto
<1>0. /\ Cleared(pc[s], job[s], raw[s], entity[s]) /\ Fits(pc[s], job[s])
      /\ job[s] \in JobSet /\ raw[s] \in Nat
  BY DEF Admitted, Typed, Requests
<1>1. CASE GetAttempts(s)
  <2>0. Grows /\ UNCHANGED <<trusted, entered, password>>
    BY <1>1, Zenon DEF GetAttempts, Grows
  <2>1. ASSUME NEW next \in {"drop", "miss"}, Step(s, "attempts", next, raw[s], NoEntity)
        PROVE  Admitted'
    BY <2>0, <2>1, Places, AdmittedFree DEF Free
  <2>2. ASSUME Step(s, "attempts", "use", raw[s], NoEntity), entity[s].password = raw[s]
        PROVE  Admitted'
    <3>1. /\ pc[s] = "attempts" /\ pc'[s] = "use" /\ job'[s] = job[s] /\ raw'[s] = raw[s]
          /\ Others(s)
      BY <2>2, Places
    <3>2. raw[s] \in mailed[job[s].key] /\ (job[s].op = "confirm" => job[s].key = job[s].device)
      BY <1>0, <2>2, <3>1 DEF Cleared
    <3>3. job[s].key \in Keys
      BY <1>0, <3>1 DEF Fits
    <3>4. Cleared(pc[s], job[s], raw[s], entity[s])'
      BY <2>0, <3>1, <3>2, <3>3 DEF Cleared, Grows
    <3> QED
      BY <2>0, <3>1, <3>4, AdmittedQuiet
  <2>3. CASE TooMany(attempts[job[s].key])
    BY <1>1, <2>1, <2>3, Zenon DEF GetAttempts
  <2>4. CASE ~TooMany(attempts[job[s].key]) /\ entity[s].password = raw[s]
    BY <1>1, <2>2, <2>4, Zenon DEF GetAttempts
  <2>5. CASE ~TooMany(attempts[job[s].key]) /\ entity[s].password # raw[s]
    BY <1>1, <2>1, <2>5, Zenon DEF GetAttempts
  <2> QED
    BY <2>3, <2>4, <2>5
<1>2. CASE DropCode(s) \/ CountMiss(s)
  <2>1. Grows /\ UNCHANGED <<trusted, entered, password>>
    BY <1>2 DEF DropCode, CountMiss, Deleted, Grows
  <2>2. Others(s) /\ pc'[s] \in Free
    BY <1>2, Places DEF DropCode, CountMiss, Free
  <2> QED
    BY <2>1, <2>2, AdmittedFree
<1>3. CASE UseCode(s)
  <2> DEFINE j == job[s]
             e == IF j.op = "reset" THEN Entity(passwords + 1, FALSE) ELSE NoEntity
             next == After(j.op)
  <2>0. /\ Step(s, "use", next, 0, e)
        /\ UNCHANGED <<trusted, entered, home, password, mailed>>
        /\ used' = [used EXCEPT ![j.key] = @ \cup {raw[s]}]
    BY <1>3, Zenon DEF UseCode
  <2>00. next # "idle"
    BY DEF After
  <2> HIDE DEF e, next
  <2>1. /\ pc[s] = "use" /\ pc'[s] = After(j.op) /\ entity'[s] = e /\ Others(s)
        /\ UNCHANGED <<trusted, entered, home, password, mailed>>
        /\ used' = [used EXCEPT ![j.key] = @ \cup {raw[s]}]
    BY <2>0, Places DEF next
  <2>2. job'[s] = j
    BY <2>0, <2>00, Places
  <2> USE DEF e
  <2>3. j.key \in Keys /\ used \in [Keys -> SUBSET Nat]
    BY <1>0, <2>1 DEF Fits, Typed, Store
  <2>4. /\ raw[s] \in mailed[j.key] /\ raw[s] \in used'[j.key]
        /\ j.op = "confirm" => j.key = j.device
    BY <1>0, <2>1, <2>3 DEF Cleared
  <2>5. Grows
    BY <2>1, <2>3 DEF Grows
  <2>6. j.op = "reset" => e.password # 0
    <3>1. passwords + 1 \in Nat /\ passwords + 1 # 0
      BY DEF Typed, Account
    <3> QED
      BY <3>1, EntityShape
  <2> HIDE DEF j, e
  <2>7. Cleared(pc[s], job[s], raw[s], entity[s])'
    <3>1. CASE j.op = "confirm"
      <4>1. pc'[s] = "find"
        BY <2>1, <3>1 DEF After
      <4>2. used'[j.device] \cap mailed'[j.device] # {}
        BY <2>1, <2>4, <3>1
      <4> QED
        BY <2>2, <3>1, <4>1, <4>2 DEF Cleared
    <3>2. CASE j.op = "reset"
      <4>1. pc'[s] = "setPassword" /\ entity'[s].password # 0
        BY <2>1, <2>6, <3>2 DEF After
      <4> QED
        BY <4>1 DEF Cleared
    <3>3. CASE j.op \notin {"confirm", "reset"}
      <4>1. pc'[s] = "verify"
        BY <2>1, <3>3 DEF After
      <4> QED
        BY <4>1 DEF Cleared
    <3> QED
      BY <3>1, <3>2, <3>3
  <2> QED
    BY <2>1, <2>5, <2>7, AdmittedQuiet
<1> QED
  BY <1>1, <1>2, <1>3

\* The user is created.
LEMMA AdmittedCreate ==
  ASSUME Typed, Admitted, NEW s \in Slots, CreateUser(s)
  PROVE  Admitted'
<1> USE DEF store, codes, row, doors, Goto
<1>1. CASE Goto(s, "create", "idle") /\ UNCHANGED <<password, passwords, home>>
  <2>1. Grows /\ UNCHANGED <<trusted, entered, password>>
    BY <1>1 DEF CreateUser, Grows
  <2> QED
    BY <1>1, <2>1, Places, AdmittedFree DEF Free
<1>2. ASSUME ~Registered, NEW next \in {"find", "issue"}, Goto(s, "create", next),
             next = "issue" => ~Named(job[s].device), password' = 1, home' = job[s].device
      PROVE  Admitted'
  <2>1. /\ pc'[s] = next /\ job'[s] = job[s] /\ Others(s)
        /\ UNCHANGED <<used, mailed, trusted, entered>>
    BY <1>2, Places DEF CreateUser
  <2>2. /\ home = NoDevice /\ trusted \subseteq Devices /\ NoDevice \notin Devices
        /\ password = 0 /\ \A d \in entered : d \in trusted
    BY <1>2, CodesAssumption DEF Registered, Admitted, Welcome, Typed, Account
  <2>3. \A d \in trusted' : d = home' \/ used'[d] \cap mailed'[d] # {}
    BY <2>1, <2>2 DEF Admitted
  <2>4. pc[s] = "create"
    BY <1>2, Places
  <2>5. Cleared(pc[s], job[s], raw[s], entity[s])'
    <3>1. next = "issue" => job[s].device = NoDevice
      BY <1>2, <2>2 DEF Named
    <3>2. job[s].op = "register"
      BY <2>4 DEF Admitted, Cleared
    <3> QED
      BY <1>2, <2>1, <3>1, <3>2 DEF Cleared, Welcome
  <2>6. ASSUME NEW t \in Slots, t # s PROVE Cleared(pc[t], job[t], raw[t], entity[t])'
    <3>1. Fits(pc[t], job[t]) /\ Cleared(pc[t], job[t], raw[t], entity[t])
      BY DEF Typed, Requests, Admitted
    <3>2. pc[t] \in {"find", "insert", "touch", "issue", "counter", "mail"} =>
            job[t].op # "register"
      BY <2>2, <3>1 DEF Cleared
    <3> QED
      BY <2>1, <2>6, <3>1, <3>2 DEF Others, Cleared
  <2>7. \A d \in entered' : Welcome(d)'
    BY <2>1, <2>2 DEF Welcome
  <2> QED
    BY <1>2, <2>1, <2>3, <2>5, <2>6, <2>7 DEF Admitted
<1>3. CASE /\ ~Registered
           /\ Goto(s, "create", IF Named(job[s].device) THEN "find" ELSE "issue")
           /\ password' = 1 /\ home' = job[s].device
  <2>1. CASE Named(job[s].device)
    <3>1. Goto(s, "create", "find")
      BY <1>3, <2>1, Zenon
    <3> QED
      BY <1>2, <1>3, <3>1
  <2>2. CASE ~Named(job[s].device)
    <3>1. Goto(s, "create", "issue")
      BY <1>3, <2>2, Zenon
    <3> QED
      BY <1>2, <1>3, <2>2, <3>1
  <2> QED
    BY <2>1, <2>2
<1> QED
  BY <1>1, <1>3, Zenon DEF CreateUser

\* Devices are found, trusted, touched.
LEMMA AdmittedDevices ==
  ASSUME Typed, Admitted, NEW s \in Slots,
         FindDevice(s) \/ InsertDevice(s) \/ TouchDevice(s) \/ CheckDevice(s)
  PROVE  Admitted'
<1> USE DEF store, codes, row, doors, Goto
<1>0. /\ Cleared(pc[s], job[s], raw[s], entity[s]) /\ Fits(pc[s], job[s])
      /\ trusted \subseteq Devices /\ Devices \subseteq Keys
  BY DEF Admitted, Typed, Requests, Account, Keys
<1>1. CASE FindDevice(s)
  <2>0. Grows /\ UNCHANGED <<trusted, entered, password>>
    BY <1>1, Zenon DEF FindDevice, Grows
  <2>1. ASSUME NEW next \in {"touch", "insert"}, Step(s, "find", next, 0, NoEntity),
               next = "touch" => job[s].device \in trusted
        PROVE  Admitted'
    <3>1. pc[s] = "find" /\ pc'[s] = next /\ job'[s] = job[s] /\ Others(s)
      BY <2>1, Places
    <3>2. UNCHANGED <<home, used, mailed>>
      BY <1>1, Zenon DEF FindDevice
    <3>3. Cleared(pc[s], job[s], raw[s], entity[s])'
      BY <1>0, <2>0, <2>1, <3>1, <3>2 DEF Cleared
    <3> QED
      BY <2>0, <3>1, <3>3, AdmittedQuiet
  <2>2. CASE job[s].device \in trusted
    <3>1. Step(s, "find", "touch", 0, NoEntity)
      BY <1>1, <2>2, Zenon DEF FindDevice
    <3> QED
      BY <2>1, <2>2, <3>1
  <2>3. CASE job[s].device \notin trusted
    <3>1. Step(s, "find", "insert", 0, NoEntity)
      BY <1>1, <2>3, Zenon DEF FindDevice
    <3> QED
      BY <2>1, <3>1
  <2> QED
    BY <2>2, <2>3
<1>2. CASE CheckDevice(s)
  <2>0. Grows /\ UNCHANGED <<trusted, entered, password>>
    BY <1>2, Zenon DEF CheckDevice, Grows
  <2>1. ASSUME NEW next \in {"touch", "issue"}, Step(s, "device", next, 0, NoEntity),
               next = "touch" => job[s].device \in trusted
        PROVE  Admitted'
    <3>1. pc[s] = "device" /\ pc'[s] = next /\ job'[s] = job[s] /\ Others(s)
      BY <2>1, Places
    <3>2. Cleared(pc[s], job[s], raw[s], entity[s])'
      BY <1>0, <2>0, <2>1, <3>1 DEF Cleared
    <3> QED
      BY <2>0, <3>1, <3>2, AdmittedQuiet
  <2>2. CASE Known(job[s].device)
    <3>1. Step(s, "device", "touch", 0, NoEntity)
      BY <1>2, <2>2, Zenon DEF CheckDevice
    <3> QED
      BY <2>1, <2>2, <3>1 DEF Known
  <2>3. CASE ~Known(job[s].device)
    <3>1. Step(s, "device", "issue", 0, NoEntity)
      BY <1>2, <2>3, Zenon DEF CheckDevice
    <3> QED
      BY <2>1, <3>1
  <2> QED
    BY <2>2, <2>3
\* The device is trusted after the step, and may be handed tokens.
<1>3. ASSUME NEW here \in {"insert", "touch"}, TrustedNow(s, here),
             trusted' = trusted \cup {job[s].device}, UNCHANGED <<store, codes, row, home>>,
             job[s].device \in Devices,
             job[s].device = home \/ used[job[s].device] \cap mailed[job[s].device] # {},
             job[s].op = "register" => password # 0
      PROVE  Admitted'
  <2>1. Grows
    BY <1>3 DEF Grows
  <2>2. \A d \in trusted' : d = home' \/ used'[d] \cap mailed'[d] # {}
    BY <1>3 DEF Admitted
  <2>3. ASSUME NEW next \in {"issue", "idle"}, Step(s, here, next, 0, NoEntity),
               entered' \subseteq entered \cup {job[s].device}
        PROVE  Admitted'
    <3>1. /\ pc'[s] = next /\ (next # "idle" => job'[s] = job[s]) /\ Others(s)
      BY <2>3, Places
    <3>2. Cleared(pc[s], job[s], raw[s], entity[s])'
      BY <1>3, <3>1 DEF Cleared, Welcome
    <3>3. ASSUME NEW t \in Slots, t # s PROVE Cleared(pc[t], job[t], raw[t], entity[t])'
      <4>1. Fits(pc[t], job[t]) /\ Cleared(pc[t], job[t], raw[t], entity[t])
        BY DEF Typed, Requests, Admitted
      <4> QED
        BY <1>3, <3>1, <3>3, <4>1 DEF Others, Cleared, Welcome
    <3>4. \A d \in entered' : Welcome(d)'
      BY <1>3, <2>3 DEF Admitted, Welcome
    <3>5. password' = 0 => home' = NoDevice /\ NoDevice \notin entered'
      BY <1>3, <2>3, CodesAssumption DEF Admitted
    <3> QED
      BY <2>2, <3>2, <3>3, <3>4, <3>5 DEF Admitted
  <2>4. CASE job[s].op = "register"
    <3>1. Step(s, here, "issue", 0, NoEntity) /\ UNCHANGED entered
      BY <1>3, <2>4, Zenon DEF TrustedNow
    <3> QED
      BY <1>3, <2>3, <3>1 DEF Admitted
  <2>5. CASE job[s].op # "register"
    <3>1. Step(s, here, "idle", 0, NoEntity) /\ Enter(job[s].device)
      BY <1>3, <2>5, Zenon DEF TrustedNow
    <3> QED
      BY <1>3, <2>3, <3>1 DEF Admitted, Enter
  <2> QED
    BY <2>4, <2>5
<1>4. CASE InsertDevice(s)
  <2>1. CASE TrustedNow(s, "insert") /\ trusted' = trusted \cup {job[s].device}
    <3>1. pc[s] = "insert" /\ UNCHANGED <<store, codes, row, home>>
      BY <1>4, <2>1 DEF InsertDevice, TrustedNow
    <3>2. /\ job[s].device \in Devices
          /\ job[s].device = home \/ used[job[s].device] \cap mailed[job[s].device] # {}
          /\ job[s].op = "register" => password # 0
      BY <1>0, <3>1 DEF Fits, Cleared
    <3> QED
      BY <1>3, <2>1, <3>1, <3>2
  <2>2. CASE Step(s, "insert", "idle", 0, NoEntity) /\ UNCHANGED <<trusted, entered>>
    <3>1. Grows /\ UNCHANGED password
      BY <1>4, <2>2 DEF InsertDevice, Grows
    <3> QED
      BY <2>2, <3>1, Places, AdmittedFree DEF Free
  <2> QED
    BY <1>4, <2>1, <2>2 DEF InsertDevice
<1>5. CASE TouchDevice(s)
  <2>1. pc[s] = "touch" /\ TrustedNow(s, "touch") /\ UNCHANGED <<store, codes, row, home, trusted>>
    BY <1>5 DEF TouchDevice, TrustedNow
  <2>2. job[s].device \in trusted /\ (job[s].op = "register" => password # 0)
    BY <1>0, <2>1 DEF Cleared
  <2>3. /\ trusted' = trusted \cup {job[s].device} /\ job[s].device \in Devices
        /\ job[s].device = home \/ used[job[s].device] \cap mailed[job[s].device] # {}
    BY <1>0, <2>1, <2>2 DEF Admitted
  <2> QED
    BY <1>3, <2>1, <2>2, <2>3
<1> QED
  BY <1>1, <1>2, <1>4, <1>5

\* The users row is written: never back to no password.
LEMMA AdmittedRow ==
  ASSUME Typed, Admitted, NEW s \in Slots, SetVerified(s) \/ SetPassword(s) \/ SaveProfile(s)
  PROVE  Admitted'
<1> USE DEF store, codes, row, doors, Goto
<1>1. Grows /\ UNCHANGED <<trusted, entered>>
  BY DEF SetVerified, SetPassword, SaveProfile, Grows
<1>2. Others(s) /\ pc'[s] \in Free
  BY Places DEF SetVerified, SetPassword, SaveProfile, Free
<1>3. /\ Cleared(pc[s], job[s], raw[s], entity[s])
      /\ entity[s].password \in Nat /\ verified \in BOOLEAN
  BY EntityParts DEF Admitted, Typed, Requests, Account
<1>4. password' = password \/ password' # 0
  <2>1. CASE SetVerified(s)
    BY <2>1 DEF SetVerified
  <2>2. CASE SetPassword(s)
    <3>1. pc[s] = "setPassword" /\ password' = entity[s].password
      BY <2>2, Places DEF SetPassword
    <3> QED
      BY <1>3, <3>1 DEF Cleared
  <2>3. CASE SaveProfile(s)
    <3>1. pc[s] = "saveProfile" /\ password' = entity[s].password
      BY <2>3, Places DEF SaveProfile
    <3> QED
      BY <1>3, <3>1 DEF Cleared
  <2> QED
    BY <2>1, <2>2, <2>3
<1> QED
  BY <1>1, <1>2, <1>4, AdmittedFree

\* Codes that expire, crashes and failed statements.
LEMMA AdmittedTrouble ==
  ASSUME Typed, Admitted,
         \/ \E k \in Keys : Expire(k) \/ ExpireAttempts(k)
         \/ Crash \/ \E s \in Slots : StatementFails(s)
         \/ UNCHANGED vars
  PROVE  Admitted'
<1> USE DEF store, codes, row, doors
<1>1. UNCHANGED <<trusted, home, password, used, mailed>>
  BY DEF Expire, ExpireAttempts, Crash, StatementFails, vars
<1>2. /\ \A d \in entered' : Welcome(d)
      /\ password = 0 => home = NoDevice /\ NoDevice \notin entered'
  <2>1. ASSUME NEW s \in Slots, StatementFails(s)
        PROVE  /\ \A d \in entered' : Welcome(d)
               /\ password = 0 => home = NoDevice /\ NoDevice \notin entered'
    <3>1. Cleared(pc[s], job[s], raw[s], entity[s])
      BY DEF Admitted
    <3> QED
      BY <2>1, <3>1 DEF StatementFails, Admitted, Cleared
  <2>2. CASE ~\E s \in Slots : StatementFails(s)
    BY <2>2 DEF Expire, ExpireAttempts, Crash, vars, Admitted
  <2> QED
    BY <1>1, <2>1, <2>2
<1>3. ASSUME NEW t \in Slots
      PROVE  \/ pc'[t] = "idle"
             \/ /\ pc'[t] = pc[t] /\ job'[t] = job[t] /\ raw'[t] = raw[t]
                /\ entity'[t] = entity[t]
  <2>1. ASSUME NEW s \in Slots, StatementFails(s)
        PROVE  \/ pc'[t] = "idle"
               \/ /\ pc'[t] = pc[t] /\ job'[t] = job[t] /\ raw'[t] = raw[t]
                  /\ entity'[t] = entity[t]
    BY <2>1 DEF StatementFails, Typed, Requests
  <2>2. CASE ~\E s \in Slots : StatementFails(s)
    BY <2>2 DEF Expire, ExpireAttempts, Crash, vars
  <2> QED
    BY <2>1, <2>2
<1>4. ASSUME NEW t \in Slots PROVE Cleared(pc[t], job[t], raw[t], entity[t])'
  <2>1. Cleared(pc[t], job[t], raw[t], entity[t])
    BY DEF Admitted
  <2> QED
    BY <1>1, <1>3, <2>1 DEF Cleared, Welcome
<1> QED
  BY <1>1, <1>2, <1>4 DEF Admitted, Welcome

LEMMA AdmittedNext == Typed /\ Admitted /\ [Next]_vars => Admitted'
<1> SUFFICES ASSUME Typed, Admitted, [Next]_vars PROVE Admitted'
  OBVIOUS
<1>1. ASSUME NEW s \in Slots,
             \/ \E d \in Devices : Login(s, d) \/ ResendDeviceCode(s, d) \/ ConfirmDevice(s, d)
             \/ \E d \in Devices \cup {NoDevice} : Register(s, d)
             \/ LoginUnnamed(s) \/ ForgotPassword(s) \/ ResendVerification(s)
             \/ VerifyEmail(s) \/ ResetPassword(s) \/ UpdateProfile(s)
      PROVE  Admitted'
  BY <1>1, AdmittedStarts
<1>2. ASSUME NEW s \in Slots,
             \/ Peek(s) \/ SetCode(s) \/ SetAttempts(s) \/ Mail(s)
             \/ GetAttempts(s) \/ DropCode(s) \/ CountMiss(s) \/ UseCode(s)
      PROVE  Admitted'
  BY <1>2, AdmittedIssue, AdmittedVerify
<1>3. ASSUME NEW s \in Slots,
             \/ CreateUser(s) \/ FindDevice(s) \/ InsertDevice(s) \/ TouchDevice(s)
             \/ CheckDevice(s) \/ SetVerified(s) \/ SetPassword(s) \/ SaveProfile(s)
      PROVE  Admitted'
  BY <1>3, AdmittedCreate, AdmittedDevices, AdmittedRow
<1>4. CASE \/ \E k \in Keys : Expire(k) \/ ExpireAttempts(k)
           \/ Crash \/ \E s \in Slots : StatementFails(s)
           \/ UNCHANGED vars
  BY <1>4, AdmittedTrouble
<1> QED
  BY <1>1, <1>2, <1>3, <1>4 DEF Next

\* Tokens go to trusted devices and to a registration that names none; trust
\* to the device of the registration or one whose mailed code came back,
\* whatever overlaps.
THEOREM KnownDevices == Spec => []OnlyKnownDevicesEnter
<1>1. Init => Admitted
  BY DEF Init, Admitted, Cleared
<1>2. Admitted => OnlyKnownDevicesEnter
  BY DEF Admitted, Welcome, OnlyKnownDevicesEnter
<1> QED
  BY TypeInit, TypeNext, AdmittedNext, <1>1, <1>2, PTL DEF Spec

-----------------------------------------------------------------------------
(* Who does what.  Every request is at a step of its operation, with the   *)
(* key that belongs to it; and when the requests of Conflict wait for each *)
(* other no two hold one key.                                              *)

\* The steps of an operation.
Doing(j, p) ==
  \/ j.op = "none" /\ p = "idle"
  \/ /\ j.op = "register" /\ j.key = "signup"
     /\ p \in {"create", "find", "insert", "touch", "issue", "counter", "mail"}
  \/ j.op = "login" /\ p \in {"device", "touch", "issue", "counter", "mail"}
  \/ j.op = "resend" /\ p \in {"peek", "issue", "counter", "mail"}
  \/ j.op = "forgot" /\ p \in {"issue", "counter", "mail"}
  \/ j.op = "confirm" /\ p \in {"attempts", "drop", "miss", "use", "find", "insert", "touch"}
  \/ /\ j.op = "verifyEmail" /\ j.key = "signup"
     /\ p \in {"attempts", "drop", "miss", "use", "verify"}
  \/ /\ j.op = "reset" /\ j.key = "reset"
     /\ p \in {"attempts", "drop", "miss", "use", "setPassword"}
  \/ j.op = "profile" /\ p = "saveProfile"

Busy(s) == pc[s] # "idle"

Duties ==
  /\ \A s \in Slots : Doing(job[s], pc[s])
  /\ ~Races => \A s, t \in Slots : s # t /\ Busy(s) /\ Busy(t) => ~Conflict(job[s], job[t])

\* A request comes in, ...
Comes(s, here) ==
  /\ pc[s] = "idle" /\ pc'[s] = here /\ Others(s)
  /\ Doing(job'[s], here) /\ here # "idle"
  /\ requests < MaxRequests /\ requests' = requests + 1
  /\ ~Races => \A t \in Slots : Busy(t) => ~Conflict(job'[s], job[t])

\* ... and goes on.
GoesOn(s, here, next) ==
  /\ pc[s] = here /\ pc'[s] = next /\ Others(s)
  /\ here # "idle" /\ Doing(job'[s], next)
  /\ job'[s] = IF next = "idle" THEN NoJob ELSE job[s]
  /\ requests' = requests

LEMMA StartDoes ==
  ASSUME Typed, NEW s \in Slots, NEW here \in Steps \ {"idle"}, NEW j, NEW c, NEW e,
         Start(s, here, j, c, e), Doing(j, here)
  PROVE  Comes(s, here) /\ job'[s] = j /\ raw'[s] = c /\ entity'[s] = e
<1>1. pc'[s] = here /\ job'[s] = j /\ raw'[s] = c /\ entity'[s] = e /\ Others(s)
  BY Places
<1>2. pc[s] = "idle"
  BY DEF Start
<1> QED
  BY <1>1, <1>2 DEF Start, Comes, Busy

LEMMA StepDoes ==
  ASSUME Typed, NEW s \in Slots, NEW here \in Steps \ {"idle"}, NEW next, NEW c, NEW e,
         Step(s, here, next, c, e), next = "idle" \/ Doing(job[s], next)
  PROVE  GoesOn(s, here, next) /\ raw'[s] = c /\ entity'[s] = e
<1>1. pc[s] = here /\ pc'[s] = next /\ raw'[s] = c /\ entity'[s] = e /\ Others(s)
  BY Places
<1>2. job'[s] = IF next = "idle" THEN NoJob ELSE job[s]
  BY DEF Step, Typed, Requests
<1>3. Doing(job'[s], next)
  BY <1>2, NoJobShape DEF Doing
<1> QED
  BY <1>1, <1>2, <1>3 DEF Step, GoesOn

-----------------------------------------------------------------------------
(* The requests that come in without a code: nothing else changes.         *)

PlainStart(s) ==
  \/ \E d \in Devices : Login(s, d) \/ ResendDeviceCode(s, d)
  \/ \E d \in Devices \cup {NoDevice} : Register(s, d)
  \/ LoginUnnamed(s) \/ ForgotPassword(s) \/ ResendVerification(s)

LEMMA PlainStarts ==
  ASSUME Typed, NEW s \in Slots, PlainStart(s)
  PROVE  /\ \E here \in {"device", "peek", "create", "issue"} :
              Comes(s, here) /\ (here # "create" => Registered)
         /\ job'[s].key \in Keys /\ UNCHANGED <<store, codes, row>>
<1> DEFINE Goal ==
      /\ \E here \in {"device", "peek", "create", "issue"} :
           Comes(s, here) /\ (here # "create" => Registered)
      /\ job'[s].key \in Keys /\ UNCHANGED <<store, codes, row>>
<1>1. ASSUME NEW here \in {"device", "peek", "create", "issue"}, NEW j,
             Start(s, here, j, 0, NoEntity), Doing(j, here), j.key \in Keys,
             here # "create" => Registered,
             UNCHANGED <<store, codes, row>>
      PROVE  Goal
  <2>1. here \in Steps \ {"idle"}
    BY DEF Steps
  <2>2. Comes(s, here) /\ job'[s] = j
    BY <1>1, <2>1, StartDoes
  <2> QED
    BY <1>1, <2>2
<1>2. Devices \subseteq Keys /\ {"signup", "reset"} \subseteq Keys
  BY DEF Keys
<1> HIDE DEF Goal
<1>3. ASSUME NEW d \in Devices, Login(s, d) PROVE Goal
  <2>1. Doing(Job("login", d, d), "device") /\ Job("login", d, d).key \in Keys
    BY <1>2, JobShape DEF Doing, Ops
  <2> QED
    BY <1>1, <1>3, <2>1 DEF Login
<1>4. ASSUME NEW d \in Devices, ResendDeviceCode(s, d) PROVE Goal
  <2>1. Doing(Job("resend", d, d), "peek") /\ Job("resend", d, d).key \in Keys
    BY <1>2, JobShape DEF Doing, Ops
  <2> QED
    BY <1>1, <1>4, <2>1 DEF ResendDeviceCode
<1>5. ASSUME NEW d \in Devices \cup {NoDevice}, Register(s, d) PROVE Goal
  <2>1. Doing(Job("register", "signup", d), "create") /\ Job("register", "signup", d).key \in Keys
    BY <1>2, JobShape DEF Doing, Ops
  <2> QED
    BY <1>1, <1>5, <2>1 DEF Register
<1>6. CASE ForgotPassword(s)
  <2>1. /\ Doing(Job("forgot", "reset", NoDevice), "issue")
        /\ Job("forgot", "reset", NoDevice).key \in Keys
    BY <1>2, JobShape DEF Doing, Ops
  <2> QED
    BY <1>1, <1>6, <2>1 DEF ForgotPassword, Goal
<1>7. CASE ResendVerification(s)
  <2>1. /\ Doing(Job("resend", "signup", NoDevice), "issue")
        /\ Job("resend", "signup", NoDevice).key \in Keys
    BY <1>2, JobShape DEF Doing, Ops
  <2> QED
    BY <1>1, <1>7, <2>1 DEF ResendVerification, Goal
<1>8. CASE LoginUnnamed(s)
  <2>0. Unknown \in Keys
    BY <1>2, CodesAssumption
  <2>1. /\ Doing(Job("login", Unknown, NoDevice), "issue")
        /\ Job("login", Unknown, NoDevice).key \in Keys
    BY <2>0, JobShape DEF Doing, Ops
  <2> QED
    BY <1>1, <1>8, <2>1 DEF LoginUnnamed, Goal
<1> QED
  BY <1>3, <1>4, <1>5, <1>6, <1>7, <1>8 DEF PlainStart, Goal

\* Those that bring one: the request remembers the code it found.
CodeStart(s) == (\E d \in Devices : ConfirmDevice(s, d)) \/ VerifyEmail(s) \/ ResetPassword(s)

LEMMA CodeStarts ==
  ASSUME Typed, NEW s \in Slots, CodeStart(s)
  PROVE  /\ Comes(s, "attempts") /\ Registered /\ job'[s].key \in Keys
         /\ raw'[s] = code[job'[s].key] /\ raw'[s] # 0
         /\ UNCHANGED <<store, codes, row>>
<1> DEFINE Goal ==
      /\ Comes(s, "attempts") /\ Registered /\ job'[s].key \in Keys
      /\ raw'[s] = code[job'[s].key] /\ raw'[s] # 0
      /\ UNCHANGED <<store, codes, row>>
<1>0. "attempts" \in Steps \ {"idle"}
  BY DEF Steps
<1>1. ASSUME NEW o \in Ops, NEW k \in Keys, NEW d \in Devices \cup {NoDevice}, NEW c,
             Submit(s, o, k, d, c), Doing(Job(o, k, d), "attempts")
      PROVE  Goal
  <2>1. /\ Start(s, "attempts", Job(o, k, d), code[k], Entity(c, FALSE))
        /\ Registered /\ code[k] # 0 /\ UNCHANGED <<store, codes, row>>
    BY <1>1 DEF Submit
  <2>2. Job(o, k, d).key = k
    BY JobShape
  <2>3. Comes(s, "attempts") /\ job'[s] = Job(o, k, d) /\ raw'[s] = code[k]
    BY <1>0, <1>1, <2>1, StartDoes
  <2> QED
    BY <2>1, <2>2, <2>3
<1>2. Devices \subseteq Keys /\ {"signup", "reset"} \subseteq Keys
  BY DEF Keys
<1> HIDE DEF Goal
<1>3. ASSUME NEW d \in Devices, ConfirmDevice(s, d) PROVE Goal
  <2>1. Doing(Job("confirm", d, d), "attempts") /\ "confirm" \in Ops
    BY <1>2, JobShape DEF Doing, Ops
  <2> QED
    BY <1>1, <1>2, <1>3, <2>1 DEF ConfirmDevice
<1>4. CASE VerifyEmail(s)
  <2>1. Doing(Job("verifyEmail", "signup", NoDevice), "attempts") /\ "verifyEmail" \in Ops
    BY <1>2, JobShape DEF Doing, Ops
  <2> QED
    BY <1>1, <1>2, <1>4, <2>1 DEF VerifyEmail, Goal
<1>5. CASE ResetPassword(s)
  <2>1. Doing(Job("reset", "reset", NoDevice), "attempts") /\ "reset" \in Ops
    BY <1>2, JobShape DEF Doing, Ops
  <2> QED
    BY <1>1, <1>2, <1>5, <2>1 DEF ResetPassword, Goal
<1> QED
  BY <1>3, <1>4, <1>5 DEF CodeStart, Goal

\* The profile's: it remembers the row.
LEMMA ProfileStarts ==
  ASSUME Typed, NEW s \in Slots, UpdateProfile(s)
  PROVE  /\ Comes(s, "saveProfile") /\ Registered /\ entity'[s] = Entity(password, verified)
         /\ UNCHANGED <<store, codes, row>>
<1>1. Doing(Job("profile", "profile", NoDevice), "saveProfile")
  BY JobShape DEF Doing, Ops
<1>2. "saveProfile" \in Steps \ {"idle"}
  BY DEF Steps
<1> QED
  BY <1>1, <1>2, StartDoes DEF UpdateProfile

-----------------------------------------------------------------------------
(* The steps of a request.                                                 *)

\* Those that leave codes, counters and the users row alone.
PassStep(s) ==
  \/ Peek(s) \/ FindDevice(s) \/ InsertDevice(s) \/ TouchDevice(s) \/ CheckDevice(s)
  \/ CreateUser(s) /\ Registered

LEMMA PassSteps ==
  ASSUME Typed, Duties, NEW s \in Slots, PassStep(s)
  PROVE  /\ \E here \in {"peek", "find", "insert", "touch", "device", "create"},
               next \in {"issue", "insert", "touch", "idle"} :
              GoesOn(s, here, next) /\ (here = "create" => next = "idle")
         /\ UNCHANGED <<store, codes, row>>
<1> DEFINE Hence ==
      \E here \in {"peek", "find", "insert", "touch", "device", "create"},
         next \in {"issue", "insert", "touch", "idle"} :
           GoesOn(s, here, next) /\ (here = "create" => next = "idle")
<1>0. UNCHANGED <<store, codes, row>>
  BY DEF PassStep, Peek, FindDevice, InsertDevice, TouchDevice, CheckDevice, CreateUser, row
<1>1. ASSUME NEW here \in {"peek", "find", "insert", "touch", "device", "create"},
             NEW next \in {"issue", "insert", "touch", "idle"}, Goto(s, here, next),
             next = "idle" \/ (Doing(job[s], next) /\ here # "create")
      PROVE  Hence
  <2>1. here \in Steps \ {"idle"}
    BY DEF Steps
  <2> QED
    BY <1>1, <2>1, StepDoes DEF Goto
<1>2. /\ pc[s] = "peek" => Doing(job[s], "issue")
      /\ pc[s] = "find" => Doing(job[s], "insert") /\ Doing(job[s], "touch")
      /\ pc[s] = "device" => Doing(job[s], "touch") /\ Doing(job[s], "issue")
      /\ job[s].op = "register" /\ pc[s] \in {"insert", "touch"} => Doing(job[s], "issue")
  BY DEF Duties, Doing
<1>3. \A here, next : Goto(s, here, next) => pc[s] = here
  BY DEF Goto, Step
<1> SUFFICES Hence
  BY <1>0
<1> HIDE DEF Hence
<1>4. CASE Peek(s)
  <2>1. PICK next \in {"idle", "issue"} : Goto(s, "peek", next)
    <3>1. Goto(s, "peek", IF code[job[s].key] = 0 THEN "idle" ELSE "issue")
      BY <1>4 DEF Peek
    <3> QED
      BY <3>1
  <2> QED
    BY <1>1, <1>2, <1>3, <2>1
<1>5. CASE FindDevice(s)
  <2>1. PICK next \in {"touch", "insert"} : Goto(s, "find", next)
    <3>1. Goto(s, "find", IF job[s].device \in trusted THEN "touch" ELSE "insert")
      BY <1>5 DEF FindDevice
    <3> QED
      BY <3>1
  <2> QED
    BY <1>1, <1>2, <1>3, <2>1
<1>6. ASSUME NEW here \in {"insert", "touch"}, TrustedNow(s, here) PROVE Hence
  <2>1. PICK next \in {"issue", "idle"} :
          Goto(s, here, next) /\ (next = "issue" => job[s].op = "register")
    <3>1. Goto(s, here, IF job[s].op = "register" THEN "issue" ELSE "idle")
      BY <1>6 DEF TrustedNow
    <3> QED
      BY <3>1
  <2> QED
    BY <1>1, <1>2, <1>3, <2>1
<1>7. CASE InsertDevice(s)
  <2>1. CASE TrustedNow(s, "insert")
    BY <1>6, <2>1
  <2>2. CASE Goto(s, "insert", "idle")
    BY <1>1, <2>2
  <2> QED
    BY <1>7, <2>1, <2>2 DEF InsertDevice
<1>8. CASE TouchDevice(s)
  BY <1>6, <1>8 DEF TouchDevice
<1>9. CASE CheckDevice(s)
  <2>1. PICK next \in {"touch", "issue"} : Goto(s, "device", next)
    <3>1. Goto(s, "device", IF Known(job[s].device) THEN "touch" ELSE "issue")
      BY <1>9 DEF CheckDevice
    <3> QED
      BY <3>1
  <2> QED
    BY <1>1, <1>2, <1>3, <2>1
<1>10. CASE CreateUser(s) /\ Registered
  <2>1. Goto(s, "create", "idle")
    BY <1>10 DEF CreateUser
  <2> QED
    BY <1>1, <2>1
<1> QED
  BY <1>4, <1>5, <1>7, <1>8, <1>9, <1>10 DEF PassStep

\* The user is created.
LEMMA CreateDoes ==
  ASSUME Typed, Duties, NEW s \in Slots, CreateUser(s), ~Registered
  PROVE  /\ \E next \in {"find", "issue"} : GoesOn(s, "create", next)
         /\ password' = 1 /\ passwords' = 1 /\ UNCHANGED <<store, codes, verified>>
<1>1. PICK next \in {"find", "issue"} : Goto(s, "create", next)
  <2>1. Goto(s, "create", IF Named(job[s].device) THEN "find" ELSE "issue")
    BY DEF CreateUser
  <2> QED
    BY <2>1
<1>2. pc[s] = "create"
  BY <1>1 DEF Goto, Step
<1>3. Doing(job[s], next)
  BY <1>2 DEF Duties, Doing
<1>4. "create" \in Steps \ {"idle"}
  BY DEF Steps
<1>5. GoesOn(s, "create", next)
  BY <1>1, <1>3, <1>4, StepDoes DEF Goto
<1> QED
  BY <1>5 DEF CreateUser

\* A code is issued: written, its counter set, mailed.
LEMMA IssueDoes ==
  ASSUME Typed, Duties, NEW s \in Slots
  PROVE  /\ SetCode(s) =>
              GoesOn(s, "issue", "counter") /\ raw'[s] = issued[job[s].key] + 1
         /\ SetAttempts(s) => GoesOn(s, "counter", "mail")
         /\ Mail(s) => GoesOn(s, "mail", "idle")
<1>1. /\ pc[s] = "issue" => Doing(job[s], "counter")
      /\ pc[s] = "counter" => Doing(job[s], "mail")
  BY DEF Duties, Doing
<1>2. {"issue", "counter", "mail"} \subseteq Steps \ {"idle"}
  BY DEF Steps
<1>3. \A here, next, c, e : Step(s, here, next, c, e) => pc[s] = here
  BY DEF Step
<1> DEFINE k == job[s].key
<1>4. SetCode(s) => Step(s, "issue", "counter", issued[k] + 1, NoEntity)
  BY DEF SetCode
<1>5. SetAttempts(s) => Step(s, "counter", "mail", raw[s], NoEntity)
  BY DEF SetAttempts
<1>6. Mail(s) => Step(s, "mail", "idle", 0, NoEntity)
  BY DEF Mail, Goto
<1> QED
  BY <1>1, <1>2, <1>3, <1>4, <1>5, <1>6, StepDoes

\* A submitted code is checked against the one read and the counter.
LEMMA CheckDoes ==
  ASSUME Typed, Duties, NEW s \in Slots, GetAttempts(s)
  PROVE  /\ \E next \in {"drop", "miss", "use"} :
              /\ GoesOn(s, "attempts", next)
              /\ next # "drop" => ~TooMany(attempts[job[s].key])
         /\ raw'[s] = raw[s] /\ UNCHANGED <<store, codes, row>>
<1>1. PICK next \in {"drop", "miss", "use"} :
        /\ Step(s, "attempts", next, raw[s], NoEntity)
        /\ next # "drop" => ~TooMany(attempts[job[s].key])
  <2>1. Step(s, "attempts",
             IF TooMany(attempts[job[s].key]) THEN "drop"
             ELSE IF entity[s].password = raw[s] THEN "use" ELSE "miss",
             raw[s], NoEntity)
    BY DEF GetAttempts
  <2>2. CASE TooMany(attempts[job[s].key])
    <3>1. Step(s, "attempts", "drop", raw[s], NoEntity)
      BY <2>1, <2>2, Zenon
    <3> QED
      BY <3>1
  <2>3. CASE ~TooMany(attempts[job[s].key]) /\ entity[s].password = raw[s]
    <3>1. Step(s, "attempts", "use", raw[s], NoEntity)
      BY <2>1, <2>3, Zenon
    <3> QED
      BY <2>3, <3>1
  <2>4. CASE ~TooMany(attempts[job[s].key]) /\ entity[s].password # raw[s]
    <3>1. Step(s, "attempts", "miss", raw[s], NoEntity)
      BY <2>1, <2>4, Zenon
    <3> QED
      BY <2>4, <3>1
  <2> QED
    BY <2>2, <2>3, <2>4
<1>2. pc[s] = "attempts"
  BY <1>1 DEF Step
<1>3. Doing(job[s], next)
  BY <1>2 DEF Duties, Doing
<1>4. "attempts" \in Steps \ {"idle"}
  BY DEF Steps
<1>5. GoesOn(s, "attempts", next) /\ raw'[s] = raw[s]
  BY <1>1, <1>3, <1>4, StepDoes
<1> QED
  BY <1>1, <1>5, Zenon DEF GetAttempts

\* Refused or accepted.
LEMMA AnswerDoes ==
  ASSUME Typed, Duties, NEW s \in Slots
  PROVE  /\ DropCode(s) => GoesOn(s, "drop", "idle")
         /\ CountMiss(s) => GoesOn(s, "miss", "idle")
         /\ UseCode(s) =>
              /\ \E next \in {"find", "setPassword", "verify"} :
                   /\ GoesOn(s, "use", next)
                   /\ next = "setPassword" <=> job[s].op = "reset"
                   /\ next = "verify" => job[s].op = "verifyEmail"
              /\ job[s].op = "reset" => entity'[s] = Entity(passwords + 1, FALSE)
<1>1. {"drop", "miss", "use"} \subseteq Steps \ {"idle"}
  BY DEF Steps
<1>2. DropCode(s) => GoesOn(s, "drop", "idle")
  BY <1>1, StepDoes DEF DropCode, Goto
<1>3. CountMiss(s) => GoesOn(s, "miss", "idle")
  BY <1>1, StepDoes DEF CountMiss, Goto
<1>4. ASSUME UseCode(s)
      PROVE  /\ \E next \in {"find", "setPassword", "verify"} :
                   /\ GoesOn(s, "use", next)
                   /\ next = "setPassword" <=> job[s].op = "reset"
                   /\ next = "verify" => job[s].op = "verifyEmail"
             /\ job[s].op = "reset" => entity'[s] = Entity(passwords + 1, FALSE)
  <2> DEFINE e == IF job[s].op = "reset" THEN Entity(passwords + 1, FALSE) ELSE NoEntity
             next == After(job[s].op)
  <2>1. pc[s] = "use" /\ Step(s, "use", next, 0, e)
    BY <1>4 DEF UseCode
  <2>2. /\ next \in {"find", "setPassword", "verify"}
        /\ next = "setPassword" <=> job[s].op = "reset"
        /\ next = "verify" => job[s].op = "verifyEmail"
        /\ Doing(job[s], next)
    BY <2>1 DEF After, Duties, Doing
  <2>3. job[s].op = "reset" => e = Entity(passwords + 1, FALSE)
    OBVIOUS
  <2> HIDE DEF e, next
  <2>4. GoesOn(s, "use", next) /\ entity'[s] = e
    BY <1>1, <2>1, <2>2, StepDoes
  <2> QED
    BY <2>2, <2>3, <2>4
<1> QED
  BY <1>2, <1>3, <1>4

\* The users row is written.
LEMMA RowDoes ==
  ASSUME Typed, Duties, NEW s \in Slots
  PROVE  /\ SetVerified(s) => GoesOn(s, "verify", "idle")
         /\ SetPassword(s) => GoesOn(s, "setPassword", "idle")
         /\ SaveProfile(s) => GoesOn(s, "saveProfile", "idle")
<1>1. {"verify", "setPassword", "saveProfile"} \subseteq Steps \ {"idle"}
  BY DEF Steps
<1> QED
  BY <1>1, StepDoes DEF SetVerified, SetPassword, SaveProfile, Goto

\* What trouble does to a request: nothing, or it ends.
Spared(t) == pc'[t] = pc[t] /\ job'[t] = job[t] /\ raw'[t] = raw[t] /\ entity'[t] = entity[t]
Ended(t) == pc'[t] = "idle" /\ job'[t] = NoJob

Troubled ==
  /\ \A t \in Slots : Spared(t) \/ (Ended(t) /\ (TornIssues \/ pc[t] # "counter"))
  /\ UNCHANGED <<store, codes, row>> /\ requests' = requests

LEMMA TroubleDoes ==
  ASSUME Typed, Crash \/ \E s \in Slots : StatementFails(s)
  PROVE  Troubled
<1>1. CASE Crash
  BY <1>1 DEF Crash, Troubled, Ended
<1>2. ASSUME NEW s \in Slots, StatementFails(s) PROVE Troubled
  <2>1. Ended(s) /\ (TornIssues \/ pc[s] # "counter")
    BY <1>2 DEF StatementFails, Ended, Typed, Requests
  <2>2. \A t \in Slots : t # s => Spared(t)
    BY <1>2 DEF StatementFails, Spared, Typed, Requests
  <2>3. UNCHANGED <<store, codes, row>> /\ requests' = requests
    BY <1>2 DEF StatementFails
  <2> QED
    BY <2>1, <2>2, <2>3 DEF Troubled
<1> QED
  BY <1>1, <1>2

\* The parts of Next.
LEMMA NextParts ==
  ASSUME [Next]_vars
  PROVE  \/ UNCHANGED vars
         \/ \E k \in Keys : Expire(k) \/ ExpireAttempts(k)
         \/ Crash \/ \E s \in Slots : StatementFails(s)
         \/ \E s \in Slots : PlainStart(s) \/ CodeStart(s) \/ UpdateProfile(s)
         \/ \E s \in Slots : PassStep(s) \/ (CreateUser(s) /\ ~Registered)
         \/ \E s \in Slots : SetCode(s) \/ SetAttempts(s) \/ Mail(s)
         \/ \E s \in Slots : GetAttempts(s) \/ DropCode(s) \/ CountMiss(s) \/ UseCode(s)
         \/ \E s \in Slots : SetVerified(s) \/ SetPassword(s) \/ SaveProfile(s)
BY DEF Next, PlainStart, CodeStart, PassStep

\* Conflicts are mutual.
LEMMA ConflictMutual == \A i, j : Conflict(i, j) <=> Conflict(j, i)
BY DEF Conflict

\* Whoever comes in or goes on keeps everybody apart.
LEMMA DutiesKept ==
  ASSUME Typed, Duties, NEW s \in Slots,
         (\E here : Comes(s, here)) \/ \E here, next : GoesOn(s, here, next)
  PROVE  Duties'
<1>1. \A t \in Slots : t # s => pc'[t] = pc[t] /\ job'[t] = job[t]
  BY DEF Comes, GoesOn, Others
<1>2. Doing(job'[s], pc'[s])
  BY DEF Comes, GoesOn
<1>3. ~Races /\ pc'[s] # "idle" => \A t \in Slots : t # s /\ Busy(t) => ~Conflict(job'[s], job[t])
  <2>1. ASSUME NEW here, Comes(s, here)
        PROVE  ~Races => \A t \in Slots : Busy(t) => ~Conflict(job'[s], job[t])
    BY <2>1 DEF Comes
  <2>2. ASSUME NEW here, NEW next, GoesOn(s, here, next), pc'[s] # "idle"
        PROVE  job'[s] = job[s] /\ Busy(s)
    BY <2>2 DEF GoesOn, Busy
  <2> QED
    BY <2>1, <2>2 DEF Duties
<1>4. \A t \in Slots : Doing(job'[t], pc'[t])
  BY <1>1, <1>2 DEF Duties
<1>5. ~Races => \A t, u \in Slots : t # u /\ pc'[t] # "idle" /\ pc'[u] # "idle" =>
                                      ~Conflict(job'[t], job'[u])
  BY <1>1, <1>3, ConflictMutual DEF Duties, Busy
<1> QED
  BY <1>4, <1>5 DEF Duties, Busy, Doing, Conflict

LEMMA DutiesNext ==
  ASSUME Typed, Duties, [Next]_vars
  PROVE  Duties'
<1>1. CASE UNCHANGED vars \/ \E k \in Keys : Expire(k) \/ ExpireAttempts(k)
  <2>1. UNCHANGED <<pc, job>>
    BY <1>1 DEF vars, Expire, ExpireAttempts
  <2> QED
    BY <2>1 DEF Duties, Doing, Conflict, Busy
<1>2. CASE Crash \/ \E s \in Slots : StatementFails(s)
  <2>1. \A t \in Slots : Spared(t) \/ Ended(t)
    BY <1>2, TroubleDoes DEF Troubled
  <2>2. \A t \in Slots : \/ pc'[t] = pc[t] /\ job'[t] = job[t]
                         \/ pc'[t] = "idle" /\ job'[t] = NoJob
    BY <2>1 DEF Spared, Ended
  <2>3. Doing(NoJob, "idle")
    BY NoJobShape DEF Doing
  <2>4. \A t \in Slots : Doing(job'[t], pc'[t])
    BY <2>2, <2>3 DEF Duties
  <2>5. ~Races => \A t, u \in Slots : t # u /\ pc'[t] # "idle" /\ pc'[u] # "idle" =>
                                        ~Conflict(job'[t], job'[u])
    BY <2>2 DEF Duties, Busy
  <2> QED
    BY <2>4, <2>5 DEF Duties, Busy, Doing, Conflict
<1>3. ASSUME NEW s \in Slots, PlainStart(s) \/ CodeStart(s) \/ UpdateProfile(s) PROVE Duties'
  BY <1>3, PlainStarts, CodeStarts, ProfileStarts, DutiesKept
<1>4. ASSUME NEW s \in Slots, PassStep(s) \/ (CreateUser(s) /\ ~Registered) PROVE Duties'
  BY <1>4, PassSteps, CreateDoes, DutiesKept
<1>5. ASSUME NEW s \in Slots,
             \/ SetCode(s) \/ SetAttempts(s) \/ Mail(s)
             \/ GetAttempts(s) \/ DropCode(s) \/ CountMiss(s) \/ UseCode(s)
             \/ SetVerified(s) \/ SetPassword(s) \/ SaveProfile(s)
      PROVE  Duties'
  BY <1>5, IssueDoes, CheckDoes, AnswerDoes, RowDoes, DutiesKept
<1> QED
  BY <1>1, <1>2, <1>3, <1>4, <1>5, NextParts

LEMMA DutiesInit == Init => Duties
BY NoJobShape DEF Init, Duties, Doing, Busy

-----------------------------------------------------------------------------
(* Codes.  What stands under a key, and what the request that holds the    *)
(* key knows of it, when requests with one key wait for each other: a code *)
(* that is being looked at is gone or unchanged, and not used; and if no   *)
(* issue is torn the counter counts the wrong guesses of the code.         *)

KeySound(k) ==
  /\ code[k] <= issued[k] /\ code[k] \notin used[k] /\ used[k] \subseteq 1..issued[k]
  /\ issued[k] <= requests

Counted(k) ==
  ~TornIssues /\ code[k] # 0 /\ (\A s \in Slots : pc[s] = "counter" => job[s].key # k) =>
    attempts[k] = wrong[k] /\ lives[k] = code[k]

Held(p, k, c) ==
  /\ p \in {"attempts", "use"} => c \in (1..issued[k]) \ used[k] /\ code[k] \in {0, c}
  /\ p = "counter" => code[k] \in {0, c} /\ wrong[k] = 0
  /\ ~TornIssues /\ p = "miss" /\ code[k] # 0 => wrong[k] < MaxAttempts
  /\ p \notin {"idle", "counter", "mail", "saveProfile"} => issued[k] < requests

Safe ==
  /\ requests <= MaxRequests
  /\ \A k \in Keys : KeySound(k) /\ Counted(k)
  /\ \A s \in Slots : Held(pc[s], job[s].key, raw[s])

\* Nobody else holds the key of a request.
LEMMA Alone ==
  ASSUME Duties, ~Races, NEW s \in Slots
  PROVE  /\ \A here : Comes(s, here) /\ job'[s].key \in Keys =>
              \A t \in Slots : t # s /\ Busy(t) => job[t].key # job'[s].key
         /\ Busy(s) /\ job[s].key \in Keys =>
              \A t \in Slots : t # s /\ Busy(t) => job[t].key # job[s].key
BY DEF Comes, Duties, Conflict

\* A request that holds key k changes nothing of the other keys.
KeyOnly(k) ==
  \A l \in Keys \ {k} :
    /\ code'[l] = code[l] /\ attempts'[l] = attempts[l] /\ lives'[l] = lives[l]
    /\ issued'[l] = issued[l] /\ wrong'[l] = wrong[l] /\ used'[l] = used[l]

LEMMA SafeKey ==
  ASSUME Typed, Safe, NEW s \in Slots, NEW k, Others(s),
         k \in Keys => \A t \in Slots : t # s /\ Busy(t) => job[t].key # k,
         Busy(s) => job[s].key = k, pc'[s] # "idle" => job'[s].key = k,
         KeyOnly(k), requests <= requests', requests' \in Nat, requests' <= MaxRequests,
         k \in Keys => KeySound(k)' /\ Counted(k)',
         Held(pc[s], job[s].key, raw[s])'
  PROVE  Safe'
<1>1. ASSUME NEW l \in Keys PROVE KeySound(l)'
  <2>1. CASE l = k
    BY <2>1
  <2>2. CASE l # k
    <3>1. code'[l] = code[l] /\ issued'[l] = issued[l] /\ used'[l] = used[l]
      BY <2>2 DEF KeyOnly
    <3>2. issued[l] \in Nat /\ requests \in Nat
      BY DEF Typed, Store, Requests
    <3> QED
      BY <3>1, <3>2 DEF Safe, KeySound
  <2> QED
    BY <2>1, <2>2
<1>2. ASSUME NEW l \in Keys PROVE Counted(l)'
  <2>1. CASE l = k
    BY <2>1
  <2>2. CASE l # k
    <3>1. /\ code'[l] = code[l] /\ attempts'[l] = attempts[l] /\ lives'[l] = lives[l]
          /\ wrong'[l] = wrong[l]
      BY <2>2 DEF KeyOnly
    <3>2. ASSUME \A t \in Slots : pc'[t] = "counter" => job'[t].key # l
          PROVE  \A t \in Slots : pc[t] = "counter" => job[t].key # l
      BY <2>2, <3>2 DEF Others, Busy
    <3> QED
      BY <3>1, <3>2 DEF Safe, Counted
  <2> QED
    BY <2>1, <2>2
<1>3. ASSUME NEW t \in Slots PROVE Held(pc[t], job[t].key, raw[t])'
  <2>1. CASE t = s
    BY <2>1
  <2>2. CASE t # s
    <3>1. pc'[t] = pc[t] /\ job'[t] = job[t] /\ raw'[t] = raw[t]
      BY <2>2 DEF Others
    <3>2. CASE pc[t] \in {"idle", "saveProfile"}
      BY <3>1, <3>2 DEF Held
    <3>3. CASE pc[t] \notin {"idle", "saveProfile"}
      <4>1. job[t].key \in Keys \ {k}
        BY <2>2, <3>3 DEF Typed, Requests, Fits, Busy
      <4>2. /\ code'[job[t].key] = code[job[t].key] /\ issued'[job[t].key] = issued[job[t].key]
            /\ wrong'[job[t].key] = wrong[job[t].key] /\ used'[job[t].key] = used[job[t].key]
        BY <4>1 DEF KeyOnly
      <4>3. Held(pc[t], job[t].key, raw[t])
        BY DEF Safe
      <4>4. issued[job[t].key] \in Nat /\ requests \in Nat
        BY <4>1 DEF Typed, Store, Requests
      <4> QED
        BY <3>1, <4>2, <4>3, <4>4 DEF Held
    <3> QED
      BY <3>2, <3>3
  <2> QED
    BY <2>1, <2>2
<1> QED
  BY <1>1, <1>2, <1>3 DEF Safe

\* The requests that come in.
LEMMA SafeComes ==
  ASSUME Typed, Duties, ~Races, Safe, NEW s \in Slots, NEW here, Comes(s, here),
         here \notin {"counter", "use", "miss"},
         here = "attempts" => job'[s].key \in Keys /\ raw'[s] = code[job'[s].key] /\ raw'[s] # 0,
         here # "saveProfile" => job'[s].key \in Keys,
         UNCHANGED <<store, codes>>
  PROVE  Safe'
<1> USE DEF store, codes
<1>0. PICK k : k = job'[s].key
  OBVIOUS
<1>1. /\ Others(s) /\ requests' = requests + 1 /\ requests \in Nat /\ requests < MaxRequests
      /\ pc[s] = "idle" /\ pc'[s] = here /\ here # "idle"
  BY DEF Comes, Typed, Requests
<1>2. k \in Keys => \A t \in Slots : t # s /\ Busy(t) => job[t].key # k
  BY <1>0, Alone
<1>3. KeyOnly(k)
  BY DEF KeyOnly
<1>4. requests <= requests' /\ requests' \in Nat /\ requests' <= MaxRequests
  BY <1>1, CodesAssumption
<1>5. ASSUME k \in Keys
      PROVE  KeySound(k)' /\ Counted(k)'
  <2>1. KeySound(k) /\ Counted(k) /\ issued[k] \in Nat
    BY <1>5 DEF Safe, Typed, Store
  <2>2. KeySound(k)'
    BY <1>4, <1>1, <2>1 DEF KeySound
  <2>3. \A t \in Slots : pc[t] = "counter" => pc'[t] = "counter" /\ job'[t].key = job[t].key
    BY <1>1 DEF Others
  <2>4. Counted(k)'
    BY <2>1, <2>3 DEF Counted
  <2> QED
    BY <2>2, <2>4
<1>6. Held(pc[s], job[s].key, raw[s])'
  <2>1. CASE here = "saveProfile"
    BY <1>1, <2>1 DEF Held
  <2>2. CASE here # "saveProfile"
    <3>1. KeySound(k) /\ issued[k] \in Nat /\ code[k] \in Nat
      BY <1>0, <2>2 DEF Safe, Typed, Store
    <3>2. issued[k] < requests'
      BY <1>1, <3>1 DEF KeySound
    <3>3. here = "attempts" => raw'[s] \in (1..issued[k]) \ used[k] /\ code[k] \in {0, raw'[s]}
      BY <1>0, <3>1 DEF KeySound
    <3> QED
      BY <1>0, <1>1, <3>2, <3>3 DEF Held
  <2> QED
    BY <2>1, <2>2
<1> QED
  BY <1>0, <1>1, <1>2, <1>3, <1>4, <1>5, <1>6, SafeKey DEF Busy

\* Those that go on.
LEMMA SafeGoesOn ==
  ASSUME Typed, Duties, ~Races, Safe, NEW s \in Slots, NEW here, NEW next,
         GoesOn(s, here, next), NEW k, k = job[s].key, KeyOnly(k),
         k \in Keys => KeySound(k)' /\ Counted(k)',
         next # "idle" => Held(pc[s], job[s].key, raw[s])'
  PROVE  Safe'
<1>1. /\ Others(s) /\ requests' = requests /\ requests \in Nat /\ requests <= MaxRequests
      /\ Busy(s) /\ pc'[s] = next /\ (next # "idle" => job'[s] = job[s])
  BY DEF GoesOn, Typed, Requests, Safe, Busy
<1>2. k \in Keys => \A t \in Slots : t # s /\ Busy(t) => job[t].key # job[s].key
  BY <1>1, Alone
<1>3. Held(pc[s], job[s].key, raw[s])'
  BY <1>1 DEF Held
<1> QED
  BY <1>1, <1>2, <1>3, CodesAssumption, SafeKey

\* What the requests at a step hold.
LEMMA SafeHas ==
  ASSUME Typed, Safe, NEW s \in Slots, pc[s] \notin {"idle", "saveProfile"}, NEW k, k = job[s].key
  PROVE  /\ k \in Keys /\ KeySound(k) /\ Counted(k) /\ Held(pc[s], k, raw[s])
         /\ code[k] \in Nat /\ attempts[k] \in Nat \cup {Absent} /\ lives[k] \in Nat
         /\ issued[k] \in Nat /\ wrong[k] \in Nat /\ used[k] \subseteq Nat
         /\ raw[s] \in Nat /\ requests \in Nat
BY DEF Typed, Requests, Store, Fits, Safe

\* The steps that leave codes and counters alone.
LEMMA SafePass ==
  ASSUME Typed, Duties, ~Races, Safe, NEW s \in Slots, NEW here, NEW next, GoesOn(s, here, next),
         here \notin {"counter", "saveProfile"}, next \notin {"counter", "saveProfile"},
         UNCHANGED <<code, attempts, lives, issued, wrong, used>>,
         next \in {"idle", "mail"} \/ here # "mail",
         next # "idle" => Held(next, job[s].key, raw'[s])
  PROVE  Safe'
<1>1. /\ Others(s) /\ requests' = requests /\ pc[s] = here /\ pc'[s] = next /\ here # "idle"
      /\ next # "idle" => job'[s] = job[s]
  BY DEF GoesOn
<1>2. PICK k : k = job[s].key
  OBVIOUS
<1>3. k \in Keys /\ KeySound(k) /\ Counted(k)
  BY <1>1, <1>2, SafeHas
<1>4. KeySound(k)' /\ KeyOnly(k)
  BY <1>1, <1>3 DEF KeySound, KeyOnly
<1>5. ASSUME \A t \in Slots : pc'[t] = "counter" => job'[t].key # k
      PROVE  \A t \in Slots : pc[t] = "counter" => job[t].key # k
  BY <1>1, <1>5 DEF Others
<1>6. Counted(k)'
  BY <1>3, <1>5 DEF Counted
<1>7. next # "idle" => Held(pc[s], job[s].key, raw[s])'
  BY <1>1 DEF Held
<1> QED
  BY <1>2, <1>4, <1>6, <1>7, SafeGoesOn

LEMMA SafeIssue ==
  ASSUME Typed, Duties, ~Races, Safe, NEW s \in Slots, SetCode(s) \/ SetAttempts(s) \/ Mail(s)
  PROVE  Safe'
<1> USE DEF store, codes
<1>1. CASE SetCode(s)
  <2>1. GoesOn(s, "issue", "counter") /\ raw'[s] = issued[job[s].key] + 1
    BY <1>1, IssueDoes
  <2>2. pc[s] = "issue" /\ pc'[s] = "counter" /\ job'[s] = job[s] /\ requests' = requests
    BY <2>1 DEF GoesOn
  <2>3. PICK k : k = job[s].key
    OBVIOUS
  <2>4. /\ k \in Keys /\ KeySound(k) /\ Counted(k) /\ Held(pc[s], k, raw[s])
        /\ issued[k] \in Nat /\ used[k] \subseteq Nat /\ requests \in Nat
    BY <2>2, <2>3, SafeHas
  <2>5. /\ code' = [code EXCEPT ![k] = issued[k] + 1]
        /\ issued' = [issued EXCEPT ![k] = issued[k] + 1]
        /\ wrong' = [wrong EXCEPT ![k] = 0] /\ UNCHANGED <<attempts, lives, used>>
    BY <1>1, <2>3 DEF SetCode
  <2>6. /\ code'[k] = issued[k] + 1 /\ issued'[k] = issued[k] + 1 /\ wrong'[k] = 0
        /\ used'[k] = used[k] /\ KeyOnly(k)
    BY <2>4, <2>5 DEF Typed, Store, KeyOnly
  <2>7. issued[k] < requests
    BY <2>2, <2>4 DEF Held
  <2>8. KeySound(k)'
    BY <2>2, <2>4, <2>6, <2>7 DEF KeySound
  <2>9. Counted(k)'
    BY <2>2, <2>3 DEF Counted
  <2>10. Held(pc[s], job[s].key, raw[s])'
    BY <2>1, <2>2, <2>3, <2>6 DEF Held
  <2> QED
    BY <2>1, <2>3, <2>6, <2>8, <2>9, <2>10, SafeGoesOn
<1>2. CASE SetAttempts(s)
  <2>1. GoesOn(s, "counter", "mail")
    BY <1>2, IssueDoes
  <2>2. pc[s] = "counter" /\ pc'[s] = "mail" /\ job'[s] = job[s] /\ requests' = requests
    BY <2>1 DEF GoesOn
  <2>3. PICK k : k = job[s].key
    OBVIOUS
  <2>4. k \in Keys /\ KeySound(k) /\ Held(pc[s], k, raw[s])
    BY <2>2, <2>3, SafeHas
  <2>5. /\ attempts' = [attempts EXCEPT ![k] = 0] /\ lives' = [lives EXCEPT ![k] = raw[s]]
        /\ UNCHANGED <<code, issued, wrong, used>>
    BY <1>2, <2>3 DEF SetAttempts
  <2>6. attempts'[k] = 0 /\ lives'[k] = raw[s] /\ KeyOnly(k)
    BY <2>4, <2>5 DEF Typed, Store, KeyOnly
  <2>7. KeySound(k)'
    BY <2>2, <2>4, <2>5 DEF KeySound
  <2>8. Counted(k)'
    BY <2>2, <2>4, <2>5, <2>6 DEF Counted, Held
  <2>9. Held(pc[s], job[s].key, raw[s])'
    BY <2>2 DEF Held
  <2> QED
    BY <2>1, <2>3, <2>6, <2>7, <2>8, <2>9, SafeGoesOn
<1>3. CASE Mail(s)
  <2>1. GoesOn(s, "mail", "idle")
    BY <1>3, IssueDoes
  <2> QED
    BY <1>3, <2>1, SafePass DEF Mail
<1> QED
  BY <1>1, <1>2, <1>3

\* A code that is deleted is no longer one to count for.
LEMMA SafeDeleted ==
  ASSUME Typed, Duties, ~Races, Safe, NEW s \in Slots, NEW here, NEW next, GoesOn(s, here, next),
         here # "saveProfile", NEW k, k = job[s].key, Deleted(k), UNCHANGED <<issued, wrong>>,
         \A l \in Keys : used'[l] = used[l] \/ (l = k /\ used'[l] = used[l] \cup {raw[s]}),
         here = "use" \/ used' = used,
         next \notin {"attempts", "use", "counter"},
         next \in {"idle", "mail"} \/ here \notin {"counter", "mail"}
  PROVE  Safe'
<1>1. /\ pc[s] = here /\ pc'[s] = next /\ (next # "idle" => job'[s] = job[s])
      /\ requests' = requests /\ here # "idle"
  BY DEF GoesOn
<1>2. /\ k \in Keys /\ KeySound(k) /\ Held(pc[s], k, raw[s])
      /\ issued[k] \in Nat /\ wrong[k] \in Nat /\ used[k] \subseteq Nat
  BY <1>1, SafeHas
<1>3. code'[k] = 0 /\ KeyOnly(k) /\ used'[k] \subseteq 1..issued[k]
  <2>1. code'[k] = 0 /\ KeyOnly(k)
    BY <1>2 DEF Deleted, Typed, Store, KeyOnly
  <2>2. here = "use" => raw[s] \in 1..issued[k]
    BY <1>1, <1>2 DEF Held
  <2> QED
    BY <1>2, <2>1, <2>2 DEF KeySound
<1>4. KeySound(k)'
  BY <1>1, <1>2, <1>3 DEF KeySound
<1>5. Counted(k)'
  BY <1>3 DEF Counted
<1>6. next # "idle" => Held(pc[s], job[s].key, raw[s])'
  <2>1. CASE next \in {"idle", "mail"}
    BY <1>1, <2>1 DEF Held
  <2>2. CASE next \notin {"idle", "mail"}
    <3>1. issued[k] < requests
      BY <1>1, <1>2, <2>2 DEF Held
    <3> QED
      BY <1>1, <1>3, <3>1 DEF Held
  <2> QED
    BY <2>1, <2>2
<1> QED
  BY <1>3, <1>4, <1>5, <1>6, SafeGoesOn

LEMMA SafeVerify ==
  ASSUME Typed, Duties, ~Races, Safe, NEW s \in Slots,
         GetAttempts(s) \/ DropCode(s) \/ CountMiss(s) \/ UseCode(s)
  PROVE  Safe'
<1> USE DEF store, codes
<1>0. PICK k : k = job[s].key
  OBVIOUS
<1>1. CASE GetAttempts(s)
  <2>1. PICK next \in {"drop", "miss", "use"} :
          GoesOn(s, "attempts", next) /\ (next # "drop" => ~TooMany(attempts[job[s].key]))
    BY <1>1, CheckDoes
  <2>2. raw'[s] = raw[s] /\ UNCHANGED <<store, codes, row>>
    BY <1>1, CheckDoes
  <2>3. pc[s] = "attempts"
    BY <2>1 DEF GoesOn
  <2>4. /\ k \in Keys /\ Counted(k) /\ Held(pc[s], k, raw[s])
        /\ attempts[k] \in Nat \cup {Absent}
    BY <1>0, <2>3, SafeHas
  <2>5. \A t \in Slots : pc[t] = "counter" => job[t].key # k
    BY <1>0, <2>3, <2>4, Alone DEF Busy
  <2>6. ~TornIssues /\ next = "miss" /\ code[k] # 0 => wrong[k] < MaxAttempts
    BY <1>0, <2>1, <2>4, <2>5, CodesAssumption DEF Counted, TooMany, Absent
  <2>7. Held(next, job[s].key, raw'[s])
    BY <1>0, <2>2, <2>3, <2>4, <2>6 DEF Held
  <2> QED
    BY <2>1, <2>2, <2>7, SafePass
<1>2. CASE DropCode(s)
  <2>1. GoesOn(s, "drop", "idle")
    BY <1>2, AnswerDoes
  <2>2. Deleted(k) /\ UNCHANGED codes
    BY <1>0, <1>2 DEF DropCode
  <2> QED
    BY <1>0, <2>1, <2>2, SafeDeleted
<1>3. CASE UseCode(s)
  <2>1. PICK next \in {"find", "setPassword", "verify"} : GoesOn(s, "use", next)
    BY <1>3, AnswerDoes
  <2>2. /\ Deleted(k) /\ used' = [used EXCEPT ![k] = @ \cup {raw[s]}]
        /\ UNCHANGED <<issued, wrong>>
    BY <1>0, <1>3, Zenon DEF UseCode
  <2>3. \A l \in Keys : used'[l] = used[l] \/ (l = k /\ used'[l] = used[l] \cup {raw[s]})
    BY <2>2 DEF Typed, Store
  <2> QED
    BY <1>0, <2>1, <2>2, <2>3, SafeDeleted
<1>4. CASE CountMiss(s)
  <2>1. GoesOn(s, "miss", "idle")
    BY <1>4, AnswerDoes
  <2>2. pc[s] = "miss" /\ pc'[s] = "idle" /\ requests' = requests
    BY <2>1 DEF GoesOn
  <2>3. /\ k \in Keys /\ KeySound(k) /\ Counted(k) /\ attempts[k] \in Nat \cup {Absent}
        /\ wrong[k] \in Nat
    BY <1>0, <2>2, SafeHas
  <2> DEFINE n == IF attempts[k] = Absent THEN 1 ELSE attempts[k] + 1
  <2>4. /\ attempts' = [attempts EXCEPT ![k] = n] /\ wrong' = [wrong EXCEPT ![k] = wrong[k] + 1]
        /\ UNCHANGED <<code, lives, issued, used>>
    BY <1>0, <1>4 DEF CountMiss
  <2>5. attempts[k] = wrong[k] => n = wrong[k] + 1
    BY <2>3 DEF Absent
  <2> HIDE DEF n
  <2>6. attempts'[k] = n /\ wrong'[k] = wrong[k] + 1 /\ KeyOnly(k)
    BY <2>3, <2>4 DEF Typed, Store, KeyOnly
  <2>7. KeySound(k)'
    BY <2>2, <2>3, <2>4 DEF KeySound
  <2>8. \A t \in Slots : pc[t] = "counter" => job[t].key # k
    BY <1>0, <2>2, <2>3, Alone DEF Busy
  <2>9. Counted(k)'
    BY <2>3, <2>4, <2>5, <2>6, <2>8 DEF Counted
  <2> QED
    BY <1>0, <2>1, <2>6, <2>7, <2>9, SafeGoesOn
<1> QED
  BY <1>1, <1>2, <1>3, <1>4

\* The steps that concern no code.
LEMMA SafeRest ==
  ASSUME Typed, Duties, ~Races, Safe, NEW s \in Slots,
         \/ PassStep(s) \/ CreateUser(s)
         \/ SetVerified(s) \/ SetPassword(s) \/ SaveProfile(s)
  PROVE  Safe'
<1> USE DEF store, codes
<1>1. ASSUME NEW here \in {"peek", "find", "insert", "touch", "device", "create"},
             NEW next \in {"find", "issue", "insert", "touch", "idle"},
             GoesOn(s, here, next), UNCHANGED <<store, codes>>
      PROVE  Safe'
  <2>1. pc[s] = here
    BY <1>1 DEF GoesOn
  <2>2. Held(pc[s], job[s].key, raw[s])
    BY DEF Safe
  <2>3. next # "idle" => Held(next, job[s].key, raw'[s])
    BY <2>1, <2>2 DEF Held
  <2> QED
    BY <1>1, <2>3, SafePass
<1>2. CASE PassStep(s)
  BY <1>1, <1>2, PassSteps
<1>3. CASE CreateUser(s)
  <2>1. CASE Registered
    BY <1>2, <1>3, <2>1, <1>1, PassSteps DEF PassStep
  <2>2. CASE ~Registered
    BY <1>1, <1>3, <2>2, CreateDoes
  <2> QED
    BY <2>1, <2>2
<1>4. CASE SetVerified(s) \/ SetPassword(s)
  <2>1. GoesOn(s, "verify", "idle") \/ GoesOn(s, "setPassword", "idle")
    BY <1>4, RowDoes
  <2>2. UNCHANGED <<store, codes>>
    BY <1>4 DEF SetVerified, SetPassword
  <2> QED
    BY <2>1, <2>2, SafePass
<1>5. CASE SaveProfile(s)
  <2>1. GoesOn(s, "saveProfile", "idle")
    BY <1>5, RowDoes
  <2>2. UNCHANGED <<store, codes>>
    BY <1>5 DEF SaveProfile
  <2>3. PICK k : k = job[s].key
    OBVIOUS
  <2>4. pc[s] = "saveProfile" /\ pc'[s] = "idle" /\ requests' = requests /\ Others(s)
    BY <2>1 DEF GoesOn
  <2>5. KeyOnly(k)
    BY <2>2 DEF KeyOnly
  <2>6. k \in Keys => KeySound(k)'
    BY <2>2, <2>4 DEF Safe, KeySound
  <2>7. \A t \in Slots : pc[t] = "counter" => pc'[t] = "counter" /\ job'[t] = job[t]
    BY <2>4 DEF Others
  <2>8. k \in Keys => Counted(k)'
    BY <2>2, <2>7 DEF Safe, Counted
  <2> QED
    BY <2>1, <2>3, <2>5, <2>6, <2>8, SafeGoesOn
<1> QED
  BY <1>2, <1>3, <1>4, <1>5

\* Codes and counters that expire.
LEMMA SafeExpire ==
  ASSUME Typed, Safe, NEW k \in Keys, Expire(k) \/ ExpireAttempts(k)
  PROVE  Safe'
<1>1. UNCHANGED <<issued, wrong, used, requests, pc, job, raw>>
  BY DEF Expire, ExpireAttempts, codes
<1>2. \A l \in Keys : code'[l] \in {0, code[l]} /\ 0 \notin used[l]
  BY DEF Expire, ExpireAttempts, Typed, Store, Safe, KeySound
<1>3. \A l \in Keys : KeySound(l)'
  <2>1. \A l \in Keys : issued[l] \in Nat
    BY DEF Typed, Store
  <2> QED
    BY <1>1, <1>2, <2>1 DEF Safe, KeySound
<1>4. ASSUME NEW l \in Keys PROVE Counted(l)'
  <2>1. CASE code'[l] = 0 \/ TornIssues
    BY <2>1 DEF Counted
  <2>2. CASE code'[l] # 0 /\ \E t \in Slots : pc[t] = "counter" /\ job[t].key = l
    BY <1>1, <2>2 DEF Counted
  <2>3. CASE /\ ~TornIssues /\ code'[l] # 0
             /\ \A t \in Slots : pc[t] = "counter" => job[t].key # l
    <3>1. code'[l] = code[l] /\ attempts[l] = wrong[l] /\ lives[l] = code[l] /\ code[l] \in Nat
      BY <1>2, <2>3 DEF Safe, Counted, Typed, Store
    <3>2. attempts'[l] = attempts[l] /\ lives'[l] = lives[l]
      <4>1. CASE Expire(k)
        BY <4>1 DEF Expire
      <4>2. CASE ExpireAttempts(k) /\ k # l
        BY <4>2 DEF ExpireAttempts, Typed, Store
      <4>3. CASE ExpireAttempts(k) /\ k = l
        BY <2>3, <3>1, <4>3 DEF ExpireAttempts
      <4> QED
        BY <4>1, <4>2, <4>3
    <3> QED
      BY <1>1, <3>1, <3>2 DEF Counted
  <2> QED
    BY <2>1, <2>2, <2>3
<1>5. ASSUME NEW t \in Slots PROVE Held(pc[t], job[t].key, raw[t])'
  <2>1. Held(pc[t], job[t].key, raw[t])
    BY DEF Safe
  <2>2. pc[t] \in {"attempts", "use", "counter", "miss"} => job[t].key \in Keys
    BY DEF Typed, Requests, Fits
  <2> QED
    BY <1>1, <1>2, <2>1, <2>2 DEF Held
<1> QED
  BY <1>1, <1>3, <1>4, <1>5 DEF Safe

\* Crashes and failed statements.
LEMMA SafeTroubled ==
  ASSUME Typed, Safe, Troubled
  PROVE  Safe'
<1>1. UNCHANGED <<code, attempts, lives, issued, wrong, used, requests>>
  BY DEF Troubled, store, codes
<1>2. \A k \in Keys : KeySound(k)'
  BY <1>1 DEF Safe, KeySound
<1>3. ~TornIssues => \A t \in Slots : pc[t] = "counter" => pc'[t] = "counter" /\ job'[t] = job[t]
  BY DEF Troubled, Spared
<1>4. \A k \in Keys : Counted(k)'
  BY <1>1, <1>3 DEF Safe, Counted
<1>5. ASSUME NEW t \in Slots PROVE Held(pc[t], job[t].key, raw[t])'
  <2>1. CASE Spared(t)
    BY <1>1, <2>1 DEF Safe, Spared, Held
  <2>2. CASE Ended(t)
    BY <2>2 DEF Ended, Held
  <2> QED
    BY <2>1, <2>2 DEF Troubled
<1> QED
  BY <1>1, <1>2, <1>4, <1>5 DEF Safe

LEMMA SafeNext ==
  ASSUME Typed, Duties, ~Races, Safe, [Next]_vars
  PROVE  Safe'
<1>1. CASE UNCHANGED vars
  BY <1>1 DEF vars, Safe, KeySound, Counted, Held
<1>2. ASSUME NEW k \in Keys, Expire(k) \/ ExpireAttempts(k) PROVE Safe'
  BY <1>2, SafeExpire
<1>3. CASE Crash \/ \E s \in Slots : StatementFails(s)
  BY <1>3, TroubleDoes, SafeTroubled
<1>4. ASSUME NEW s \in Slots, PlainStart(s) PROVE Safe'
  <2>1. PICK here \in {"device", "peek", "create", "issue"} : Comes(s, here)
    BY <1>4, PlainStarts
  <2>2. UNCHANGED <<store, codes>>
    BY <1>4, PlainStarts
  <2>3. job'[s].key \in Keys
    BY <1>4, PlainStarts
  <2> QED
    BY <2>1, <2>2, <2>3, SafeComes
<1>5. ASSUME NEW s \in Slots, CodeStart(s) PROVE Safe'
  BY <1>5, CodeStarts, SafeComes
<1>6. ASSUME NEW s \in Slots, UpdateProfile(s) PROVE Safe'
  BY <1>6, ProfileStarts, SafeComes
<1>7. ASSUME NEW s \in Slots, PassStep(s) \/ (CreateUser(s) /\ ~Registered) PROVE Safe'
  BY <1>7, SafeRest
<1>8. ASSUME NEW s \in Slots, SetCode(s) \/ SetAttempts(s) \/ Mail(s) PROVE Safe'
  BY <1>8, SafeIssue
<1>9. ASSUME NEW s \in Slots, GetAttempts(s) \/ DropCode(s) \/ CountMiss(s) \/ UseCode(s)
      PROVE  Safe'
  BY <1>9, SafeVerify
<1>10. ASSUME NEW s \in Slots, SetVerified(s) \/ SetPassword(s) \/ SaveProfile(s) PROVE Safe'
  BY <1>10, SafeRest
<1> QED
  BY <1>1, <1>2, <1>3, <1>4, <1>5, <1>6, <1>7, <1>8, <1>9, <1>10, NextParts

LEMMA SafeInit == Init => Safe
<1>1. ASSUME Init, NEW k \in Keys PROVE KeySound(k) /\ Counted(k)
  BY <1>1 DEF Init, KeySound, Counted
<1>2. ASSUME Init, NEW s \in Slots PROVE Held(pc[s], job[s].key, raw[s])
  BY <1>2 DEF Init, Held
<1>3. Init => requests <= MaxRequests
  BY CodesAssumption DEF Init
<1> QED
  BY <1>1, <1>2, <1>3 DEF Safe

-----------------------------------------------------------------------------
(* The users row.  What a request that will write it holds: a row that was *)
(* read, maybe long ago, or a password that answers to a code of its own.  *)

Answers(k) == used[k] \cap mailed[k]

Row ==
  /\ password <= passwords /\ passwords <= 1 + Cardinality(Answers("reset"))
  /\ password = 0 => passwords = 0
  /\ verified => Answers("signup") # {}

Ready(p, e) ==
  /\ password = 0 => p \in {"idle", "create"}
  /\ p \in {"saveProfile", "setPassword"} => e.password # 0 /\ e.password <= passwords
  /\ p = "saveProfile" /\ e.verified => Answers("signup") # {}
  /\ p = "verify" => Answers("signup") # {}

Answered == Row /\ \A s \in Slots : Ready(pc[s], entity[s])

\* No password is forgotten: there are no fewer, and always one.
Forward == passwords <= passwords' /\ (password' = 0 => password = 0)

\* Steps that do not take a reset code back.
Returned ==
  /\ used["signup"] \subseteq used'["signup"] /\ mailed["signup"] \subseteq mailed'["signup"]
  /\ used["reset"] \subseteq used'["reset"] /\ mailed["reset"] \subseteq mailed'["reset"]

\* The codes that came back are finitely many, and get no fewer.
LEMMA AnswersGrow ==
  ASSUME Typed, Typed', Safe, Safe', Returned
  PROVE  /\ IsFiniteSet(Answers("reset")) /\ Cardinality(Answers("reset")) \in Nat
         /\ Cardinality(Answers("reset"))' \in Nat
         /\ Cardinality(Answers("reset")) <= Cardinality(Answers("reset"))'
<1>0. "reset" \in Keys
  BY DEF Keys
<1>1. ASSUME NEW n \in Nat, NEW S \in SUBSET (1..n)
      PROVE  IsFiniteSet(S) /\ Cardinality(S) \in Nat
  <2>1. IsFiniteSet(1..n)
    BY FS_Interval
  <2>2. IsFiniteSet(S)
    BY <2>1, FS_Subset
  <2> QED
    BY <2>2, FS_CardinalityType
<1>2. issued["reset"] \in Nat /\ Answers("reset") \in SUBSET (1..issued["reset"])
  BY <1>0 DEF Typed, Store, Safe, KeySound, Answers
<1>3. issued'["reset"] \in Nat /\ Answers("reset")' \in SUBSET (1..issued'["reset"])
  BY <1>0 DEF Typed, Store, Safe, KeySound, Answers
<1>4. Answers("reset") \subseteq Answers("reset")'
  BY DEF Returned, Answers
<1>5. IsFiniteSet(Answers("reset")') /\ Cardinality(Answers("reset")') \in Nat
  BY <1>1, <1>3
<1>6. Cardinality(Answers("reset")) <= Cardinality(Answers("reset")')
  BY <1>4, <1>5, FS_Subset
<1>7. Cardinality(Answers("reset"))' = Cardinality(Answers("reset")')
  OBVIOUS
<1> QED
  BY <1>1, <1>2, <1>5, <1>6, <1>7

\* What a request does to the others: they are ready still.
LEMMA AnsweredStep ==
  ASSUME Typed, Typed', Answered, NEW s \in Slots, Others(s), Forward, Returned,
         Row', Ready(pc[s], entity[s])'
  PROVE  Answered'
<1>1. passwords \in Nat /\ passwords' \in Nat
  BY DEF Typed, Account
<1>2. Answers("signup") \subseteq Answers("signup")'
  BY DEF Returned, Answers
<1>3. ASSUME NEW t \in Slots, t # s PROVE Ready(pc[t], entity[t])'
  <2>1. pc'[t] = pc[t] /\ entity'[t] = entity[t] /\ Ready(pc[t], entity[t])
    BY <1>3 DEF Others, Answered
  <2>2. entity[t].password \in Nat
    BY EntityParts DEF Typed, Requests
  <2> QED
    BY <1>1, <1>2, <1>3, <2>1, <2>2 DEF Ready, Forward
<1> QED
  BY <1>3 DEF Answered

\* The row that is not written keeps its answers.
LEMMA RowKept ==
  ASSUME Typed, Typed', Safe, Safe', Answered, Returned, UNCHANGED row
  PROVE  Row' /\ Forward
<1> USE DEF row
<1>1. {"signup", "reset"} \subseteq Keys
  BY DEF Keys
<1>2. password \in Nat /\ passwords \in Nat /\ verified \in BOOLEAN
  BY DEF Typed, Account
<1>3. /\ Cardinality(Answers("reset")) \in Nat /\ Cardinality(Answers("reset"))' \in Nat
      /\ Cardinality(Answers("reset")) <= Cardinality(Answers("reset"))'
  BY AnswersGrow
<1>4. Answers("signup") \subseteq Answers("signup")'
  BY DEF Returned, Answers
<1> QED
  BY <1>2, <1>3, <1>4 DEF Answered, Row, Forward

\* The steps that leave the row alone and take no reset code back.
LEMMA AnsweredQuiet ==
  ASSUME Typed, Typed', Safe, Safe', Answered, NEW s \in Slots, Others(s),
         UNCHANGED row, Returned, Ready(pc[s], entity[s])'
  PROVE  Answered' /\ Forward
<1>1. Row' /\ Forward
  BY RowKept
<1> QED
  BY <1>1, AnsweredStep DEF row

LEMMA AnsweredStarts ==
  ASSUME Typed, Typed', Safe, Safe', Answered, NEW s \in Slots,
         PlainStart(s) \/ CodeStart(s) \/ UpdateProfile(s)
  PROVE  Answered' /\ Forward
<1>1. UNCHANGED <<store, codes, row>>
  BY PlainStarts, CodeStarts, ProfileStarts
<1>2. PICK here : Comes(s, here)
  BY PlainStarts, CodeStarts, ProfileStarts
<1>3. Others(s) /\ pc'[s] = here
  BY <1>2 DEF Comes
<1>4. Returned
  BY <1>1 DEF codes, Returned
<1>5. Ready(pc[s], entity[s])'
  <2>1. CASE PlainStart(s)
    <3>1. PICK first \in {"device", "peek", "create", "issue"} :
            Comes(s, first) /\ (first # "create" => Registered)
      BY <2>1, PlainStarts
    <3>2. pc'[s] = first
      BY <3>1 DEF Comes
    <3> QED
      BY <1>1, <3>1, <3>2 DEF Ready, Registered, row
  <2>2. CASE CodeStart(s)
    <3>1. pc'[s] = "attempts" /\ Registered
      BY <2>2, CodeStarts DEF Comes
    <3> QED
      BY <1>1, <3>1 DEF Ready, Registered, row
  <2>3. CASE UpdateProfile(s)
    <3>1. pc'[s] = "saveProfile" /\ Registered /\ entity'[s] = Entity(password, verified)
      BY <2>3, ProfileStarts DEF Comes
    <3>2. entity'[s].password = password /\ entity'[s].verified = verified
      BY <3>1, EntityShape DEF Typed, Account
    <3>3. password' # 0 /\ password <= passwords' /\ (verified => Answers("signup")' # {})
      BY <1>1, <3>1 DEF Registered, row, codes, Answered, Row, Answers
    <3> QED
      <4>1. pc'[s] = "saveProfile"
        BY <3>1
      <4>2. entity'[s].password # 0 /\ entity'[s].password <= passwords'
        BY <1>1, <3>1, <3>2, <3>3 DEF Registered
      <4>3. entity'[s].verified => Answers("signup")' # {}
        BY <3>2, <3>3, Zenon
      <4> QED
        BY <3>3, <4>1, <4>2, <4>3 DEF Ready
  <2> QED
    BY <2>1, <2>2, <2>3
<1> QED
  BY <1>1, <1>3, <1>4, <1>5, AnsweredQuiet

LEMMA AnsweredSteps ==
  ASSUME Typed, Typed', Duties, Safe, Safe', Answered, NEW s \in Slots,
         \/ PassStep(s) \/ SetCode(s) \/ SetAttempts(s) \/ Mail(s)
         \/ GetAttempts(s) \/ DropCode(s) \/ CountMiss(s)
  PROVE  Answered' /\ Forward
<1>1. UNCHANGED <<used, row>> /\ \A k \in Keys : mailed[k] \subseteq mailed'[k]
  <2>1. CASE Mail(s)
    BY <2>1 DEF Mail, Typed, Store
  <2>2. CASE PassStep(s) \/ GetAttempts(s)
    BY <2>2, PassSteps, CheckDoes DEF codes
  <2>3. CASE SetCode(s) \/ SetAttempts(s) \/ DropCode(s) \/ CountMiss(s)
    BY <2>3 DEF SetCode, SetAttempts, DropCode, CountMiss, codes
  <2> QED
    BY <2>1, <2>2, <2>3
<1>2. PICK here, next : /\ GoesOn(s, here, next) /\ (here = "create" => next = "idle")
                        /\ next \notin {"saveProfile", "setPassword", "verify"}
  <2>1. CASE PassStep(s)
    BY <2>1, PassSteps
  <2>2. CASE SetCode(s) \/ SetAttempts(s) \/ Mail(s)
    BY <2>2, IssueDoes
  <2>3. CASE GetAttempts(s)
    BY <2>3, CheckDoes
  <2>4. CASE DropCode(s) \/ CountMiss(s)
    <3>1. GoesOn(s, "drop", "idle") \/ GoesOn(s, "miss", "idle")
      BY <2>4, AnswerDoes
    <3> QED
      BY <3>1
  <2> QED
    BY <2>1, <2>2, <2>3, <2>4
<1>3. Returned
  BY <1>1 DEF Returned, Keys
<1>4. Others(s) /\ pc[s] = here /\ pc'[s] = next /\ here # "idle"
  BY <1>2 DEF GoesOn
<1>5. Ready(pc[s], entity[s])'
  BY <1>1, <1>2, <1>4 DEF Ready, Answered, row
<1> QED
  BY <1>1, <1>3, <1>4, <1>5, AnsweredQuiet

\* The first password.
LEMMA AnsweredCreate ==
  ASSUME Typed, Typed', Duties, Safe, Safe', Answered, NEW s \in Slots,
         CreateUser(s), ~Registered
  PROVE  Answered' /\ Forward
<1>1. PICK next \in {"find", "issue"} : GoesOn(s, "create", next)
  BY CreateDoes
<1>2. password' = 1 /\ passwords' = 1 /\ UNCHANGED <<store, codes, verified>> /\ password = 0
  BY CreateDoes DEF Registered
<1>3. Others(s) /\ pc'[s] = next
  BY <1>1 DEF GoesOn
<1>4. Returned
  BY <1>2 DEF codes, Returned
<1>5. \A t \in Slots : pc[t] \in {"idle", "create"}
  BY <1>2 DEF Answered, Ready
<1>6. Cardinality(Answers("reset"))' \in Nat
  BY <1>4, AnswersGrow
<1>7. Answers("signup")' = Answers("signup")
  BY <1>2 DEF codes, Answers
<1>8. Row'
  BY <1>2, <1>6, <1>7 DEF Row, Answered
<1>9. passwords \in Nat /\ passwords <= 1 /\ verified \in BOOLEAN
  BY <1>2 DEF Typed, Account, Answered, Row
<1>10. Forward
  BY <1>2, <1>9 DEF Forward
<1>11. Ready(pc[s], entity[s])'
  BY <1>2, <1>3 DEF Ready
<1> QED
  BY <1>3, <1>4, <1>5, <1>8, <1>10, <1>11, AnsweredStep

\* A code is accepted: a password of its own for a reset, the proof that the
\* address is the user's for a verification.
LEMMA AnsweredUse ==
  ASSUME Typed, Typed', Duties, Admitted, Safe, Safe', Answered, NEW s \in Slots, UseCode(s)
  PROVE  Answered' /\ Forward
<1>1. PICK next \in {"find", "setPassword", "verify"} :
        /\ GoesOn(s, "use", next)
        /\ next = "setPassword" <=> job[s].op = "reset"
        /\ next = "verify" => job[s].op = "verifyEmail"
  BY AnswerDoes
<1>2. pc[s] = "use" /\ pc'[s] = next /\ Others(s)
  BY <1>1 DEF GoesOn
<1>3. PICK k : k = job[s].key
  OBVIOUS
<1>4. k \in Keys /\ raw[s] \in 1..issued[k] /\ raw[s] \notin used[k] /\ raw[s] \in mailed[k]
  <2>1. k \in Keys /\ Held(pc[s], k, raw[s])
    BY <1>2, <1>3, SafeHas
  <2>2. raw[s] \in mailed[k]
    BY <1>2, <1>3 DEF Admitted, Cleared
  <2> QED
    BY <1>2, <2>1, <2>2 DEF Held
<1>5. /\ used' = [used EXCEPT ![k] = @ \cup {raw[s]}] /\ UNCHANGED <<mailed, password, verified>>
      /\ passwords' = IF job[s].op = "reset" THEN passwords + 1 ELSE passwords
  BY <1>3, Zenon DEF UseCode
<1>6. /\ used'[k] = used[k] \cup {raw[s]}
      /\ \A l \in Keys : used[l] \subseteq used'[l]
  BY <1>4, <1>5 DEF Typed, Store
<1>7. Returned
  BY <1>5, <1>6 DEF Returned, Keys
<1>8. password \in Nat /\ passwords \in Nat /\ verified \in BOOLEAN /\ password # 0
  BY <1>2 DEF Typed, Account, Answered, Ready
<1>9. CASE job[s].op = "reset"
  <2>1. k = "reset" /\ passwords' = passwords + 1 /\ entity'[s] = Entity(passwords + 1, FALSE)
    BY <1>2, <1>3, <1>5, <1>9, AnswerDoes DEF Duties, Doing
  <2>2. Answers("reset")' = Answers("reset") \cup {raw[s]} /\ raw[s] \notin Answers("reset")
    BY <1>4, <1>5, <1>6, <2>1 DEF Answers
  <2>3. /\ IsFiniteSet(Answers("reset")) /\ Cardinality(Answers("reset")) \in Nat
        /\ Cardinality(Answers("reset"))' \in Nat
    BY <1>7, AnswersGrow
  <2>4. Cardinality(Answers("reset"))' = Cardinality(Answers("reset")) + 1
    <3>1. Cardinality(Answers("reset") \cup {raw[s]}) = Cardinality(Answers("reset")) + 1
      BY <2>2, <2>3, FS_AddElement
    <3> QED
      BY <2>2, <3>1
  <2>5. Answers("signup") \subseteq Answers("signup")'
    BY <1>7 DEF Returned, Answers
  <2>6. Row'
    BY <1>5, <1>8, <2>1, <2>3, <2>4, <2>5 DEF Row, Answered
  <2>7. Forward
    BY <1>5, <1>8, <2>1 DEF Forward
  <2>8. entity'[s].password = passwords + 1
    <3>1. passwords + 1 \in Nat /\ FALSE \in BOOLEAN
      BY <1>8
    <3> QED
      BY <2>1, <3>1, EntityShape
  <2>9. Ready(pc[s], entity[s])'
    <3>1. pc'[s] = "setPassword" /\ password' # 0
      BY <1>1, <1>2, <1>5, <1>8, <1>9
    <3>2. passwords + 1 \in Nat /\ passwords + 1 # 0 /\ passwords + 1 <= passwords'
      BY <1>8, <2>1
    <3> QED
      BY <2>8, <3>1, <3>2 DEF Ready
  <2> QED
    BY <1>2, <1>5, <1>7, <2>6, <2>7, <2>9, AnsweredStep
<1>10. CASE job[s].op # "reset"
  <2>1. UNCHANGED row
    BY <1>5, <1>10 DEF row
  <2>2. next = "verify" => Answers("signup")' # {}
    <3>1. next = "verify" => k = "signup"
      BY <1>1, <1>2, <1>3 DEF Duties, Doing
    <3> QED
      BY <1>4, <1>5, <1>6, <3>1 DEF Answers
  <2>3. Ready(pc[s], entity[s])'
    BY <1>1, <1>2, <1>5, <1>8, <1>10, <2>2 DEF Ready
  <2> QED
    BY <1>2, <1>7, <2>1, <2>3, AnsweredQuiet
<1> QED
  BY <1>9, <1>10

\* The row is written.
LEMMA AnsweredRow ==
  ASSUME Typed, Typed', Duties, Safe, Safe', Answered, NEW s \in Slots,
         SetVerified(s) \/ SetPassword(s) \/ SaveProfile(s)
  PROVE  Answered' /\ Forward
<1>1. PICK here \in {"verify", "setPassword", "saveProfile"} : GoesOn(s, here, "idle")
  BY RowDoes
<1>2. pc[s] = here /\ pc'[s] = "idle" /\ Others(s)
  BY <1>1 DEF GoesOn
<1>3. UNCHANGED <<codes, passwords>>
  BY DEF SetVerified, SetPassword, SaveProfile
<1>4. Returned /\ \A k \in Keys : Answers(k)' = Answers(k)
  BY <1>3 DEF codes, Returned, Answers
<1>5. /\ password \in Nat /\ passwords \in Nat /\ verified \in BOOLEAN /\ password # 0
      /\ password' \in Nat /\ Ready(pc[s], entity[s]) /\ Row
  BY <1>2 DEF Typed, Account, Answered, Ready
<1>6. /\ password' # 0 /\ password' <= passwords
      /\ verified' => Answers("signup") # {}
  <2>1. CASE SetVerified(s)
    <3>1. GoesOn(s, "verify", "idle")
      BY <2>1, RowDoes
    <3>2. pc[s] = "verify"
      BY <3>1 DEF GoesOn
    <3> QED
      BY <1>5, <2>1, <3>2 DEF SetVerified, Ready, Row
  <2>2. CASE SetPassword(s)
    <3>1. GoesOn(s, "setPassword", "idle")
      BY <2>2, RowDoes
    <3>2. pc[s] = "setPassword" /\ entity[s].password \in Nat
      BY <3>1, EntityParts DEF GoesOn, Typed, Requests
    <3>3. password' = entity[s].password /\ verified' = verified
      BY <2>2 DEF SetPassword
    <3> QED
      BY <1>5, <3>2, <3>3 DEF Ready, Row
  <2>3. CASE SaveProfile(s)
    <3>1. GoesOn(s, "saveProfile", "idle")
      BY <2>3, RowDoes
    <3>2. pc[s] = "saveProfile"
      BY <3>1 DEF GoesOn
    <3>3. password' = entity[s].password /\ verified' = entity[s].verified
      BY <2>3 DEF SaveProfile
    <3> QED
      BY <1>5, <3>2, <3>3 DEF Ready
  <2> QED
    BY <2>1, <2>2, <2>3
<1>7. "reset" \in Keys /\ "signup" \in Keys
  BY DEF Keys
<1>8. Row' /\ Forward
  BY <1>3, <1>4, <1>5, <1>6, <1>7 DEF Row, Forward
<1>9. Ready(pc[s], entity[s])'
  BY <1>2 DEF Ready
<1> QED
  BY <1>2, <1>4, <1>8, <1>9, AnsweredStep

\* Nothing happens to codes that came back, or to the row, when a code
\* expires or trouble strikes.
LEMMA AnsweredTrouble ==
  ASSUME Typed, Typed', Safe, Safe', Answered,
         \/ UNCHANGED vars
         \/ \E k \in Keys : Expire(k) \/ ExpireAttempts(k)
         \/ Crash \/ \E s \in Slots : StatementFails(s)
  PROVE  Answered' /\ Forward
<1>1. /\ UNCHANGED <<codes, row>>
      /\ \A t \in Slots : (pc'[t] = pc[t] /\ entity'[t] = entity[t]) \/ pc'[t] = "idle"
  <2>1. CASE UNCHANGED vars \/ \E k \in Keys : Expire(k) \/ ExpireAttempts(k)
    BY <2>1 DEF vars, Expire, ExpireAttempts, codes, row
  <2>2. CASE Crash \/ \E s \in Slots : StatementFails(s)
    BY <2>2, TroubleDoes DEF Troubled, Spared, Ended
  <2> QED
    BY <2>1, <2>2
<1>2. Returned /\ Answers("signup")' = Answers("signup")
  BY <1>1 DEF codes, Returned, Answers
<1>3. Row' /\ Forward
  BY <1>1, <1>2, RowKept
<1>4. \A t \in Slots : Ready(pc[t], entity[t])'
  BY <1>1, <1>2 DEF row, Answered, Ready
<1> QED
  BY <1>3, <1>4 DEF Answered

LEMMA AnsweredNext ==
  ASSUME Typed, Typed', Duties, Admitted, Safe, Safe', Answered, [Next]_vars
  PROVE  Answered' /\ Forward
<1>1. CASE \/ UNCHANGED vars
           \/ \E k \in Keys : Expire(k) \/ ExpireAttempts(k)
           \/ Crash \/ \E s \in Slots : StatementFails(s)
  BY <1>1, AnsweredTrouble
<1>2. ASSUME NEW s \in Slots, PlainStart(s) \/ CodeStart(s) \/ UpdateProfile(s)
      PROVE  Answered' /\ Forward
  BY <1>2, AnsweredStarts
<1>3. ASSUME NEW s \in Slots,
             \/ PassStep(s) \/ SetCode(s) \/ SetAttempts(s) \/ Mail(s)
             \/ GetAttempts(s) \/ DropCode(s) \/ CountMiss(s)
      PROVE  Answered' /\ Forward
  BY <1>3, AnsweredSteps
<1>4. ASSUME NEW s \in Slots, CreateUser(s) /\ ~Registered PROVE Answered' /\ Forward
  BY <1>4, AnsweredCreate
<1>5. ASSUME NEW s \in Slots, UseCode(s) PROVE Answered' /\ Forward
  BY <1>5, AnsweredUse
<1>6. ASSUME NEW s \in Slots, SetVerified(s) \/ SetPassword(s) \/ SaveProfile(s)
      PROVE  Answered' /\ Forward
  BY <1>6, AnsweredRow
<1> QED
  BY <1>1, <1>2, <1>3, <1>4, <1>5, <1>6, NextParts

LEMMA AnsweredInit == Init => Answered
<1>1. Init => Answers("reset") = {}
  BY DEF Init, Answers, Keys
<1>2. Cardinality({}) = 0
  BY FS_EmptySet
<1> QED
  BY <1>1, <1>2 DEF Init, Answered, Row, Ready

\* Nobody is cleared at the start.
LEMMA AdmittedInit == Init => Admitted
BY DEF Init, Admitted, Cleared

\* One accepted code changes the account once: every password but the first,
\* and the verified flag, answer to mailed codes of their own, when requests
\* with the same code wait for each other; profile saves overlap all the same.
THEOREM CodeForChange == ASSUME ~Races PROVE Spec => []ChangesAnswerCodes
<1>1. Answered /\ Typed /\ Safe => ChangesAnswerCodes
  <2>1. ASSUME Answered, Typed, Safe PROVE Cardinality(Answers("reset")) \in Nat
    <3>1. issued["reset"] \in Nat /\ Answers("reset") \in SUBSET (1..issued["reset"])
      BY <2>1 DEF Typed, Store, Safe, KeySound, Answers, Keys
    <3>2. IsFiniteSet(1..issued["reset"])
      BY <3>1, FS_Interval
    <3>3. IsFiniteSet(Answers("reset"))
      BY <3>1, <3>2, FS_Subset
    <3> QED
      BY <3>3, FS_CardinalityType
  <2> QED
    BY <2>1 DEF Answered, Row, ChangesAnswerCodes, Answers, Typed, Account
<1>2. Init => Safe /\ Duties /\ Answered
  BY SafeInit, DutiesInit, AnsweredInit
<1>3. /\ Typed /\ Typed' /\ Duties /\ Admitted /\ Safe /\ Safe' /\ Answered /\ [Next]_vars =>
           Answered'
      /\ Typed /\ Duties /\ Safe /\ [Next]_vars => Safe'
      /\ Typed /\ Duties /\ [Next]_vars => Duties'
  BY AnsweredNext, SafeNext, DutiesNext
<1> QED
  BY TypeInit, TypeNext, AdmittedInit, AdmittedNext, <1>1, <1>2, <1>3, PTL DEF Spec

-----------------------------------------------------------------------------
(* OneTimeCodes.  Only the request that holds a key can be looking at its  *)
(* code, so the code that stands is the one it looks at, or the one in the *)
(* store; every step issues, misses, uses or loses it, or leaves it alone. *)

LEMMA StandingIs ==
  ASSUME Duties, ~Races, NEW k \in Keys
  PROVE  /\ \A s \in Slots : Looking(s, k) => Standing(k) = raw[s]
         /\ (\A s \in Slots : ~Looking(s, k)) => Standing(k) = code[k]
<1>1. \A s, t \in Slots : Looking(s, k) /\ Looking(t, k) => s = t
  BY DEF Duties, Looking, Conflict, Busy
<1>2. ASSUME NEW s \in Slots, Looking(s, k) PROVE Standing(k) = raw[s]
  <2>1. (CHOOSE t \in Slots : Looking(t, k)) = s
    BY <1>1, <1>2
  <2> QED
    BY <1>2, <2>1 DEF Standing
<1> QED
  BY <1>2 DEF Standing

LEMMA StandingThen ==
  ASSUME Duties', ~Races, NEW k \in Keys
  PROVE  /\ \A s \in Slots : Looking(s, k)' => Standing(k)' = raw'[s]
         /\ (\A s \in Slots : ~Looking(s, k)') => Standing(k)' = code'[k]
<1>1. \A s, t \in Slots : Looking(s, k)' /\ Looking(t, k)' => s = t
  BY DEF Duties, Looking, Conflict, Busy
<1>2. ASSUME NEW s \in Slots, Looking(s, k)' PROVE Standing(k)' = raw'[s]
  <2>1. (CHOOSE t \in Slots : Looking(t, k)') = s
    BY <1>1, <1>2
  <2> QED
    BY <1>2, <2>1 DEF Standing
<1> QED
  BY <1>2 DEF Standing

\* What a step of request s, which holds key k, does to what stands.
LEMMA StandingStep ==
  ASSUME Duties, Duties', ~Races, NEW s \in Slots, Others(s), NEW k,
         k \in Keys => \A t \in Slots : t # s /\ Busy(t) => job[t].key # k,
         Busy(s) => job[s].key = k, pc'[s] # "idle" => job'[s].key = k
  PROVE  /\ \A l \in Keys \ {k} : code'[l] = code[l] => Standing(l)' = Standing(l)
         /\ k \in Keys /\ pc[s] \in {"attempts", "use"} => Standing(k) = raw[s]
         /\ k \in Keys /\ pc[s] \notin {"attempts", "use"} => Standing(k) = code[k]
         /\ k \in Keys /\ pc'[s] \in {"attempts", "use"} => Standing(k)' = raw'[s]
         /\ k \in Keys /\ pc'[s] \notin {"attempts", "use"} => Standing(k)' = code'[k]
<1>1. ASSUME NEW l \in Keys \ {k}, code'[l] = code[l] PROVE Standing(l)' = Standing(l)
  <2>1. \A t \in Slots : Looking(t, l)' <=> Looking(t, l)
    BY DEF Looking, Others, Busy
  <2>2. \A t \in Slots : Looking(t, l) => raw'[t] = raw[t]
    BY DEF Looking, Others, Busy
  <2> QED
    BY <1>1, <2>1, <2>2, StandingIs, StandingThen
<1>2. k \in Keys => \A t \in Slots : t # s => ~Looking(t, k) /\ ~Looking(t, k)'
  BY DEF Looking, Others, Busy
<1>3. Looking(s, k) <=> pc[s] \in {"attempts", "use"}
  BY DEF Looking, Busy
<1>4. Looking(s, k)' <=> pc'[s] \in {"attempts", "use"}
  BY DEF Looking
<1> QED
  BY <1>1, <1>2, <1>3, <1>4, StandingIs, StandingThen

\* Steps that issue, miss and use nothing: codes are kept or lost.
LEMMA Losing ==
  ASSUME used' = used,
         \A k \in Keys : /\ Standing(k)' \in {0, Standing(k)}
                         /\ Standing(k)' # 0 => wrong'[k] = wrong[k]
  PROVE  Promise!Next
<1>0. PICK K : K = {k \in Keys : Standing(k) # 0 /\ Standing(k)' = 0}
  OBVIOUS
<1>1. Promise!Lose(K)
  BY <1>0 DEF Promise!Lose
<1>2. K \in SUBSET {k \in Keys : [l \in Keys |-> Standing(l)][k] # 0}
  BY <1>0
<1> QED
  BY <1>1, <1>2 DEF Promise!Next

\* The requests that come in find the code that stands.
LEMMA KeepsComes ==
  ASSUME Typed, Duties, Duties', ~Races, NEW s \in Slots, NEW here, Comes(s, here),
         here = "attempts" => job'[s].key \in Keys /\ raw'[s] = code[job'[s].key],
         here # "use", UNCHANGED <<store, codes>>
  PROVE  Promise!Next
<1>1. PICK k : k = job'[s].key
  OBVIOUS
<1>2. Others(s) /\ pc[s] = "idle" /\ pc'[s] = here
  BY DEF Comes
<1>3. k \in Keys => \A t \in Slots : t # s /\ Busy(t) => job[t].key # k
  BY <1>1, Alone
<1>4. code' = code /\ used' = used /\ wrong' = wrong
  BY DEF store, codes
<1>5. \A l \in Keys : Standing(l)' = Standing(l)
  BY <1>1, <1>2, <1>3, <1>4, StandingStep DEF Busy
<1> QED
  BY <1>4, <1>5, Losing

\* What a step of a request that is under way may rely on.
LEMMA StandingOn ==
  ASSUME Typed, Duties, Duties', ~Races, Safe, NEW s \in Slots, NEW here, NEW next,
         GoesOn(s, here, next), NEW k, k = job[s].key
  PROVE  /\ \A l \in Keys \ {k} : code'[l] = code[l] => Standing(l)' = Standing(l)
         /\ k \in Keys /\ here \in {"attempts", "use"} => Standing(k) = raw[s]
         /\ k \in Keys /\ here \notin {"attempts", "use"} => Standing(k) = code[k]
         /\ k \in Keys /\ next \in {"attempts", "use"} => Standing(k)' = raw'[s]
         /\ k \in Keys /\ next \notin {"attempts", "use"} => Standing(k)' = code'[k]
         /\ pc[s] = here
<1>1. /\ Others(s) /\ pc[s] = here /\ pc'[s] = next /\ Busy(s)
      /\ pc'[s] # "idle" => job'[s].key = k
  BY DEF GoesOn, Busy
<1>2. k \in Keys => \A t \in Slots : t # s /\ Busy(t) => job[t].key # k
  BY <1>1, Alone
<1> QED
  BY <1>1, <1>2, StandingStep

\* Steps that leave the codes alone: one that was looked at may be gone.
LEMMA KeepsPass ==
  ASSUME Typed, Duties, Duties', ~Races, Safe, NEW s \in Slots, NEW here, NEW next,
         GoesOn(s, here, next), here # "use", next # "attempts",
         next = "use" => here = "attempts" /\ raw'[s] = raw[s],
         UNCHANGED <<code, wrong, used>>
  PROVE  Promise!Next
<1>1. PICK k : k = job[s].key
  OBVIOUS
<1>2. pc[s] = here
  BY DEF GoesOn
<1>3. \A l \in Keys \ {k} : Standing(l)' = Standing(l)
  BY <1>1, StandingOn
<1>4. ASSUME k \in Keys PROVE Standing(k)' \in {0, Standing(k)}
  <2>1. CASE here = "attempts" /\ next = "use"
    BY <1>1, <1>4, <2>1, StandingOn
  <2>2. CASE here = "attempts" /\ next # "use"
    <3>1. code[k] \in {0, raw[s]}
      BY <1>1, <1>2, <2>2, SafeHas DEF Held
    <3> QED
      BY <1>1, <1>4, <2>2, <3>1, StandingOn
  <2>3. CASE here # "attempts"
    BY <1>1, <1>4, <2>3, StandingOn
  <2> QED
    BY <2>1, <2>2, <2>3
<1> QED
  BY <1>3, <1>4, Losing

\* A code is issued that was not issued before.
LEMMA KeepsIssue ==
  ASSUME Typed, Duties, Duties', ~Races, Safe, NEW s \in Slots, SetCode(s)
  PROVE  Promise!Next
<1>1. GoesOn(s, "issue", "counter")
  BY IssueDoes
<1>2. PICK k : k = job[s].key
  OBVIOUS
<1>3. pc[s] = "issue"
  BY <1>1 DEF GoesOn
<1>4. /\ k \in Keys /\ KeySound(k) /\ Held(pc[s], k, raw[s])
      /\ code[k] \in Nat /\ issued[k] \in Nat /\ used[k] \subseteq Nat /\ requests \in Nat
  BY <1>2, <1>3, SafeHas
<1>5. PICK c : c = issued[k] + 1
  OBVIOUS
<1>6. /\ code' = [code EXCEPT ![k] = c] /\ wrong' = [wrong EXCEPT ![k] = 0] /\ used' = used
  BY <1>2, <1>5 DEF SetCode
<1>7. c \in 1..MaxRequests /\ c # code[k] /\ c \notin used[k]
  <2>1. issued[k] < requests /\ requests <= MaxRequests
    BY <1>3, <1>4 DEF Held, Safe
  <2> QED
    BY <1>4, <1>5, <2>1, CodesAssumption DEF KeySound
<1>8. /\ \A l \in Keys \ {k} : Standing(l)' = Standing(l) /\ wrong'[l] = wrong[l]
      /\ Standing(k) = code[k] /\ Standing(k)' = c /\ wrong'[k] = 0
  <2>1. /\ \A l \in Keys \ {k} : code'[l] = code[l] /\ wrong'[l] = wrong[l]
        /\ code'[k] = c /\ wrong'[k] = 0
    BY <1>4, <1>6 DEF Typed, Store
  <2> QED
    BY <1>1, <1>2, <1>4, <2>1, StandingOn
<1>9. Promise!Issue(k, c)
  BY <1>4, <1>6, <1>7, <1>8 DEF Promise!Issue
<1> QED
  BY <1>4, <1>7, <1>9 DEF Promise!Next

\* A wrong guess of the code that stands, if it still does.
LEMMA KeepsMiss ==
  ASSUME Typed, Duties, Duties', ~Races, ~TornIssues, Safe, NEW s \in Slots, CountMiss(s)
  PROVE  Promise!Next
<1>1. GoesOn(s, "miss", "idle")
  BY AnswerDoes
<1>2. PICK k : k = job[s].key
  OBVIOUS
<1>3. pc[s] = "miss"
  BY <1>1 DEF GoesOn
<1>4. k \in Keys /\ Held(pc[s], k, raw[s]) /\ code[k] \in Nat /\ wrong[k] \in Nat
  BY <1>2, <1>3, SafeHas
<1>5. /\ wrong' = [wrong EXCEPT ![k] = wrong[k] + 1] /\ UNCHANGED <<code, used>>
  BY <1>2 DEF CountMiss
<1>6. /\ \A l \in Keys \ {k} : wrong'[l] = wrong[l]
      /\ wrong'[k] = wrong[k] + 1
  BY <1>4, <1>5 DEF Typed, Store
<1>7. /\ \A l \in Keys : Standing(l)' = Standing(l)
      /\ Standing(k) = code[k]
  BY <1>1, <1>2, <1>4, <1>5, StandingOn
<1>8. CASE code[k] = 0
  BY <1>5, <1>6, <1>7, <1>8, Losing
<1>9. CASE code[k] # 0
  <2>1. wrong[k] < MaxAttempts
    BY <1>3, <1>4, <1>9 DEF Held
  <2>2. Promise!Miss(k)
    BY <1>4, <1>5, <1>6, <1>7, <1>9, <2>1 DEF Promise!Miss
  <2> QED
    BY <1>4, <2>2 DEF Promise!Next
<1> QED
  BY <1>8, <1>9

\* The code that stands is used, and gone.
LEMMA KeepsUse ==
  ASSUME Typed, Duties, Duties', ~Races, Safe, NEW s \in Slots, UseCode(s)
  PROVE  Promise!Next
<1>1. PICK next \in {"find", "setPassword", "verify"} : GoesOn(s, "use", next)
  BY AnswerDoes
<1>2. PICK k : k = job[s].key
  OBVIOUS
<1>3. pc[s] = "use"
  BY <1>1 DEF GoesOn
<1>4. k \in Keys /\ Held(pc[s], k, raw[s])
  BY <1>2, <1>3, SafeHas
<1>5. raw[s] # 0
  BY <1>3, <1>4 DEF Held
<1>6. /\ code' = [code EXCEPT ![k] = 0] /\ used' = [used EXCEPT ![k] = @ \cup {raw[s]}]
      /\ wrong' = wrong
  BY <1>2, Zenon DEF UseCode, Deleted
<1>7. /\ \A l \in Keys \ {k} : Standing(l)' = Standing(l)
      /\ Standing(k) = raw[s] /\ Standing(k)' = 0
  <2>1. code'[k] = 0 /\ \A l \in Keys \ {k} : code'[l] = code[l]
    BY <1>4, <1>6 DEF Typed, Store
  <2> QED
    BY <1>1, <1>2, <1>4, <2>1, StandingOn
<1>8. Promise!Use(k)
  <2>1. used' = [used EXCEPT ![k] = @ \cup {[l \in Keys |-> Standing(l)][k]}]
    BY <1>4, <1>6, <1>7
  <2>2. [l \in Keys |-> Standing(l)][k] # 0
    BY <1>4, <1>5, <1>7
  <2>3. [l \in Keys |-> Standing(l)]' = [[l \in Keys |-> Standing(l)] EXCEPT ![k] = 0]
    BY <1>4, <1>7
  <2>4. [l \in Keys |-> IF Standing(l) = 0 THEN 0 ELSE wrong[l]]'
          = [[l \in Keys |-> IF Standing(l) = 0 THEN 0 ELSE wrong[l]] EXCEPT ![k] = 0]
    <3>1. \A l \in Keys : (IF Standing(l)' = 0 THEN 0 ELSE wrong'[l])
            = IF l = k THEN 0 ELSE IF Standing(l) = 0 THEN 0 ELSE wrong[l]
      <4>1. wrong' = wrong
        BY <1>6
      <4> QED
        BY <1>7, <4>1
    <3> QED
      BY <1>4, <3>1
  <2> QED
    BY <2>1, <2>2, <2>3, <2>4, Zenon DEF Promise!Use
<1> QED
  BY <1>4, <1>8 DEF Promise!Next

\* A code that is rejected for too many guesses is lost.
LEMMA KeepsDrop ==
  ASSUME Typed, Duties, Duties', ~Races, Safe, NEW s \in Slots, DropCode(s)
  PROVE  Promise!Next
<1>1. GoesOn(s, "drop", "idle")
  BY AnswerDoes
<1>2. PICK k : k = job[s].key
  OBVIOUS
<1>3. k \in Keys
  BY <1>1, <1>2, SafeHas DEF GoesOn
<1>4. code' = [code EXCEPT ![k] = 0] /\ UNCHANGED <<wrong, used>>
  BY <1>2 DEF DropCode, Deleted, codes
<1>5. code'[k] = 0 /\ \A l \in Keys \ {k} : code'[l] = code[l]
  BY <1>3, <1>4 DEF Typed, Store
<1>6. \A l \in Keys : Standing(l)' \in {0, Standing(l)}
  BY <1>1, <1>2, <1>3, <1>5, StandingOn
<1> QED
  BY <1>4, <1>6, Losing

\* Codes that expire are lost, unless a request looks at them.
LEMMA KeepsExpire ==
  ASSUME Typed, Duties, Duties', ~Races, NEW k \in Keys, Expire(k) \/ ExpireAttempts(k)
  PROVE  Promise!Next
<1>1. UNCHANGED <<wrong, used, pc, job, raw>>
  BY DEF Expire, ExpireAttempts, codes
<1>2. \A l \in Keys : code'[l] \in {0, code[l]}
  BY DEF Expire, ExpireAttempts, Typed, Store
<1>3. ASSUME NEW l \in Keys PROVE Standing(l)' \in {0, Standing(l)}
  <2>1. \A t \in Slots : (Looking(t, l)' <=> Looking(t, l)) /\ raw'[t] = raw[t]
    BY <1>1 DEF Looking
  <2> QED
    BY <1>2, <2>1, StandingIs, StandingThen
<1> QED
  BY <1>1, <1>3, Losing

\* A request that ends leaves the code it looked at, or finds it gone.
LEMMA KeepsTrouble ==
  ASSUME Typed, Duties, Duties', ~Races, Safe, Troubled
  PROVE  Promise!Next
<1>1. UNCHANGED <<code, wrong, used>>
  BY DEF Troubled, store, codes
<1>2. ASSUME NEW l \in Keys PROVE Standing(l)' \in {0, Standing(l)}
  <2>1. ASSUME NEW t \in Slots, Looking(t, l), Looking(t, l)' PROVE Standing(l)' = Standing(l)
    <3>1. raw'[t] = raw[t]
      BY <2>1 DEF Troubled, Spared, Ended, Looking
    <3> QED
      BY <2>1, <3>1, StandingIs, StandingThen
  <2>2. ASSUME NEW t \in Slots, Looking(t, l), \A u \in Slots : ~Looking(u, l)'
        PROVE  Standing(l)' \in {0, Standing(l)}
    <3>1. Held(pc[t], job[t].key, raw[t])
      BY DEF Safe
    <3>2. code[l] \in {0, raw[t]}
      BY <2>2, <3>1 DEF Held, Looking
    <3> QED
      BY <1>1, <2>2, <3>2, StandingIs, StandingThen
  <2>3. ASSUME NEW t \in Slots, Looking(t, l)' PROVE Looking(t, l)
    BY <2>3 DEF Troubled, Spared, Ended, Looking
  <2>4. CASE \A u \in Slots : ~Looking(u, l) /\ ~Looking(u, l)'
    BY <1>1, <2>4, StandingIs, StandingThen
  <2> QED
    BY <2>1, <2>2, <2>3, <2>4
<1> QED
  BY <1>1, <1>2, Losing

\* Everything else looks at codes or leaves them alone.
LEMMA KeepsRest ==
  ASSUME Typed, Duties, Duties', ~Races, Safe, NEW s \in Slots,
         \/ PassStep(s) \/ (CreateUser(s) /\ ~Registered)
         \/ SetAttempts(s) \/ Mail(s) \/ GetAttempts(s)
         \/ SetVerified(s) \/ SetPassword(s) \/ SaveProfile(s)
  PROVE  Promise!Next
<1> USE DEF store, codes
<1>1. CASE PassStep(s)
  BY <1>1, PassSteps, KeepsPass
<1>2. CASE CreateUser(s) /\ ~Registered
  BY <1>2, CreateDoes, KeepsPass
<1>3. CASE SetAttempts(s)
  BY <1>3, IssueDoes, KeepsPass DEF SetAttempts
<1>4. CASE Mail(s)
  BY <1>4, IssueDoes, KeepsPass DEF Mail
<1>5. CASE GetAttempts(s)
  BY <1>5, CheckDoes, KeepsPass
<1>6. CASE SetVerified(s) \/ SetPassword(s) \/ SaveProfile(s)
  <2>1. PICK here \in {"verify", "setPassword", "saveProfile"} : GoesOn(s, here, "idle")
    BY <1>6, RowDoes
  <2>2. UNCHANGED <<code, wrong, used>>
    BY <1>6 DEF SetVerified, SetPassword, SaveProfile
  <2> QED
    BY <2>1, <2>2, KeepsPass
<1> QED
  BY <1>1, <1>2, <1>3, <1>4, <1>5, <1>6

\* Codes refines OneTimeCodes when the requests that share a code wait for
\* each other and no trouble strikes between the two writes that issue one:
\* a code is good for one use and MaxAttempts wrong guesses, and what stands
\* was issued last.
THEOREM CodesKeptAsPromised ==
  ASSUME ~Races, ~TornIssues
  PROVE  Spec => KeepsOneTimeCodes
<1>1. ASSUME Init PROVE Promise!Init
  <2>1. ASSUME NEW k \in Keys PROVE Standing(k) = 0 /\ wrong[k] = 0
    BY <1>1, <2>1, DutiesInit, StandingIs DEF Init, Looking
  <2> QED
    BY <1>1, <2>1 DEF Promise!Init, Init
<1>2. ASSUME Typed, Duties, Duties', Safe, [Next]_vars
      PROVE  [Promise!Next]_(Promise!vars)
  <2>1. CASE UNCHANGED vars
    <3>1. UNCHANGED <<code, wrong, used, pc, job, raw>>
      BY <2>1 DEF vars
    <3>2. ASSUME NEW l \in Keys PROVE Standing(l)' = Standing(l)
      <4>1. \A t \in Slots : (Looking(t, l)' <=> Looking(t, l)) /\ raw'[t] = raw[t]
        BY <3>1 DEF Looking
      <4> QED
        BY <1>2, <3>1, <4>1, StandingIs, StandingThen
    <3> QED
      BY <3>1, <3>2, Losing
  <2>2. ASSUME NEW k \in Keys, Expire(k) \/ ExpireAttempts(k) PROVE Promise!Next
    BY <1>2, <2>2, KeepsExpire
  <2>3. CASE Crash \/ \E s \in Slots : StatementFails(s)
    BY <1>2, <2>3, TroubleDoes, KeepsTrouble
  <2>4. ASSUME NEW s \in Slots, PlainStart(s) PROVE Promise!Next
    <3>1. PICK here \in {"device", "peek", "create", "issue"} : Comes(s, here)
      BY <1>2, <2>4, PlainStarts
    <3>2. UNCHANGED <<store, codes>>
      BY <1>2, <2>4, PlainStarts
    <3> QED
      BY <1>2, <3>1, <3>2, KeepsComes
  <2>5. ASSUME NEW s \in Slots, CodeStart(s) PROVE Promise!Next
    BY <1>2, <2>5, CodeStarts, KeepsComes
  <2>6. ASSUME NEW s \in Slots, UpdateProfile(s) PROVE Promise!Next
    BY <1>2, <2>6, ProfileStarts, KeepsComes
  <2>7. ASSUME NEW s \in Slots, SetCode(s) \/ CountMiss(s) \/ UseCode(s) \/ DropCode(s)
        PROVE  Promise!Next
    BY <1>2, <2>7, KeepsIssue, KeepsMiss, KeepsUse, KeepsDrop
  <2>8. ASSUME NEW s \in Slots,
               \/ PassStep(s) \/ (CreateUser(s) /\ ~Registered)
               \/ SetAttempts(s) \/ Mail(s) \/ GetAttempts(s)
               \/ SetVerified(s) \/ SetPassword(s) \/ SaveProfile(s)
        PROVE  Promise!Next
    BY <1>2, <2>8, KeepsRest
  <2> QED
    BY <1>2, <2>1, <2>2, <2>3, <2>4, <2>5, <2>6, <2>7, <2>8, NextParts
<1>3. Typed /\ Duties /\ [Next]_vars => Duties'
  BY DutiesNext
<1>4. Typed /\ Duties /\ Safe /\ [Next]_vars => Safe'
  BY SafeNext
<1> QED
  BY TypeInit, TypeNext, SafeInit, DutiesInit, <1>1, <1>2, <1>3, <1>4, PTL
  DEF Spec, KeepsOneTimeCodes, Promise!Spec
=============================================================================
