------------------------------- MODULE Codes --------------------------------
(***************************************************************************)
(* One-time codes (OtpService) and what they let a user do (AuthService):  *)
(* trust a new device, verify the email address, set a new password; with  *)
(* the profile save (UsersService.update) that writes the same users row.  *)
(*                                                                         *)
(* One account.  A code belongs to a key, purpose and identifier together: *)
(* "signup", "reset", or the device to trust.  The code of a key and the   *)
(* counter of wrong attempts are two keys of Redis, each with its own time *)
(* to live; codes are numbered in the order they are issued, so a code     *)
(* that expires is one that is gone at any later moment.  A password is    *)
(* numbered too, the one of the registration being 1.  A slot is one       *)
(* request in flight and one action what runs between two awaits; looking  *)
(* the user up by email is part of the first, since its id never changes.  *)
(* Bank changes take codes as well: they are in Outbound.                  *)
(***************************************************************************)
EXTENDS Integers, FiniteSets

CONSTANTS
  Slots,        \* requests in flight
  Devices,      \* device ids
  Unknown,      \* the device id a code is mailed for when a login names none
  NoDevice,     \* a registration without a device id; no key
  MaxAttempts,  \* OTP_MAX_ATTEMPTS
  MaxRequests,  \* bound: requests made
  MaxTroubles,  \* bound: crashes and failed statements, together
  TornIssues,   \* FALSE: no trouble strikes between the two writes that issue a code
  Races         \* FALSE: requests with the same code wait for each other; the
                \* code lets them overlap

ASSUME CodesAssumption ==
  /\ Unknown \in Devices /\ NoDevice \notin Devices
  /\ {"signup", "reset"} \cap (Devices \cup {NoDevice}) = {}
  /\ {MaxAttempts, MaxRequests, MaxTroubles} \subseteq Nat
  /\ TornIssues \in BOOLEAN /\ Races \in BOOLEAN

Keys == {"signup", "reset"} \cup Devices
Absent == -1

VARIABLES
  code,         \* the code stored under each key, 0 for none
  attempts,     \* its counter of wrong attempts
  lives,        \* the code the counter was set with, 0 for a counter that never expires
  issued,       \* how many codes each key had
  mailed,       \* the codes that reached the user's mailbox
  wrong,        \* the wrong guesses answered since the last code was issued
  used,         \* the codes accepted
  password,     \* users.passwordHash, 0 before the registration
  passwords,    \* how many passwords there have been
  verified,     \* users.verified
  home,         \* the device of the registration
  trusted,      \* trusted_devices
  entered,      \* the devices that were handed tokens, NoDevice for an unnamed one
  requests, troubles,
  pc,           \* what each request does next
  job,          \* its operation, key and device
  raw,          \* the code it read or issued
  entity        \* the password and verified flag it read or will write

vars == <<code, attempts, lives, issued, mailed, wrong, used, password, passwords, verified,
          home, trusted, entered, requests, troubles, pc, job, raw, entity>>
store == <<code, attempts, lives>>
codes == <<issued, mailed, wrong, used>>
row == <<password, passwords, verified>>
doors == <<home, trusted, entered>>

Ops == {"none", "register", "login", "resend", "forgot", "confirm", "verifyEmail", "reset", "profile"}
Steps == {"idle", "create", "find", "insert", "touch", "device", "peek", "issue", "counter",
          "mail", "attempts", "drop", "miss", "use", "verify", "setPassword", "saveProfile"}

Job(o, k, d) == [op |-> o, key |-> k, device |-> d]
NoJob == Job("none", "none", NoDevice)
Entity(p, v) == [password |-> p, verified |-> v]
NoEntity == Entity(0, FALSE)

Init ==
  /\ code = [k \in Keys |-> 0]
  /\ attempts = [k \in Keys |-> Absent]
  /\ lives = [k \in Keys |-> 0]
  /\ issued = [k \in Keys |-> 0]
  /\ mailed = [k \in Keys |-> {}]
  /\ wrong = [k \in Keys |-> 0]
  /\ used = [k \in Keys |-> {}]
  /\ password = 0 /\ passwords = 0 /\ verified = FALSE
  /\ home = NoDevice /\ trusted = {} /\ entered = {}
  /\ requests = 0 /\ troubles = 0
  /\ pc = [s \in Slots |-> "idle"]
  /\ job = [s \in Slots |-> NoJob]
  /\ raw = [s \in Slots |-> 0]
  /\ entity = [s \in Slots |-> NoEntity]

\* The requests that touch one code.
Conflict(i, j) == i.key = j.key /\ i.key \in Keys

Start(s, here, j, c, e) ==
  /\ pc[s] = "idle"
  /\ requests < MaxRequests
  /\ Races \/ \A t \in Slots : pc[t] # "idle" => ~Conflict(j, job[t])
  /\ requests' = requests + 1
  /\ pc' = [pc EXCEPT ![s] = here]
  /\ job' = [job EXCEPT ![s] = j]
  /\ raw' = [raw EXCEPT ![s] = c]
  /\ entity' = [entity EXCEPT ![s] = e]
  /\ UNCHANGED troubles

Step(s, here, next, c, e) ==
  /\ pc[s] = here
  /\ pc' = [pc EXCEPT ![s] = next]
  /\ job' = [job EXCEPT ![s] = IF next = "idle" THEN NoJob ELSE job[s]]
  /\ raw' = [raw EXCEPT ![s] = c]
  /\ entity' = [entity EXCEPT ![s] = e]
  /\ UNCHANGED <<requests, troubles>>

Goto(s, here, next) == Step(s, here, next, 0, NoEntity)

Registered == password # 0

-----------------------------------------------------------------------------
(* OtpService.request and resend.                                          *)

\* A login on a new device, a forgotten password, a signup code asked again.
ForgotPassword(s) ==
  /\ Registered
  /\ Start(s, "issue", Job("forgot", "reset", NoDevice), 0, NoEntity)
  /\ UNCHANGED <<store, codes, row, doors>>

ResendVerification(s) ==
  /\ Registered /\ ~verified
  /\ Start(s, "issue", Job("resend", "signup", NoDevice), 0, NoEntity)
  /\ UNCHANGED <<store, codes, row, doors>>

ResendDeviceCode(s, d) ==
  /\ Registered
  /\ Start(s, "peek", Job("resend", d, d), 0, NoEntity)
  /\ UNCHANGED <<store, codes, row, doors>>

Peek(s) ==
  /\ pc[s] = "peek"
  /\ Goto(s, "peek", IF code[job[s].key] = 0 THEN "idle" ELSE "issue")
  /\ UNCHANGED <<store, codes, row, doors>>

SetCode(s) ==
  LET k == job[s].key  c == issued[k] + 1 IN
  /\ Step(s, "issue", "counter", c, NoEntity)
  /\ issued' = [issued EXCEPT ![k] = c]
  /\ code' = [code EXCEPT ![k] = c]
  /\ wrong' = [wrong EXCEPT ![k] = 0]
  /\ UNCHANGED <<attempts, lives, mailed, used, row, doors>>

SetAttempts(s) ==
  LET k == job[s].key IN
  /\ Step(s, "counter", "mail", raw[s], NoEntity)
  /\ attempts' = [attempts EXCEPT ![k] = 0]
  /\ lives' = [lives EXCEPT ![k] = raw[s]]
  /\ UNCHANGED <<code, codes, row, doors>>

\* register hands out tokens even if the mail did not go.
Mail(s) ==
  LET j == job[s] IN
  /\ Goto(s, "mail", "idle")
  /\ mailed' \in {mailed, [mailed EXCEPT ![j.key] = @ \cup {raw[s]}]}
  /\ entered' = IF j.op = "register" THEN entered \cup {j.device} ELSE entered
  /\ UNCHANGED <<store, issued, wrong, used, row, home, trusted>>

\* A code that expires is not seen again; the counter set after it expires
\* later, unless it was set with an older code, and one made by INCR never does.
Expire(k) ==
  /\ code[k] # 0
  /\ code' = [code EXCEPT ![k] = 0]
  /\ UNCHANGED <<attempts, lives, codes, row, doors, requests, troubles, pc, job, raw, entity>>

ExpireAttempts(k) ==
  /\ attempts[k] # Absent /\ lives[k] # 0
  /\ code[k] = 0 \/ lives[k] < code[k]
  /\ attempts' = [attempts EXCEPT ![k] = Absent]
  /\ lives' = [lives EXCEPT ![k] = 0]
  /\ UNCHANGED <<code, codes, row, doors, requests, troubles, pc, job, raw, entity>>

-----------------------------------------------------------------------------
(* OtpService.verify, of a mailed code or a mistyped one.                  *)

Submit(s, o, k, d, c) ==
  /\ Registered
  /\ code[k] # 0
  /\ Start(s, "attempts", Job(o, k, d), code[k], Entity(c, FALSE))
  /\ UNCHANGED <<store, codes, row, doors>>

Submittable(k) == mailed[k] \cup {0}
ConfirmDevice(s, d) == \E c \in Submittable(d) : Submit(s, "confirm", d, d, c)
VerifyEmail(s) == \E c \in Submittable("signup") : Submit(s, "verifyEmail", "signup", NoDevice, c)
ResetPassword(s) == \E c \in Submittable("reset") : Submit(s, "reset", "reset", NoDevice, c)

TooMany_OneMore(n) == n > MaxAttempts
TooMany(n) == n >= MaxAttempts

\* The submitted code waits in entity until the counter is read.
GetAttempts(s) ==
  LET k == job[s].key IN
  /\ pc[s] = "attempts"
  /\ Step(s, "attempts",
          IF TooMany(attempts[k]) THEN "drop"
          ELSE IF entity[s].password = raw[s] THEN "use" ELSE "miss",
          raw[s], NoEntity)
  /\ UNCHANGED <<store, codes, row, doors>>

Deleted_CodeKept(k) ==
  /\ attempts' = [attempts EXCEPT ![k] = Absent]
  /\ lives' = [lives EXCEPT ![k] = 0]
  /\ UNCHANGED code
Deleted(k) ==
  /\ code' = [code EXCEPT ![k] = 0]
  /\ attempts' = [attempts EXCEPT ![k] = Absent]
  /\ lives' = [lives EXCEPT ![k] = 0]

DropCode(s) ==
  /\ Goto(s, "drop", "idle")
  /\ Deleted(job[s].key)
  /\ UNCHANGED <<codes, row, doors>>

\* storeIncr: INCR makes a counter that is gone, without a time to live.
CountMiss(s) ==
  LET k == job[s].key IN
  /\ Goto(s, "miss", "idle")
  /\ attempts' = [attempts EXCEPT ![k] = IF @ = Absent THEN 1 ELSE @ + 1]
  /\ wrong' = [wrong EXCEPT ![k] = @ + 1]
  /\ UNCHANGED <<code, lives, issued, mailed, used, row, doors>>

\* Accepted: what the request does next, the new password hashed on the way.
After(o) == IF o = "confirm" THEN "find" ELSE IF o = "reset" THEN "setPassword" ELSE "verify"

UseCode(s) ==
  LET j == job[s] IN
  /\ pc[s] = "use"
  /\ Step(s, "use", After(j.op), 0,
          IF j.op = "reset" THEN Entity(passwords + 1, FALSE) ELSE NoEntity)
  /\ Deleted(j.key)
  /\ used' = [used EXCEPT ![j.key] = @ \cup {raw[s]}]
  /\ passwords' = IF j.op = "reset" THEN passwords + 1 ELSE passwords
  /\ UNCHANGED <<issued, mailed, wrong, password, verified, doors>>

-----------------------------------------------------------------------------
(* The account.                                                            *)

\* usersService.create finds no such email, ...
Register(s, d) ==
  /\ ~Registered
  /\ Start(s, "create", Job("register", "signup", d), 0, NoEntity)
  /\ UNCHANGED <<store, codes, row, doors>>

\* A registration may come without a device id.
Named_Unchecked(d) == TRUE
Named(d) == d # NoDevice

\* ... and saves the user, unless another registration did meanwhile.
CreateUser(s) ==
  LET d == job[s].device IN
  /\ \/ /\ ~Registered
        /\ Goto(s, "create", IF Named(d) THEN "find" ELSE "issue")
        /\ password' = 1 /\ passwords' = 1
        /\ home' = d
     \/ /\ Registered
        /\ Goto(s, "create", "idle")
        /\ UNCHANGED <<password, passwords, home>>
  /\ UNCHANGED <<store, codes, verified, trusted, entered>>

\* trustDevice: a device that is known is only touched.
FindDevice(s) ==
  /\ Goto(s, "find", IF job[s].device \in trusted THEN "touch" ELSE "insert")
  /\ UNCHANGED <<store, codes, row, doors>>

Enter(d) == entered' = entered \cup {d}

\* register goes on to the signup code, confirmDevice to the tokens.
TrustedNow(s, here) ==
  LET j == job[s] IN
  /\ pc[s] = here
  /\ Goto(s, here, IF j.op = "register" THEN "issue" ELSE "idle")
  /\ IF j.op = "register" THEN UNCHANGED entered ELSE Enter(j.device)

\* The unique index of trusted_devices refuses the second of two inserts.
InsertDevice(s) ==
  LET d == job[s].device IN
  /\ \/ d \notin trusted /\ TrustedNow(s, "insert") /\ trusted' = trusted \cup {d}
     \/ d \in trusted /\ Goto(s, "insert", "idle") /\ UNCHANGED <<trusted, entered>>
  /\ UNCHANGED <<store, codes, row, home>>

TouchDevice(s) ==
  /\ TrustedNow(s, "touch")
  /\ UNCHANGED <<store, codes, row, home, trusted>>

\* login, with the right password.
Login(s, d) ==
  /\ Registered
  /\ Start(s, "device", Job("login", d, d), 0, NoEntity)
  /\ UNCHANGED <<store, codes, row, doors>>

\* A login that names no device is never known, whatever is trusted.
LoginUnnamed(s) ==
  /\ Registered
  /\ Start(s, "issue", Job("login", Unknown, NoDevice), 0, NoEntity)
  /\ UNCHANGED <<store, codes, row, doors>>

Known_Pending(d) == d \in trusted \/ code[d] # 0
Known(d) == d \in trusted

CheckDevice(s) ==
  /\ Goto(s, "device", IF Known(job[s].device) THEN "touch" ELSE "issue")
  /\ UNCHANGED <<store, codes, row, doors>>

SetVerified(s) ==
  /\ Goto(s, "verify", "idle")
  /\ verified' = TRUE
  /\ UNCHANGED <<store, codes, password, passwords, doors>>

\* usersRepository.update writes the one column.
SetPassword(s) ==
  /\ Goto(s, "setPassword", "idle")
  /\ password' = entity[s].password
  /\ UNCHANGED <<store, codes, passwords, verified, doors>>

\* update reads the user, ...
UpdateProfile(s) ==
  /\ Registered
  /\ Start(s, "saveProfile", Job("profile", "profile", NoDevice), 0, Entity(password, verified))
  /\ UNCHANGED <<store, codes, row, doors>>

\* ... and saves all of it.
SaveProfile(s) ==
  /\ Goto(s, "saveProfile", "idle")
  /\ password' = entity[s].password
  /\ verified' = entity[s].verified
  /\ UNCHANGED <<store, codes, passwords, doors>>

-----------------------------------------------------------------------------

\* register logs a signup code it could not issue or mail, and goes on.
StatementFails(s) ==
  LET kept == job[s].op = "register" /\ pc[s] \in {"issue", "counter", "mail"} IN
  /\ pc[s] # "idle"
  /\ TornIssues \/ pc[s] # "counter"
  /\ troubles < MaxTroubles
  /\ troubles' = troubles + 1
  /\ pc' = [pc EXCEPT ![s] = "idle"]
  /\ job' = [job EXCEPT ![s] = NoJob]
  /\ raw' = [raw EXCEPT ![s] = 0]
  /\ entity' = [entity EXCEPT ![s] = NoEntity]
  /\ entered' = IF kept THEN entered \cup {job[s].device} ELSE entered
  /\ UNCHANGED <<store, codes, row, home, trusted, requests>>

Crash ==
  /\ \E s \in Slots : pc[s] # "idle"
  /\ TornIssues \/ \A s \in Slots : pc[s] # "counter"
  /\ troubles < MaxTroubles
  /\ troubles' = troubles + 1
  /\ pc' = [s \in Slots |-> "idle"]
  /\ job' = [s \in Slots |-> NoJob]
  /\ raw' = [s \in Slots |-> 0]
  /\ entity' = [s \in Slots |-> NoEntity]
  /\ UNCHANGED <<store, codes, row, doors, requests>>

Next ==
  \/ \E k \in Keys : Expire(k) \/ ExpireAttempts(k)
  \/ \E s \in Slots :
       \/ \E d \in Devices : Login(s, d) \/ ResendDeviceCode(s, d) \/ ConfirmDevice(s, d)
       \/ \E d \in Devices \cup {NoDevice} : Register(s, d)
       \/ LoginUnnamed(s) \/ ForgotPassword(s) \/ ResendVerification(s)
       \/ VerifyEmail(s) \/ ResetPassword(s) \/ UpdateProfile(s) \/ SaveProfile(s)
       \/ Peek(s) \/ SetCode(s) \/ SetAttempts(s) \/ Mail(s)
       \/ GetAttempts(s) \/ DropCode(s) \/ CountMiss(s) \/ UseCode(s)
       \/ CreateUser(s) \/ FindDevice(s) \/ InsertDevice(s) \/ TouchDevice(s) \/ CheckDevice(s)
       \/ SetVerified(s) \/ SetPassword(s)
       \/ StatementFails(s)
  \/ Crash

Spec == Init /\ [][Next]_vars

-----------------------------------------------------------------------------

TypeOK ==
  /\ code \in [Keys -> Nat] /\ lives \in [Keys -> Nat] /\ issued \in [Keys -> Nat]
  /\ attempts \in [Keys -> Nat \cup {Absent}]
  /\ wrong \in [Keys -> Nat]
  /\ mailed \in [Keys -> SUBSET Nat] /\ used \in [Keys -> SUBSET Nat]
  /\ password \in Nat /\ passwords \in Nat /\ verified \in BOOLEAN
  /\ home \in Devices \cup {NoDevice} /\ trusted \subseteq Devices
  /\ entered \subseteq Devices \cup {NoDevice}
  /\ requests \in Nat /\ troubles \in Nat
  /\ pc \in [Slots -> Steps]
  /\ job \in [Slots -> [op : Ops, key : Keys \cup {"none", "profile"},
                        device : Devices \cup {NoDevice}]]
  /\ raw \in [Slots -> Nat]
  /\ entity \in [Slots -> [password : Nat, verified : BOOLEAN]]

\* Tokens go to devices that are trusted, or to the registration that named
\* none; and a device is trusted because the account was registered on it or a
\* code mailed for it came back.
OnlyKnownDevicesEnter ==
  /\ \A d \in entered : d \in trusted \/ (d = NoDevice /\ home = NoDevice)
  /\ \A d \in trusted : d = home \/ used[d] \cap mailed[d] # {}

\* One accepted code changes the account once: every password but the first
\* and the verified flag answer to a code of their own that was mailed.
ChangesAnswerCodes ==
  /\ password <= 1 + Cardinality(used["reset"] \cap mailed["reset"])
  /\ verified => used["signup"] \cap mailed["signup"] # {}

\* What a code changed is not undone: no older password comes back, and
\* verifying "just flips `verified: true` once confirmed".
NothingUndone == [][password' >= password /\ (verified => verified')]_vars

\* The code that stands for a key: one that a request is looking at counts.
Looking(s, k) == pc[s] \in {"attempts", "use"} /\ job[s].key = k
Standing(k) ==
  IF \E s \in Slots : Looking(s, k) THEN raw[CHOOSE s \in Slots : Looking(s, k)] ELSE code[k]
Promise == INSTANCE OneTimeCodes WITH
  Key <- Keys, Code <- 1..MaxRequests, MaxWrong <- MaxAttempts,
  live <- [k \in Keys |-> Standing(k)],
  guesses <- [k \in Keys |-> IF Standing(k) = 0 THEN 0 ELSE wrong[k]]
KeepsOneTimeCodes == Promise!Spec
=============================================================================
