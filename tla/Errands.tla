------------------------------- MODULE Errands -------------------------------
(***************************************************************************)
(* One errand of ErrandsService (src/errands/errands.service.ts), its      *)
(* applications and the money behind it, under concurrent HTTP requests.   *)
(*                                                                         *)
(* A request handler is a slot: it holds what it read from the database    *)
(* across its awaits, and one action is what runs between two of them.     *)
(* A save reads the row again and writes every column that differs from    *)
(* the entity, the ones another request changed in between included, so    *)
(* what a handler read is what it writes back; its SELECT and UPDATE are   *)
(* one step here.  A handler whose checks fail changes nothing and is left *)
(* out.  Wallet calls are atomic: Wallet shows that they are.              *)
(***************************************************************************)
EXTENDS Integers, FiniteSets

CONSTANTS
  Slots,        \* the handlers that can be in flight at once
  Requester,    \* the user who posts the errand
  Runners,      \* the other users
  NoUser,       \* runnerId is null
  RunnerRole,   \* the users whose role is not REQUESTER
  Pro,          \* the users with a Pro subscription
  ClientMoves,  \* the <<current, wanted>> statuses clients send to updateStatus
  Racing,       \* the operations whose requests may overlap; the code sets no
                \* limit, a smaller set isolates what holds when the rest is quiet
  Faults,       \* TRUE: any database statement of a handler may fail
  Crashes       \* TRUE: the server process may die and restart

Users == Runners \cup {Requester}
ErrandStatus == {"OPEN", "PENDING", "ACCEPTED", "IN_PROGRESS", "COMPLETED", "CANCELLED"}
Rows == ErrandStatus \cup {"NONE"}     \* "NONE": the row does not exist yet
ApplicationStatus == {"NONE", "PENDING", "ACCEPTED", "DECLINED"}
Ops == {"create", "acceptErrand", "applyToErrand", "acceptApplication",
        "declineApplication", "updateStatus", "cancel"}

ASSUME ErrandsAssumption ==
  /\ Requester \notin Runners
  /\ NoUser \notin Users
  /\ RunnerRole \subseteq Users /\ Pro \subseteq Users
  /\ ClientMoves \subseteq ErrandStatus \X ErrandStatus
  /\ Racing \subseteq Ops
  /\ Faults \in BOOLEAN /\ Crashes \in BOOLEAN

VARIABLES
  status,      \* errands.status
  runner,      \* errands.runnerId
  window,      \* priorityUntil is set and in the future
  app,         \* errand_applications.status, per applicant
  payment,     \* the ERRAND_PAYMENT row's status, "NONE" before the debit
  linked,      \* that row carries the errandId
  earnings,    \* the EARNING rows of the errand, per runner credited
  refunds,     \* the REVERSAL rows of the payment
  pc,          \* what each slot does next
  job          \* what it remembers: the user it is about and what it read

errand == <<status, runner>>
money == <<payment, linked, earnings, refunds>>
vars == <<status, runner, window, app, payment, linked, earnings, refunds, pc, job>>

Jobs == [op : Ops \cup {"none"}, user : Users \cup {NoUser}, status : Rows,
         runner : Users \cup {NoUser}, to : Rows]
Job(op, u, was, r, to) == [op |-> op, user |-> u, status |-> was, runner |-> r, to |-> to]
NoJob == Job("none", NoUser, "NONE", NoUser, "NONE")

Steps == {"idle", "settings", "saveErrand", "link", "undo", "accept", "insertApplication",
          "markPending", "choose", "markAccepted", "declineRest", "findToDecline",
          "decline", "countPending", "reopen", "saveStatus", "findEarning",
          "findRunner", "payRunner", "declineAll", "saveCancel", "findPayment", "refund"}

Init ==
  /\ status = "NONE" /\ runner = NoUser /\ window = FALSE
  /\ app = [u \in Users |-> "NONE"]
  /\ payment = "NONE" /\ linked = FALSE
  /\ earnings = [u \in Users |-> 0] /\ refunds = 0
  /\ pc = [s \in Slots |-> "idle"]
  /\ job = [s \in Slots |-> NoJob]

\* A slot takes up a request: it has read the errand, the checks passed, and it
\* keeps of the entity what it will use after the next await.
Start(s, next, what) ==
  /\ pc[s] = "idle"
  /\ \A t \in Slots : pc[t] # "idle" => what.op \in Racing /\ job[t].op \in Racing
  /\ pc' = [pc EXCEPT ![s] = next]
  /\ job' = [job EXCEPT ![s] = what]

Goto(s, here, next) ==
  /\ pc[s] = here
  /\ pc' = [pc EXCEPT ![s] = next]
  /\ job' = IF next = "idle" THEN [job EXCEPT ![s] = NoJob] ELSE job

-----------------------------------------------------------------------------
(* create: the debit first, then the errand, then the link between them.   *)

\* The debit not awaited, so that a failed one stops nothing.
Create_NotAwaited(s) ==
  /\ payment = "NONE" /\ status = "NONE"
  /\ Start(s, "settings", Job("create", NoUser, "NONE", NoUser, "NONE"))
  /\ payment' \in {"NONE", "SUCCESS"}
  /\ UNCHANGED <<errand, window, app, linked, earnings, refunds>>

Create(s) ==
  /\ payment = "NONE"
  /\ Start(s, "settings", Job("create", NoUser, "NONE", NoUser, "NONE"))
  /\ payment' = "SUCCESS"
  /\ UNCHANGED <<errand, window, app, linked, earnings, refunds>>

\* The two settings that decide on the window, read before the try block.
ReadSettings(s) ==
  /\ Goto(s, "settings", "saveErrand")
  /\ UNCHANGED <<errand, window, app, money>>

\* isPriorityErrand, from the price and the number of runners, opens a window.
SaveErrand(s) ==
  /\ Goto(s, "saveErrand", "link")
  /\ status' = "OPEN"
  /\ window' \in BOOLEAN
  /\ UNCHANGED <<runner, app, money>>

LinkPayment_Dropped(s) ==
  /\ Goto(s, "link", "idle")
  /\ UNCHANGED <<errand, window, app, money>>

\* Locations and media are saved on the way.
LinkPayment(s) ==
  /\ Goto(s, "link", "idle")
  /\ linked' = TRUE
  /\ UNCHANGED <<errand, window, app, payment, earnings, refunds>>

\* WalletService.reverseTransaction of the payment: no status is looked at.
ReversePayment ==
  /\ payment' = "FAILED"
  /\ refunds' = refunds + 1
  /\ UNCHANGED <<linked, earnings>>

UndoPayment(s) ==
  /\ Goto(s, "undo", "idle")
  /\ ReversePayment
  /\ UNCHANGED <<errand, window, app>>

-----------------------------------------------------------------------------
(* acceptErrand and applyToErrand.                                         *)

\* Who may pick the errand up at all, as far as a handler checks on reading it.
Eligible_Own(u) == u \in RunnerRole /\ (window => u \in Pro)
Eligible_AnyRole(u) == u # Requester /\ (window => u \in Pro)
Eligible_NoWindow(u) == u # Requester /\ u \in RunnerRole
Eligible(u) ==
  /\ u # Requester
  /\ u \in RunnerRole
  /\ window => u \in Pro

AcceptErrand(s, u) ==
  /\ status = "OPEN"
  /\ Eligible(u)
  /\ Start(s, "accept", Job("acceptErrand", u, "NONE", NoUser, "NONE"))
  /\ UNCHANGED <<errand, window, app, money>>

\* UPDATE ... WHERE status = OPEN; no row affected is a 409.
StillOpen_Unconditional == TRUE
StillOpen == status = "OPEN"

Accept(s) ==
  /\ Goto(s, "accept", "idle")
  /\ IF StillOpen
       THEN status' = "ACCEPTED" /\ runner' = job[s].user
       ELSE UNCHANGED errand
  /\ UNCHANGED <<window, app, money>>

ApplyToErrand(s, u) ==
  /\ status \in {"OPEN", "PENDING"}
  /\ Eligible(u)
  /\ Start(s, "insertApplication",
           Job("applyToErrand", u, status, NoUser, "NONE"))
  /\ UNCHANGED <<errand, window, app, money>>

\* An application that exists is a 409, from the find or from the unique index.
InsertApplication(s) ==
  LET u == job[s].user  new == app[u] = "NONE" IN
  /\ Goto(s, "insertApplication", IF new /\ job[s].status = "OPEN" THEN "markPending" ELSE "idle")
  /\ app' = IF new THEN [app EXCEPT ![u] = "PENDING"] ELSE app
  /\ UNCHANGED <<errand, window, money>>

\* Unconditional: the row need not be OPEN any more.
MarkPending(s) ==
  /\ Goto(s, "markPending", "idle")
  /\ status' = "PENDING"
  /\ UNCHANGED <<runner, window, app, money>>

-----------------------------------------------------------------------------
(* acceptApplication and declineApplication, by the requester.             *)

\* Of the errand only its requester is used, so one read finds both rows.
AcceptApplication(s, u) ==
  /\ app[u] = "PENDING"
  /\ Start(s, "choose", Job("acceptApplication", u, "NONE", NoUser, "NONE"))
  /\ UNCHANGED <<errand, window, app, money>>

\* UPDATE ... WHERE status IN (OPEN, PENDING); no row affected is a 409.
StillFree_Unconditional == TRUE
StillFree == status \in {"OPEN", "PENDING"}

Choose(s) ==
  /\ Goto(s, "choose", IF StillFree THEN "markAccepted" ELSE "idle")
  /\ IF StillFree
       THEN status' = "ACCEPTED" /\ runner' = job[s].user
       ELSE UNCHANGED errand
  /\ UNCHANGED <<window, app, money>>

MarkAccepted(s) ==
  /\ Goto(s, "markAccepted", "declineRest")
  /\ app' = [app EXCEPT ![job[s].user] = "ACCEPTED"]
  /\ UNCHANGED <<errand, window, money>>

\* The bulk UPDATE of the applications that are still pending.
DeclinePending_Nobody == UNCHANGED app
DeclinePending_Cancelled ==
  app' = [u \in Users |-> IF app[u] = "PENDING" THEN "CANCELLED" ELSE app[u]]
DeclinePending == app' = [u \in Users |-> IF app[u] = "PENDING" THEN "DECLINED" ELSE app[u]]

DeclineRest(s) ==
  /\ Goto(s, "declineRest", "idle")
  /\ DeclinePending
  /\ UNCHANGED <<errand, window, money>>

DeclineApplication(s, u) ==
  /\ app[u] # "NONE"
  /\ Start(s, "findToDecline",
           Job("declineApplication", u, status, NoUser, "NONE"))
  /\ UNCHANGED <<errand, window, app, money>>

FindToDecline(s) ==
  /\ Goto(s, "findToDecline", IF app[job[s].user] = "PENDING" THEN "decline" ELSE "idle")
  /\ UNCHANGED <<errand, window, app, money>>

Decline(s) ==
  /\ Goto(s, "decline", IF job[s].status = "PENDING" THEN "countPending" ELSE "idle")
  /\ app' = [app EXCEPT ![job[s].user] = "DECLINED"]
  /\ UNCHANGED <<errand, window, money>>

CountPending(s) ==
  /\ Goto(s, "countPending", IF \E u \in Users : app[u] = "PENDING" THEN "idle" ELSE "reopen")
  /\ UNCHANGED <<errand, window, app, money>>

\* Unconditional: the row need not be PENDING any more.
Reopen(s) ==
  /\ Goto(s, "reopen", "idle")
  /\ status' = "OPEN"
  /\ UNCHANGED <<runner, window, app, money>>

-----------------------------------------------------------------------------
(* updateStatus, by the requester or the runner, and processPayout.        *)

\* The dto allows every status; PENDING is refused and COMPLETED needs to be
\* read IN_PROGRESS, any other status may follow any other.
UpdateStatus(s, u, to) ==
  /\ status # "NONE"
  /\ u \in {Requester, runner}
  /\ <<status, to>> \in ClientMoves
  /\ to # "PENDING"
  /\ to = "COMPLETED" => status = "IN_PROGRESS"
  /\ Start(s, "saveStatus", Job("updateStatus", NoUser, "NONE", runner, to))
  /\ UNCHANGED <<errand, window, app, money>>

SaveStatus(s) ==
  /\ Goto(s, "saveStatus", IF job[s].to = "COMPLETED" THEN "findEarning" ELSE "idle")
  /\ status' = job[s].to
  /\ runner' = job[s].runner
  /\ UNCHANGED <<window, app, money>>

\* findEarningByErrandId
AlreadyPaid_Unchecked == FALSE
AlreadyPaid == \E u \in Users : earnings[u] > 0

FindEarning(s) ==
  /\ Goto(s, "findEarning", IF AlreadyPaid THEN "idle" ELSE "findRunner")
  /\ UNCHANGED <<errand, window, app, money>>

\* The payout reads the errand again; without a runner there is none.
FindRunner(s) ==
  /\ pc[s] = "findRunner"
  /\ IF runner = NoUser
       THEN Goto(s, "findRunner", "idle")
       ELSE /\ pc' = [pc EXCEPT ![s] = "payRunner"]
            /\ job' = [job EXCEPT ![s] = Job("updateStatus", runner, "NONE", NoUser, "NONE")]
  /\ UNCHANGED <<errand, window, app, money>>

PayRunner(s) ==
  /\ Goto(s, "payRunner", "idle")
  /\ earnings' = [earnings EXCEPT ![job[s].user] = @ + 1]
  /\ UNCHANGED <<errand, window, app, payment, linked, refunds>>

-----------------------------------------------------------------------------
(* cancel, by the requester, and processRefund.                            *)

Cancellable == {"OPEN", "PENDING"}

Cancel(s) ==
  /\ status \in Cancellable
  /\ Start(s, IF status = "PENDING" THEN "declineAll" ELSE "saveCancel",
           Job("cancel", NoUser, "NONE", runner, "NONE"))
  /\ UNCHANGED <<errand, window, app, money>>

DeclineAll(s) ==
  /\ Goto(s, "declineAll", "saveCancel")
  /\ DeclinePending
  /\ UNCHANGED <<errand, window, money>>

\* save of the entity read at the start: its runnerId is written back too.
SaveCancel(s) ==
  /\ Goto(s, "saveCancel", "findPayment")
  /\ status' = "CANCELLED"
  /\ runner' = job[s].runner
  /\ UNCHANGED <<window, app, money>>

\* findErrandPaymentByErrandId: a payment not linked is not found.
Refundable_AnyStatus == linked
Refundable == linked /\ payment = "SUCCESS"

FindPayment(s) ==
  /\ Goto(s, "findPayment", IF Refundable THEN "refund" ELSE "idle")
  /\ UNCHANGED <<errand, window, app, money>>

Refund(s) ==
  /\ Goto(s, "refund", "idle")
  /\ ReversePayment
  /\ UNCHANGED <<errand, window, app>>

-----------------------------------------------------------------------------

\* The next statement of a handler throws and writes nothing.  Only the try
\* block of create undoes what went before; anywhere else the request ends, with
\* an error or, in a payout or refund, with a line in the log.
StatementFails(s) ==
  /\ Faults
  /\ \E here \in Steps \ {"idle"} :
       Goto(s, here, IF here \in {"saveErrand", "link"} THEN "undo" ELSE "idle")
  /\ UNCHANGED <<errand, window, app, money>>

WindowCloses ==
  /\ window
  /\ window' = FALSE
  /\ UNCHANGED <<errand, app, money, pc, job>>

\* The process dies: what its handlers had not written is lost.
Crash ==
  /\ Crashes
  /\ \E s \in Slots : pc[s] # "idle"
  /\ pc' = [s \in Slots |-> "idle"]
  /\ job' = [s \in Slots |-> NoJob]
  /\ UNCHANGED <<errand, window, app, money>>

Request(s) ==
  \/ Create(s) \/ Cancel(s)
  \/ \E u \in Users : \/ AcceptErrand(s, u) \/ ApplyToErrand(s, u)
                      \/ AcceptApplication(s, u) \/ DeclineApplication(s, u)
                      \/ \E to \in ErrandStatus : UpdateStatus(s, u, to)

Continue(s) ==
  \/ ReadSettings(s) \/ SaveErrand(s) \/ LinkPayment(s) \/ UndoPayment(s)
  \/ Accept(s) \/ InsertApplication(s) \/ MarkPending(s)
  \/ Choose(s) \/ MarkAccepted(s) \/ DeclineRest(s)
  \/ FindToDecline(s) \/ Decline(s) \/ CountPending(s) \/ Reopen(s)
  \/ SaveStatus(s) \/ FindEarning(s) \/ FindRunner(s) \/ PayRunner(s)
  \/ DeclineAll(s) \/ SaveCancel(s) \/ FindPayment(s) \/ Refund(s)
  \/ StatementFails(s)

Next ==
  \/ \E s \in Slots : Request(s) \/ Continue(s)
  \/ WindowCloses
  \/ Crash

Spec == Init /\ [][Next]_vars

\* A started handler runs on; clients, time and crashes owe nothing.
Fairness == \A s \in Slots : WF_vars(Continue(s))
LiveSpec == Spec /\ Fairness

-----------------------------------------------------------------------------

TypeOK ==
  /\ status \in Rows /\ runner \in Users \cup {NoUser}
  /\ window \in BOOLEAN
  /\ app \in [Users -> ApplicationStatus]
  /\ payment \in {"NONE", "SUCCESS", "FAILED"} /\ linked \in BOOLEAN
  /\ earnings \in [Users -> Nat] /\ refunds \in Nat
  /\ pc \in [Slots -> Steps]
  /\ job \in [Slots -> Jobs]

\* Nobody works for themselves: through every stale save and every overlap, the
\* requester is never the runner, an applicant or the one who is paid.
NeverOwnRunner ==
  /\ runner # Requester
  /\ app[Requester] = "NONE"
  /\ earnings[Requester] = 0

\* Whoever works on the errand or is paid for it has a role that may.
OnlyRunnersWork ==
  /\ runner # NoUser => runner \in RunnerRole
  /\ \A u \in Users : app[u] # "NONE" \/ earnings[u] > 0 => u \in RunnerRole

\* While the priority window is open only Pro users get the errand or bid on
\* it, although each handler checks once and writes later.
WindowIsPro ==
  window => /\ runner # NoUser => runner \in Pro
            /\ \A u \in Users : app[u] # "NONE" => u \in Pro

\* "if they can't afford it, nothing gets created at all": no errand exists
\* before its price was debited, wherever a fault or a crash cut the handler.
PaidBeforePosted ==
  /\ status # "NONE" => payment # "NONE"
  /\ linked => status # "NONE"

Quiet == \A s \in Slots : pc[s] = "idle"

\* Between requests the errand and its applications tell one story: PENDING
\* exactly when someone waits for an answer, at most one application accepted,
\* and then its applicant is the runner and nobody waits any more.
ApplicationsMatchErrand ==
  Quiet =>
    /\ status = "OPEN" => \A u \in Users : app[u] \in {"NONE", "DECLINED"}
    /\ status = "PENDING" => \E u \in Users : app[u] = "PENDING"
    /\ \A u \in Users : app[u] = "ACCEPTED" =>
         runner = u /\ \A v \in Users \ {u} : app[v] \in {"NONE", "DECLINED"}

\* One payout at most: completing an errand twice credits its runner once.
PaidOnce ==
  /\ \A u \in Users : earnings[u] <= 1
  /\ \A u, v \in Users : earnings[u] > 0 /\ earnings[v] > 0 => u = v

\* One refund at most: the reversal looks at no status, its callers must.
RefundedOnce == refunds <= 1

\* "so there's nothing to refund once a runner has accepted": the price never
\* goes to the runner and back to the requester.
NotPaidAndRefunded == refunds > 0 => \A u \in Users : earnings[u] = 0

\* A runner who has the errand keeps it: "instead of silently overwriting the
\* first runner's acceptance".
RunnerKept == [][runner # NoUser => runner' = runner]_vars

\* "Only possible before a runner has picked up the errand": no cancellation
\* ends an errand that has a runner.
CancelledUnpicked ==
  [][status' = "CANCELLED" /\ status # "CANCELLED" => runner = NoUser]_vars

\* A completed errand with a runner is paid for, and a cancelled one refunded,
\* by the handler that completed or cancelled it.
SettledEventually ==
  /\ status = "COMPLETED" /\ runner # NoUser ~> \E u \in Users : earnings[u] > 0
  /\ status = "CANCELLED" ~> refunds > 0

Promise == INSTANCE Lifecycle WITH
  held <- payment # "NONE", paid <- earnings, returned <- refunds

\* When only accepts overlap, clients move the errand forward and nothing fails,
\* the handlers keep the promise of Lifecycle: the price goes to the runner of
\* the completed errand or back for the cancelled one, and no second time.
KeepsPromise == Promise!LiveSpec
=============================================================================
