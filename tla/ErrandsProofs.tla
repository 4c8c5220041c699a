---------------------------- MODULE ErrandsProofs ----------------------------
(***************************************************************************)
(* What Errands keeps for any number of handlers, any overlap of requests, *)
(* any statuses clients ask for, faults and crashes; and that it is paid   *)
(* for once and refunded once, if the handlers that do so do not overlap.  *)
(***************************************************************************)
EXTENDS Errands, TLAPS

\* What a handler checks of a user stays true of everyone it writes anywhere:
\* the window only closes, once the errand is there.
Fit ==
  /\ runner # NoUser => Eligible(runner)
  /\ \A u \in Users : app[u] # "NONE" \/ earnings[u] > 0 => Eligible(u)
  /\ \A s \in Slots : /\ job[s].user # NoUser => Eligible(job[s].user)
                      /\ job[s].runner # NoUser => Eligible(job[s].runner)

\* Until the errand is saved there is one handler, and nothing for it to find.
Fresh ==
  /\ status = "NONE" =>
       /\ runner = NoUser
       /\ ~linked
       /\ \A u \in Users : app[u] = "NONE" /\ earnings[u] = 0
       /\ \A s \in Slots : pc[s] \in {"idle", "settings", "saveErrand", "undo"}
  /\ payment = "NONE" => status = "NONE" /\ \A s \in Slots : pc[s] = "idle"
  /\ \A s \in Slots : pc[s] \in {"settings", "saveErrand"} =>
       /\ status = "NONE"
       /\ \A t \in Slots \ {s} : pc[t] = "idle"

\* What a step may count on of the job it belongs to.
Memory ==
  \A s \in Slots :
    /\ pc[s] \in {"idle", "settings", "saveErrand", "link", "undo"} =>
         job[s].user = NoUser /\ job[s].runner = NoUser
    /\ pc[s] \in {"accept", "insertApplication", "markPending", "choose", "markAccepted",
                  "declineRest", "findToDecline", "decline", "countPending", "reopen",
                  "payRunner"} => job[s].user # NoUser
    /\ pc[s] = "saveStatus" => job[s].to # "NONE"

IInv == TypeOK /\ Fit /\ Fresh /\ Memory

-----------------------------------------------------------------------------

\* The jobs that handlers start with are jobs, and keep what they were given.
LEMMA JobShape ==
  ASSUME NEW op \in Ops \cup {"none"}, NEW u \in Users \cup {NoUser},
         NEW r \in Users \cup {NoUser}, NEW was \in Rows, NEW to \in Rows
  PROVE  /\ Job(op, u, was, r, to) \in Jobs
         /\ Job(op, u, was, r, to).user = u
         /\ Job(op, u, was, r, to).runner = r
         /\ Job(op, u, was, r, to).to = to
BY DEF Job, Jobs

\* An idle handler remembers nobody.
LEMMA NoJobShape == NoJob \in Jobs /\ NoJob.user = NoUser /\ NoJob.runner = NoUser
BY JobShape DEF NoJob, Rows

\* Taking up a request and moving on keep the handlers well typed.
LEMMA StartTypes ==
  ASSUME TypeOK, NEW s \in Slots, NEW next \in Steps, NEW what \in Jobs,
         Start(s, next, what)
  PROVE  pc' \in [Slots -> Steps] /\ job' \in [Slots -> Jobs]
BY DEF TypeOK, Start

\* Moving on keeps the handlers well typed too.
LEMMA GotoTypes ==
  ASSUME TypeOK, NEW s \in Slots, NEW here, NEW next \in Steps, Goto(s, here, next)
  PROVE  pc' \in [Slots -> Steps] /\ job' \in [Slots -> Jobs]
<1>1. NoJob \in Jobs
  BY NoJobShape
<1>2. QED
  BY <1>1 DEF TypeOK, Goto

\* Every request keeps the types.
LEMMA TypeRequest ==
  ASSUME TypeOK, NEW s \in Slots, Request(s)
  PROVE  TypeOK'
<1>1. CASE Create(s)
  <2>1. Job("create", NoUser, "NONE", NoUser, "NONE") \in Jobs
    BY JobShape DEF Ops, Rows, Users
  <2>2. QED
    BY <1>1, <2>1, StartTypes DEF Create, TypeOK, Steps, errand
<1>2. CASE Cancel(s)
  <2>1. Job("cancel", NoUser, "NONE", runner, "NONE") \in Jobs
    BY JobShape DEF Ops, Rows, Users, TypeOK
  <2>2. QED
    BY <1>2, <2>1, StartTypes DEF Cancel, TypeOK, Steps, errand, money
<1>3. ASSUME NEW u \in Users, AcceptErrand(s, u) PROVE TypeOK'
  <2>1. Job("acceptErrand", u, "NONE", NoUser, "NONE") \in Jobs
    BY JobShape DEF Ops, Rows, Users, TypeOK
  <2>2. QED
    BY <1>3, <2>1, StartTypes DEF AcceptErrand, TypeOK, Steps, errand, money
<1>4. ASSUME NEW u \in Users, ApplyToErrand(s, u) PROVE TypeOK'
  <2>1. Job("applyToErrand", u, status, NoUser, "NONE") \in Jobs
    BY JobShape DEF Ops, Rows, Users, TypeOK
  <2>2. QED
    BY <1>4, <2>1, StartTypes DEF ApplyToErrand, TypeOK, Steps, errand, money
<1>5. ASSUME NEW u \in Users, AcceptApplication(s, u) PROVE TypeOK'
  <2>1. Job("acceptApplication", u, "NONE", NoUser, "NONE") \in Jobs
    BY JobShape DEF Ops, Rows, Users, TypeOK
  <2>2. QED
    BY <1>5, <2>1, StartTypes DEF AcceptApplication, TypeOK, Steps, errand, money
<1>6. ASSUME NEW u \in Users, DeclineApplication(s, u) PROVE TypeOK'
  <2>1. Job("declineApplication", u, status, NoUser, "NONE") \in Jobs
    BY JobShape DEF Ops, Rows, Users, TypeOK
  <2>2. QED
    BY <1>6, <2>1, StartTypes DEF DeclineApplication, TypeOK, Steps, errand, money
<1>7. ASSUME NEW u \in Users, NEW to \in ErrandStatus, UpdateStatus(s, u, to) PROVE TypeOK'
  <2>1. Job("updateStatus", NoUser, "NONE", runner, to) \in Jobs
    BY JobShape DEF Ops, Rows, Users, TypeOK
  <2>2. QED
    BY <1>7, <2>1, StartTypes DEF UpdateStatus, TypeOK, Steps, errand, money
<1>8. QED
  BY <1>1, <1>2, <1>3, <1>4, <1>5, <1>6, <1>7 DEF Request

\* Every later step of a handler keeps the types.
LEMMA TypeContinue ==
  ASSUME TypeOK, NEW s \in Slots, Continue(s)
  PROVE  TypeOK'
<1>1. CASE SaveErrand(s)
  BY <1>1, GotoTypes DEF SaveErrand, TypeOK, Steps, errand, money, Rows, ErrandStatus
<1>2. CASE LinkPayment(s)
  BY <1>2, GotoTypes DEF LinkPayment, TypeOK, Steps, errand, money
<1>3. CASE ReadSettings(s)
  BY <1>3, GotoTypes DEF ReadSettings, TypeOK, Steps, errand, money
<1>4. CASE UndoPayment(s)
  BY <1>4, GotoTypes DEF UndoPayment, TypeOK, Steps, errand, money, ReversePayment
<1>5. CASE Accept(s)
  BY <1>5, GotoTypes DEF Accept, TypeOK, Steps, errand, money, Rows, ErrandStatus, Jobs
<1>6. CASE InsertApplication(s)
  BY <1>6, GotoTypes DEF InsertApplication, TypeOK, Steps, errand, money, ApplicationStatus
<1>7. CASE MarkPending(s)
  BY <1>7, GotoTypes DEF MarkPending, TypeOK, Steps, errand, money, Rows, ErrandStatus
<1>8. CASE Choose(s)
  BY <1>8, GotoTypes DEF Choose, TypeOK, Steps, errand, money, Rows, ErrandStatus, Jobs
<1>9. CASE MarkAccepted(s)
  BY <1>9, GotoTypes DEF MarkAccepted, TypeOK, Steps, errand, money, ApplicationStatus
<1>10. CASE DeclineRest(s)
  BY <1>10, GotoTypes DEF DeclineRest, TypeOK, Steps, errand, money, DeclinePending, ApplicationStatus
<1>11. CASE FindToDecline(s)
  BY <1>11, GotoTypes DEF FindToDecline, TypeOK, Steps, errand, money
<1>12. CASE Decline(s)
  BY <1>12, GotoTypes DEF Decline, TypeOK, Steps, errand, money, ApplicationStatus
<1>13. CASE CountPending(s)
  BY <1>13, GotoTypes DEF CountPending, TypeOK, Steps, errand, money
<1>14. CASE Reopen(s)
  BY <1>14, GotoTypes DEF Reopen, TypeOK, Steps, errand, money, Rows, ErrandStatus
<1>15. CASE SaveStatus(s)
  BY <1>15, GotoTypes DEF SaveStatus, TypeOK, Steps, errand, money, Jobs
<1>16. CASE FindEarning(s)
  BY <1>16, GotoTypes DEF FindEarning, TypeOK, Steps, errand, money
<1>17. CASE FindRunner(s)
  <2>1. CASE runner = NoUser
    BY <1>17, <2>1, GotoTypes DEF FindRunner, TypeOK, Steps, errand, money
  <2>2. CASE runner # NoUser
    <3>1. Job("updateStatus", runner, "NONE", NoUser, "NONE") \in Jobs
      BY JobShape DEF TypeOK, Ops, Rows
    <3>2. QED
      BY <1>17, <2>2, <3>1 DEF FindRunner, TypeOK, Steps, errand, money
  <2>3. QED
    BY <2>1, <2>2
<1>18. CASE PayRunner(s)
  <2>1. earnings' \in [Users -> Nat]
    <3>1. \A u \in Users : earnings[u] + 1 \in Nat
      BY DEF TypeOK
    <3>2. QED
      BY <1>18, <3>1 DEF PayRunner, TypeOK
  <2>2. QED
    BY <1>18, <2>1, GotoTypes DEF PayRunner, TypeOK, Steps, errand
<1>19. CASE DeclineAll(s)
  BY <1>19, GotoTypes DEF DeclineAll, TypeOK, Steps, errand, money, DeclinePending, ApplicationStatus
<1>20. CASE SaveCancel(s)
  BY <1>20, GotoTypes DEF SaveCancel, TypeOK, Steps, errand, money, Rows, ErrandStatus, Jobs
<1>21. CASE FindPayment(s)
  BY <1>21, GotoTypes DEF FindPayment, TypeOK, Steps, errand, money
<1>22. CASE Refund(s)
  BY <1>22, GotoTypes DEF Refund, TypeOK, Steps, errand, money, ReversePayment
<1>23. CASE StatementFails(s)
  BY <1>23, GotoTypes DEF StatementFails, TypeOK, Steps, errand, money
<1>24. QED
  BY <1>1, <1>2, <1>3, <1>4, <1>5, <1>6, <1>7, <1>8, <1>9, <1>10, <1>11, <1>12,
     <1>13, <1>14, <1>15, <1>16, <1>17, <1>18, <1>19, <1>20, <1>21, <1>22, <1>23 DEF Continue

\* Every step keeps the types.
LEMMA TypeStep == TypeOK /\ [Next]_vars => TypeOK'
<1> SUFFICES ASSUME TypeOK, [Next]_vars PROVE TypeOK'
  OBVIOUS
<1>1. CASE UNCHANGED vars
  BY <1>1 DEF TypeOK, vars
<1>2. CASE WindowCloses
  BY <1>2 DEF WindowCloses, TypeOK, errand, money
<1>3. CASE Crash
  <2>1. NoJob \in Jobs
    BY NoJobShape
  <2>2. QED
    BY <1>3, <2>1 DEF Crash, TypeOK, errand, money, Steps
<1>4. QED
  BY <1>1, <1>2, <1>3, TypeRequest, TypeContinue DEF Next

-----------------------------------------------------------------------------

\* A step of one handler leaves the others where they were.
LEMMA StartEffect ==
  ASSUME TypeOK, NEW s \in Slots, NEW next, NEW what, Start(s, next, what)
  PROVE  /\ pc[s] = "idle" /\ pc'[s] = next /\ job'[s] = what
         /\ \A t \in Slots \ {s} : pc'[t] = pc[t] /\ job'[t] = job[t]
BY DEF TypeOK, Start

\* Moving on keeps the job until the handler ends, and then forgets it.
LEMMA GotoEffect ==
  ASSUME TypeOK, NEW s \in Slots, NEW here, NEW next, Goto(s, here, next)
  PROVE  /\ pc[s] = here /\ pc'[s] = next
         /\ next # "idle" => job'[s] = job[s]
         /\ next = "idle" => job'[s].user = NoUser /\ job'[s].runner = NoUser
         /\ \A t \in Slots \ {s} : pc'[t] = pc[t] /\ job'[t] = job[t]
BY NoJobShape DEF TypeOK, Goto

\* A request keeps Fit, Fresh and Memory: it takes up only what the rows hold.
LEMMA RestRequest ==
  ASSUME IInv, NEW s \in Slots, Request(s)
  PROVE  Fit' /\ Fresh' /\ Memory'
<1> USE DEF IInv, Fit, Fresh, Memory, errand, money
<1>a. TypeOK /\ runner \in Users \cup {NoUser} /\ status \in Rows /\ NoUser \notin Users
  BY ErrandsAssumption DEF TypeOK
<1>1. CASE Create(s)
  <2> DEFINE j == Job("create", NoUser, "NONE", NoUser, "NONE")
  <2>1. j.user = NoUser /\ j.runner = NoUser /\ j.to = "NONE"
    BY DEF Job
  <2>2. \E next : Start(s, next, j)
    BY <1>1 DEF Create
  <2> HIDE DEF j
  <2>3. Fit'
    BY <1>1, <1>a, <2>1, <2>2, StartEffect DEF Create, Eligible
  <2>4. Fresh'
    BY <1>1, <1>a, <2>1, <2>2, StartEffect DEF Create
  <2>5. Memory'
    BY <1>1, <1>a, <2>1, <2>2, StartEffect DEF Create, ErrandStatus
  <2>6. QED
    BY <2>3, <2>4, <2>5
<1>2. CASE Cancel(s)
  <2> DEFINE j == Job("cancel", NoUser, "NONE", runner, "NONE")
  <2>1. j.user = NoUser /\ j.runner = runner /\ j.to = "NONE"
    BY DEF Job
  <2>2. \E next : Start(s, next, j)
    BY <1>2 DEF Cancel
  <2> HIDE DEF j
  <2>3. Fit'
    BY <1>2, <1>a, <2>1, <2>2, StartEffect DEF Cancel, Eligible
  <2>4. Fresh'
    BY <1>2, <1>a, <2>1, <2>2, StartEffect DEF Cancel, Cancellable
  <2>5. Memory'
    BY <1>2, <1>a, <2>1, <2>2, StartEffect DEF Cancel, ErrandStatus
  <2>6. QED
    BY <2>3, <2>4, <2>5
<1>3. ASSUME NEW u \in Users, AcceptErrand(s, u)
      PROVE  Fit' /\ Fresh' /\ Memory'
  <2> DEFINE j == Job("acceptErrand", u, "NONE", NoUser, "NONE")
  <2>1. j.user = u /\ j.runner = NoUser /\ j.to = "NONE"
    BY DEF Job
  <2>2. \E next : Start(s, next, j)
    BY <1>3 DEF AcceptErrand
  <2> HIDE DEF j
  <2>3. Fit'
    BY <1>3, <1>a, <2>1, <2>2, StartEffect DEF AcceptErrand, Eligible
  <2>4. Fresh'
    BY <1>3, <1>a, <2>1, <2>2, StartEffect DEF AcceptErrand
  <2>5. Memory'
    BY <1>3, <1>a, <2>1, <2>2, StartEffect DEF AcceptErrand, ErrandStatus
  <2>6. QED
    BY <2>3, <2>4, <2>5
<1>4. ASSUME NEW u \in Users, ApplyToErrand(s, u)
      PROVE  Fit' /\ Fresh' /\ Memory'
  <2> DEFINE j == Job("applyToErrand", u, status, NoUser, "NONE")
  <2>1. j.user = u /\ j.runner = NoUser /\ j.to = "NONE"
    BY DEF Job
  <2>2. \E next : Start(s, next, j)
    BY <1>4 DEF ApplyToErrand
  <2> HIDE DEF j
  <2>3. Fit'
    BY <1>4, <1>a, <2>1, <2>2, StartEffect DEF ApplyToErrand, Eligible
  <2>4. Fresh'
    BY <1>4, <1>a, <2>1, <2>2, StartEffect DEF ApplyToErrand
  <2>5. Memory'
    BY <1>4, <1>a, <2>1, <2>2, StartEffect DEF ApplyToErrand, ErrandStatus
  <2>6. QED
    BY <2>3, <2>4, <2>5
<1>5. ASSUME NEW u \in Users, AcceptApplication(s, u)
      PROVE  Fit' /\ Fresh' /\ Memory'
  <2> DEFINE j == Job("acceptApplication", u, "NONE", NoUser, "NONE")
  <2>1. j.user = u /\ j.runner = NoUser /\ j.to = "NONE"
    BY DEF Job
  <2>2. \E next : Start(s, next, j)
    BY <1>5 DEF AcceptApplication
  <2> HIDE DEF j
  <2>3. Fit'
    BY <1>5, <1>a, <2>1, <2>2, StartEffect DEF AcceptApplication, Eligible
  <2>4. Fresh'
    BY <1>5, <1>a, <2>1, <2>2, StartEffect DEF AcceptApplication
  <2>5. Memory'
    BY <1>5, <1>a, <2>1, <2>2, StartEffect DEF AcceptApplication, ErrandStatus
  <2>6. QED
    BY <2>3, <2>4, <2>5
<1>6. ASSUME NEW u \in Users, DeclineApplication(s, u)
      PROVE  Fit' /\ Fresh' /\ Memory'
  <2> DEFINE j == Job("declineApplication", u, status, NoUser, "NONE")
  <2>1. j.user = u /\ j.runner = NoUser /\ j.to = "NONE"
    BY DEF Job
  <2>2. \E next : Start(s, next, j)
    BY <1>6 DEF DeclineApplication
  <2> HIDE DEF j
  <2>3. Fit'
    BY <1>6, <1>a, <2>1, <2>2, StartEffect DEF DeclineApplication, Eligible
  <2>4. Fresh'
    BY <1>6, <1>a, <2>1, <2>2, StartEffect DEF DeclineApplication
  <2>5. Memory'
    BY <1>6, <1>a, <2>1, <2>2, StartEffect DEF DeclineApplication, ErrandStatus
  <2>6. QED
    BY <2>3, <2>4, <2>5
<1>7. ASSUME NEW u \in Users, NEW to \in ErrandStatus, UpdateStatus(s, u, to)
      PROVE  Fit' /\ Fresh' /\ Memory'
  <2> DEFINE j == Job("updateStatus", NoUser, "NONE", runner, to)
  <2>1. j.user = NoUser /\ j.runner = runner /\ j.to = to
    BY DEF Job
  <2>2. \E next : Start(s, next, j)
    BY <1>7 DEF UpdateStatus
  <2> HIDE DEF j
  <2>3. Fit'
    BY <1>7, <1>a, <2>1, <2>2, StartEffect DEF UpdateStatus, Eligible
  <2>4. Fresh'
    BY <1>7, <1>a, <2>1, <2>2, StartEffect DEF UpdateStatus
  <2>5. Memory'
    BY <1>7, <1>a, <2>1, <2>2, StartEffect, SMTT(20) DEF UpdateStatus, ErrandStatus
  <2>6. QED
    BY <2>3, <2>4, <2>5
<1>8. QED
  BY <1>1, <1>2, <1>3, <1>4, <1>5, <1>6, <1>7 DEF Request

\* A later step writes only what its job holds, and the job holds only who is fit.
LEMMA RestContinue ==
  ASSUME IInv, NEW s \in Slots, Continue(s)
  PROVE  Fit' /\ Fresh' /\ Memory'
<1> USE DEF IInv, Fit, Fresh, Memory, errand, money, Eligible
<1>a. TypeOK /\ runner \in Users \cup {NoUser} /\ status \in Rows /\ NoUser \notin Users
  BY ErrandsAssumption DEF TypeOK
<1>1. CASE SaveErrand(s)
  BY <1>1, <1>a, GotoEffect DEF SaveErrand, TypeOK
<1>2. CASE LinkPayment(s)
  BY <1>2, <1>a, GotoEffect DEF LinkPayment, TypeOK
<1>3. CASE ReadSettings(s)
  BY <1>3, <1>a, GotoEffect DEF ReadSettings, TypeOK
<1>4. CASE UndoPayment(s)
  BY <1>4, <1>a, GotoEffect DEF UndoPayment, TypeOK, ReversePayment
<1>5. CASE Accept(s)
  BY <1>5, <1>a, GotoEffect DEF Accept, TypeOK
<1>6. CASE InsertApplication(s)
  BY <1>6, <1>a, GotoEffect DEF InsertApplication, TypeOK
<1>7. CASE MarkPending(s)
  BY <1>7, <1>a, GotoEffect DEF MarkPending, TypeOK
<1>8. CASE Choose(s)
  BY <1>8, <1>a, GotoEffect DEF Choose, TypeOK
<1>9. CASE MarkAccepted(s)
  BY <1>9, <1>a, GotoEffect DEF MarkAccepted, TypeOK
<1>10. CASE DeclineRest(s)
  BY <1>10, <1>a, GotoEffect DEF DeclineRest, TypeOK, DeclinePending
<1>11. CASE FindToDecline(s)
  BY <1>11, <1>a, GotoEffect DEF FindToDecline, TypeOK
<1>12. CASE Decline(s)
  BY <1>12, <1>a, GotoEffect DEF Decline, TypeOK
<1>13. CASE CountPending(s)
  BY <1>13, <1>a, GotoEffect DEF CountPending, TypeOK
<1>14. CASE Reopen(s)
  BY <1>14, <1>a, GotoEffect DEF Reopen, TypeOK
<1>15. CASE SaveStatus(s)
  BY <1>15, <1>a, GotoEffect DEF SaveStatus, TypeOK
<1>16. CASE FindEarning(s)
  BY <1>16, <1>a, GotoEffect DEF FindEarning, TypeOK
<1>17. CASE FindRunner(s)
  <2>1. CASE runner = NoUser
    BY <1>17, <1>a, <2>1, GotoEffect DEF FindRunner, TypeOK
  <2>2. CASE runner # NoUser
    <3> DEFINE j == Job("updateStatus", runner, "NONE", NoUser, "NONE")
    <3>1. j.user = runner /\ j.runner = NoUser
      BY DEF Job
    <3>2. /\ pc' = [pc EXCEPT ![s] = "payRunner"]
          /\ job' = [job EXCEPT ![s] = j]
      BY <1>17, <2>2 DEF FindRunner
    <3> HIDE DEF j
    <3>3. QED
      BY <1>17, <1>a, <2>2, <3>1, <3>2 DEF FindRunner, TypeOK
  <2>3. QED
    BY <2>1, <2>2
<1>18. CASE PayRunner(s)
  BY <1>18, <1>a, GotoEffect DEF PayRunner, TypeOK
<1>19. CASE DeclineAll(s)
  BY <1>19, <1>a, GotoEffect DEF DeclineAll, TypeOK, DeclinePending
<1>20. CASE SaveCancel(s)
  BY <1>20, <1>a, GotoEffect DEF SaveCancel, TypeOK
<1>21. CASE FindPayment(s)
  BY <1>21, <1>a, GotoEffect DEF FindPayment, TypeOK
<1>22. CASE Refund(s)
  BY <1>22, <1>a, GotoEffect DEF Refund, TypeOK, ReversePayment
<1>23. CASE StatementFails(s)
  BY <1>23, <1>a, GotoEffect DEF StatementFails, TypeOK
<1>24. QED
  BY <1>1, <1>2, <1>3, <1>4, <1>5, <1>6, <1>7, <1>8, <1>9, <1>10, <1>11, <1>12,
     <1>13, <1>14, <1>15, <1>16, <1>17, <1>18, <1>19, <1>20, <1>21, <1>22, <1>23 DEF Continue

\* Every step keeps Fit, Fresh and Memory.
LEMMA RestStep == IInv /\ [Next]_vars => Fit' /\ Fresh' /\ Memory'
<1> SUFFICES ASSUME IInv, [Next]_vars PROVE Fit' /\ Fresh' /\ Memory'
  OBVIOUS
<1>1. CASE UNCHANGED vars
  BY <1>1 DEF IInv, Fit, Fresh, Memory, Eligible, vars
<1>2. CASE WindowCloses
  BY <1>2 DEF WindowCloses, IInv, Fit, Fresh, Memory, Eligible, errand, money
<1>3. CASE Crash
  BY <1>3, NoJobShape DEF Crash, IInv, Fit, Fresh, Memory, Eligible, errand, money
<1>4. QED
  BY <1>1, <1>2, <1>3, RestRequest, RestContinue DEF Next

\* An empty database satisfies the invariant.
LEMMA InitIInv == Init => IInv
<1> SUFFICES ASSUME Init PROVE IInv
  OBVIOUS
<1>1. TypeOK
  BY NoJobShape DEF Init, TypeOK, Rows, ApplicationStatus, Steps
<1>2. Fit /\ Fresh /\ Memory
  BY NoJobShape DEF Init, Fit, Fresh, Memory, Users
<1>3. QED
  BY <1>1, <1>2 DEF IInv

\* The inductive invariant holds of every behaviour.
THEOREM Invariant == Spec => []IInv
<1>1. IInv /\ [Next]_vars => IInv'
  BY TypeStep, RestStep DEF IInv
<1>2. QED
  BY InitIInv, <1>1, PTL DEF Spec

\* Every table column and every handler's memory keeps its type.
THEOREM TypeCorrect == Spec => []TypeOK
<1>1. IInv => TypeOK
  BY DEF IInv
<1>2. QED
  BY Invariant, <1>1, PTL

\* No overlap of requests, stale save or crash makes the requester of an errand
\* its runner, an applicant for it or the one who is paid.
THEOREM OwnErrandNeverWorked == Spec => []NeverOwnRunner
<1>1. IInv => NeverOwnRunner
  <2> SUFFICES ASSUME IInv PROVE NeverOwnRunner
    OBVIOUS
  <2>1. Requester \in Users /\ Requester # NoUser /\ earnings[Requester] \in Nat
    BY ErrandsAssumption DEF Users, IInv, TypeOK
  <2>2. QED
    BY <2>1 DEF IInv, Fit, Eligible, NeverOwnRunner
<1>2. QED
  BY Invariant, <1>1, PTL

\* Whoever runs the errand, bids on it or is paid has a role that may.
THEOREM RolesKept == Spec => []OnlyRunnersWork
<1>1. IInv => OnlyRunnersWork
  BY DEF IInv, Fit, Eligible, OnlyRunnersWork
<1>2. QED
  BY Invariant, <1>1, PTL

\* While the priority window is open nobody outside Pro has got the errand or
\* bid on it, although the handlers check once and write later.
THEOREM WindowKept == Spec => []WindowIsPro
<1>1. IInv => WindowIsPro
  BY DEF IInv, Fit, Eligible, WindowIsPro
<1>2. QED
  BY Invariant, <1>1, PTL

\* No errand exists whose price was not debited first, wherever create is cut.
THEOREM DebitedFirst == Spec => []PaidBeforePosted
<1>1. IInv => PaidBeforePosted
  BY DEF IInv, Fresh, PaidBeforePosted
<1>2. QED
  BY Invariant, <1>1, PTL

-----------------------------------------------------------------------------
(* What any step does to the handlers, stated once for the results below.  *)

\* Slot s, idle until now, takes up op; the rows stay, but for the payment.
Takes(s, op, next) ==
  /\ pc[s] = "idle" /\ pc'[s] = next /\ job'[s].op = op
  /\ \A t \in Slots \ {s} : pc'[t] = pc[t] /\ job'[t] = job[t]
  /\ \A t \in Slots \ {s} : pc[t] # "idle" => op \in Racing /\ job[t].op \in Racing
  /\ UNCHANGED <<status, runner, window, app, linked, earnings, refunds>>

\* What the handler of each operation starts with.
Begins(s) ==
  \/ Takes(s, "create", "settings") /\ payment = "NONE" /\ payment' = "SUCCESS"
  \/ /\ payment' = payment
     /\ \/ /\ Takes(s, "cancel", IF status = "PENDING" THEN "declineAll" ELSE "saveCancel")
           /\ status \in Cancellable /\ job'[s].runner = runner
        \/ Takes(s, "acceptErrand", "accept") /\ status = "OPEN"
        \/ /\ Takes(s, "applyToErrand", "insertApplication")
           /\ status \in {"OPEN", "PENDING"} /\ job'[s].status = status
        \/ /\ Takes(s, "acceptApplication", "choose")
           /\ job'[s].user \in Users /\ app[job'[s].user] = "PENDING"
        \/ Takes(s, "declineApplication", "findToDecline") /\ job'[s].status = status
        \/ /\ Takes(s, "updateStatus", "saveStatus")
           /\ <<status, job'[s].to>> \in ClientMoves /\ job'[s].runner = runner
           /\ job'[s].to \in ErrandStatus \ {"PENDING"}
           /\ job'[s].to = "COMPLETED" => status = "IN_PROGRESS"

\* A slot that starts is the only one that moves, and may overlap the others.
LEMMA StartTakes ==
  ASSUME TypeOK, NEW s \in Slots, NEW next, NEW what, Start(s, next, what),
         UNCHANGED <<status, runner, window, app, linked, earnings, refunds>>
  PROVE  Takes(s, what.op, next) /\ job'[s] = what
<1>1. \A t \in Slots \ {s} : pc[t] # "idle" => what.op \in Racing /\ job[t].op \in Racing
  BY DEF Start
<1> QED
  BY <1>1, StartEffect DEF Takes

\* Every request begins one of the operations.
LEMMA RequestBegins ==
  ASSUME TypeOK, NEW s \in Slots, Request(s)
  PROVE  Begins(s)
<1>1. CASE Create(s)
  <2> DEFINE j == Job("create", NoUser, "NONE", NoUser, "NONE")
  <2>1. j.op = "create"
    BY DEF Job
  <2>2. Start(s, "settings", j) /\ UNCHANGED <<status, runner, window, app, linked, earnings, refunds>>
    BY <1>1 DEF Create, errand
  <2> HIDE DEF j
  <2> QED
    BY <1>1, <2>1, <2>2, StartTakes DEF Create, Begins
<1>2. CASE Cancel(s)
  <2> DEFINE j == Job("cancel", NoUser, "NONE", runner, "NONE")
  <2>1. j.op = "cancel" /\ j.runner = runner
    BY DEF Job
  <2>2. /\ Start(s, IF status = "PENDING" THEN "declineAll" ELSE "saveCancel", j)
        /\ UNCHANGED <<status, runner, window, app, linked, earnings, refunds>>
    BY <1>2 DEF Cancel, errand, money
  <2> HIDE DEF j
  <2> QED
    BY <1>2, <2>1, <2>2, StartTakes DEF Cancel, Begins, money
<1>3. ASSUME NEW u \in Users, AcceptErrand(s, u) PROVE Begins(s)
  <2> DEFINE j == Job("acceptErrand", u, "NONE", NoUser, "NONE")
  <2>1. j.op = "acceptErrand"
    BY DEF Job
  <2>2. Start(s, "accept", j) /\ UNCHANGED <<status, runner, window, app, linked, earnings, refunds>>
    BY <1>3 DEF AcceptErrand, errand, money
  <2> HIDE DEF j
  <2> QED
    BY <1>3, <2>1, <2>2, StartTakes DEF AcceptErrand, Begins, money
<1>4. ASSUME NEW u \in Users, ApplyToErrand(s, u) PROVE Begins(s)
  <2> DEFINE j == Job("applyToErrand", u, status, NoUser, "NONE")
  <2>1. j.op = "applyToErrand" /\ j.status = status
    BY DEF Job
  <2>2. Start(s, "insertApplication", j) /\ UNCHANGED <<status, runner, window, app, linked, earnings, refunds>>
    BY <1>4 DEF ApplyToErrand, errand, money
  <2> HIDE DEF j
  <2> QED
    BY <1>4, <2>1, <2>2, StartTakes DEF ApplyToErrand, Begins, money
<1>5. ASSUME NEW u \in Users, AcceptApplication(s, u) PROVE Begins(s)
  <2> DEFINE j == Job("acceptApplication", u, "NONE", NoUser, "NONE")
  <2>1. j.op = "acceptApplication" /\ j.user = u
    BY DEF Job
  <2>2. Start(s, "choose", j) /\ UNCHANGED <<status, runner, window, app, linked, earnings, refunds>>
    BY <1>5 DEF AcceptApplication, errand, money
  <2> HIDE DEF j
  <2> QED
    BY <1>5, <2>1, <2>2, StartTakes DEF AcceptApplication, Begins, money
<1>6. ASSUME NEW u \in Users, DeclineApplication(s, u) PROVE Begins(s)
  <2> DEFINE j == Job("declineApplication", u, status, NoUser, "NONE")
  <2>1. j.op = "declineApplication" /\ j.status = status
    BY DEF Job
  <2>2. Start(s, "findToDecline", j) /\ UNCHANGED <<status, runner, window, app, linked, earnings, refunds>>
    BY <1>6 DEF DeclineApplication, errand, money
  <2> HIDE DEF j
  <2> QED
    BY <1>6, <2>1, <2>2, StartTakes DEF DeclineApplication, Begins, money
<1>7. ASSUME NEW u \in Users, NEW to \in ErrandStatus, UpdateStatus(s, u, to) PROVE Begins(s)
  <2> DEFINE j == Job("updateStatus", NoUser, "NONE", runner, to)
  <2>1. j.op = "updateStatus" /\ j.to = to /\ j.runner = runner
    BY DEF Job
  <2>2. Start(s, "saveStatus", j) /\ UNCHANGED <<status, runner, window, app, linked, earnings, refunds>>
    BY <1>7 DEF UpdateStatus, errand, money
  <2> HIDE DEF j
  <2> QED
    BY <1>7, <2>1, <2>2, StartTakes DEF UpdateStatus, Begins, money
<1> QED
  BY <1>1, <1>2, <1>3, <1>4, <1>5, <1>6, <1>7 DEF Request

\* The first step of each operation.
Entry ==
  {<<"create", "settings">>, <<"cancel", "declineAll">>, <<"cancel", "saveCancel">>,
   <<"acceptErrand", "accept">>, <<"applyToErrand", "insertApplication">>,
   <<"acceptApplication", "choose">>, <<"declineApplication", "findToDecline">>,
   <<"updateStatus", "saveStatus">>}

\* A request takes up one operation at its first step.
LEMMA BeginsEntry ==
  ASSUME NEW s \in Slots, Begins(s)
  PROVE  \E op, next : Takes(s, op, next) /\ <<op, next>> \in Entry
BY DEF Begins, Entry

\* The steps of each handler, in their order.
Flow ==
  {<<"settings", "saveErrand">>, <<"saveErrand", "link">>, <<"saveErrand", "undo">>,
   <<"link", "undo">>,
   <<"insertApplication", "markPending">>,
   <<"choose", "markAccepted">>, <<"markAccepted", "declineRest">>,
   <<"findToDecline", "decline">>, <<"decline", "countPending">>, <<"countPending", "reopen">>,
   <<"saveStatus", "findEarning">>, <<"findEarning", "findRunner">>, <<"findRunner", "payRunner">>,
   <<"declineAll", "saveCancel">>, <<"saveCancel", "findPayment">>, <<"findPayment", "refund">>}

\* Only s moves, along Flow or to its end.
Moves(s) ==
  /\ pc[s] # "idle"
  /\ \A t \in Slots \ {s} : pc'[t] = pc[t] /\ job'[t] = job[t]
  /\ \/ pc'[s] = "idle"
     \/ /\ <<pc[s], pc'[s]>> \in Flow
        /\ pc'[s] # "payRunner" => job'[s] = job[s]
        /\ pc'[s] = "payRunner" => job'[s].op = "updateStatus" /\ job'[s].user = runner

\* Every later step of a handler moves it on.
LEMMA ContinueMoves ==
  ASSUME TypeOK, NEW s \in Slots, Continue(s)
  PROVE  Moves(s)
<1> USE DEF Moves, Flow
<1>1. CASE SaveErrand(s)
  BY <1>1, GotoEffect DEF SaveErrand
<1>2. CASE LinkPayment(s) \/ UndoPayment(s) \/ Accept(s) \/ MarkPending(s)
  BY <1>2, GotoEffect DEF LinkPayment, UndoPayment, Accept, MarkPending
<1>3. CASE ReadSettings(s)
  BY <1>3, GotoEffect DEF ReadSettings
<1>4. CASE InsertApplication(s)
  BY <1>4, GotoEffect DEF InsertApplication
<1>5. CASE Choose(s)
  BY <1>5, GotoEffect DEF Choose
<1>6. CASE MarkAccepted(s)
  BY <1>6, GotoEffect DEF MarkAccepted
<1>7. CASE DeclineRest(s) \/ Reopen(s) \/ PayRunner(s) \/ Refund(s)
  BY <1>7, GotoEffect DEF DeclineRest, Reopen, PayRunner, Refund
<1>8. CASE FindToDecline(s)
  BY <1>8, GotoEffect DEF FindToDecline
<1>9. CASE Decline(s)
  BY <1>9, GotoEffect DEF Decline
<1>10. CASE CountPending(s)
  BY <1>10, GotoEffect DEF CountPending
<1>11. CASE SaveStatus(s)
  BY <1>11, GotoEffect DEF SaveStatus
<1>12. CASE FindEarning(s)
  BY <1>12, GotoEffect DEF FindEarning
<1>13. CASE FindRunner(s)
  <2>1. CASE runner = NoUser
    BY <1>13, <2>1, GotoEffect DEF FindRunner
  <2>2. CASE runner # NoUser
    <3> DEFINE j == Job("updateStatus", runner, "NONE", NoUser, "NONE")
    <3>1. j.op = "updateStatus" /\ j.user = runner
      BY DEF Job
    <3>2. /\ pc[s] = "findRunner"
          /\ pc' = [pc EXCEPT ![s] = "payRunner"]
          /\ job' = [job EXCEPT ![s] = j]
      BY <1>13, <2>2 DEF FindRunner
    <3> HIDE DEF j
    <3> QED
      BY <3>1, <3>2 DEF TypeOK
  <2> QED
    BY <2>1, <2>2
<1>14. CASE DeclineAll(s)
  BY <1>14, GotoEffect DEF DeclineAll
<1>15. CASE SaveCancel(s)
  BY <1>15, GotoEffect DEF SaveCancel
<1>16. CASE FindPayment(s)
  BY <1>16, GotoEffect DEF FindPayment
<1>17. CASE StatementFails(s)
  BY <1>17, GotoEffect DEF StatementFails
<1> QED
  BY <1>1, <1>2, <1>3, <1>4, <1>5, <1>6, <1>7, <1>8, <1>9, <1>10, <1>11, <1>12, <1>13, <1>14,
     <1>15, <1>16, <1>17 DEF Continue

\* Every step belongs to one operation.
Belongs ==
  \A s \in Slots :
    /\ pc[s] \in {"insertApplication", "markPending"} => job[s].op = "applyToErrand"
    /\ pc[s] \in {"findToDecline", "decline", "countPending", "reopen"} =>
         job[s].op = "declineApplication"
    /\ pc[s] \in {"saveStatus", "findEarning", "findRunner", "payRunner"} =>
         job[s].op = "updateStatus"
    /\ pc[s] \in {"declineAll", "saveCancel", "findPayment", "refund"} => job[s].op = "cancel"

\* A handler whose operation may not race has the errand to itself.
Alone ==
  \A s, t \in Slots :
    s # t /\ pc[s] # "idle" /\ pc[t] # "idle" => job[s].op \in Racing /\ job[t].op \in Racing

\* Each slot is at a step of its operation, and overlaps only what may overlap.
Tidy == TypeOK /\ Belongs /\ Alone

\* So it stays, whatever races.
LEMMA TidyStep == Tidy /\ [Next]_vars => Tidy'
<1> SUFFICES ASSUME Tidy, [Next]_vars PROVE Belongs' /\ Alone'
  BY TypeStep DEF Tidy
<1> USE DEF Tidy, Belongs, Alone
<1>1. ASSUME NEW s \in Slots, Request(s) PROVE Belongs' /\ Alone'
  <2>1. PICK op, next : Takes(s, op, next) /\ <<op, next>> \in Entry
    BY <1>1, RequestBegins, BeginsEntry
  <2>2. Belongs'
    BY <2>1 DEF Takes, Entry
  <2>3. Alone'
    BY <2>1 DEF Takes, Entry
  <2> QED
    BY <2>2, <2>3
<1>2. ASSUME NEW s \in Slots, Continue(s) PROVE Belongs' /\ Alone'
  <2>1. Moves(s)
    BY <1>2, ContinueMoves
  <2>2. Belongs'
    BY <2>1 DEF Moves, Flow
  <2>3. pc'[s] # "idle" => job'[s].op = job[s].op
    BY <2>1 DEF Moves, Flow
  <2> QED
    BY <2>1, <2>2, <2>3 DEF Moves
<1>3. CASE WindowCloses \/ Crash \/ UNCHANGED vars
  BY <1>3 DEF WindowCloses, Crash, vars
<1> QED
  BY <1>1, <1>2, <1>3 DEF Next

\* And so it is in every behaviour.
LEMMA TidyHolds == Spec => []Tidy
<1>1. Init => Tidy
  BY InitIInv DEF Init, IInv, Tidy, Belongs, Alone
<1> QED
  BY <1>1, TidyStep, PTL DEF Spec

-----------------------------------------------------------------------------
(* One payout, one refund.                                                 *)

\* Between the check for an earning and the credit nothing has been paid.
Unpaid == \A s \in Slots : pc[s] \in {"findRunner", "payRunner"} => \A u \in Users : earnings[u] = 0

\* Only the payout credits the runner.
LEMMA EarningsStay ==
  ASSUME NEW s \in Slots, Continue(s), ~PayRunner(s)
  PROVE  UNCHANGED earnings
BY DEF Continue, SaveErrand, LinkPayment, ReadSettings, UndoPayment, Accept, InsertApplication,
   MarkPending, Choose, MarkAccepted, DeclineRest, FindToDecline, Decline, CountPending, Reopen,
   SaveStatus, FindEarning, FindRunner, DeclineAll, SaveCancel, FindPayment, Refund,
   StatementFails, ReversePayment, money

\* A payout is alone between the check and the credit.
LEMMA UnpaidHolds ==
  ASSUME "updateStatus" \notin Racing
  PROVE  Spec => [](Unpaid /\ PaidOnce)
<1> USE DEF Tidy, Unpaid, PaidOnce
<1>1. Init => Unpaid /\ PaidOnce
  BY DEF Init
<1>2. Tidy /\ Unpaid /\ PaidOnce /\ [Next]_vars => Unpaid' /\ PaidOnce'
  <2> SUFFICES ASSUME Tidy, Unpaid, PaidOnce, [Next]_vars PROVE Unpaid' /\ PaidOnce'
    OBVIOUS
  <2>typed. earnings \in [Users -> Nat]
    BY DEF TypeOK
  <2>1. ASSUME NEW s \in Slots, Request(s) PROVE Unpaid' /\ PaidOnce'
    <3>1. PICK op, next : Takes(s, op, next) /\ <<op, next>> \in Entry
      BY <2>1, RequestBegins, BeginsEntry
    <3>2. next \notin {"findRunner", "payRunner"}
      BY <3>1 DEF Entry
    <3> QED
      BY <3>1, <3>2 DEF Takes
  <2>2. ASSUME NEW s \in Slots, Continue(s) PROVE Unpaid' /\ PaidOnce'
    <3>1. Moves(s)
      BY <2>2, ContinueMoves
    <3>2. CASE PayRunner(s)
      <4>1. /\ pc[s] = "payRunner" /\ pc'[s] = "idle"
            /\ earnings' = [earnings EXCEPT ![job[s].user] = @ + 1]
        BY <3>2, GotoEffect DEF PayRunner
      <4>2. \A t \in Slots \ {s} : pc'[t] = "idle"
        BY <3>1, <4>1 DEF Moves, Belongs, Alone
      <4> QED
        BY <2>typed, <4>1, <4>2
    <3>3. CASE FindEarning(s)
      <4>1. pc'[s] = "idle" \/ \A u \in Users : earnings[u] = 0
        BY <2>typed, <3>3, GotoEffect DEF FindEarning, AlreadyPaid
      <4> QED
        BY <3>1, <3>3, <4>1 DEF Moves, FindEarning, money, Flow, Goto
    <3>4. CASE ~PayRunner(s) /\ ~FindEarning(s)
      <4>1. UNCHANGED earnings
        BY <2>2, <3>4, EarningsStay
      <4>2. pc'[s] # "findRunner"
        BY <2>2, <3>1, <3>4, GotoEffect DEF Moves, Flow, Continue, Goto, SaveErrand, LinkPayment, ReadSettings,
           UndoPayment, Accept, InsertApplication, MarkPending, Choose, MarkAccepted, DeclineRest,
           FindToDecline, Decline, CountPending, Reopen, SaveStatus, FindRunner, DeclineAll,
           SaveCancel, FindPayment, Refund, StatementFails
      <4> QED
        BY <3>1, <4>1, <4>2 DEF Moves, Flow
    <3> QED
      BY <3>2, <3>3, <3>4
  <2>3. CASE WindowCloses \/ Crash \/ UNCHANGED vars
    BY <2>3 DEF WindowCloses, Crash, vars, money
  <2> QED
    BY <2>1, <2>2, <2>3 DEF Next
<1> QED
  BY <1>1, <1>2, TidyHolds, PTL DEF Spec

\* An errand is paid for once, to one runner, however the other operations
\* overlap and wherever faults and crashes cut them, if two status updates do
\* not: the check for an EARNING row and its insert are two statements.
THEOREM OnePayout ==
  ASSUME "updateStatus" \notin Racing
  PROVE  Spec => []PaidOnce
BY UnpaidHolds, PTL

\* The steps of create, and what the refund and the undo may count on: the
\* payment they reverse has not been reversed, and only one of them is under way.
Creating == {"settings", "saveErrand", "link", "undo"}

Unreturned ==
  /\ payment # "FAILED" => refunds = 0
  /\ \A s \in Slots : pc[s] \in Creating =>
       payment = "SUCCESS" /\ \A t \in Slots \ {s} : pc[t] \notin Creating
  /\ \A s \in Slots : pc[s] = "refund" => payment = "SUCCESS"

\* Only the undo of create and the refund of cancel touch the payment again.
LEMMA PaymentStays ==
  ASSUME NEW s \in Slots, Continue(s), ~UndoPayment(s), ~Refund(s)
  PROVE  UNCHANGED <<payment, refunds>>
BY DEF Continue, SaveErrand, LinkPayment, ReadSettings, Accept, InsertApplication,
   MarkPending, Choose, MarkAccepted, DeclineRest, FindToDecline, Decline, CountPending, Reopen,
   SaveStatus, FindEarning, FindRunner, PayRunner, DeclineAll, SaveCancel, FindPayment,
   StatementFails, money

\* No two handlers hold a payment they are about to reverse.
LEMMA UnreturnedHolds ==
  ASSUME "cancel" \notin Racing
  PROVE  Spec => [](Unreturned /\ RefundedOnce)
<1> USE DEF Unreturned, RefundedOnce, Creating
<1>1. Init => Unreturned /\ RefundedOnce
  BY DEF Init
<1>2. IInv /\ Tidy /\ Unreturned /\ RefundedOnce /\ [Next]_vars => Unreturned' /\ RefundedOnce'
  <2> SUFFICES ASSUME IInv, Tidy, Unreturned, RefundedOnce, [Next]_vars
               PROVE  Unreturned' /\ RefundedOnce'
    OBVIOUS
  <2>typed. TypeOK /\ refunds \in Nat
    BY DEF IInv, TypeOK
  <2>1. ASSUME NEW s \in Slots, Request(s) PROVE Unreturned' /\ RefundedOnce'
    <3>1. PICK op, next : Takes(s, op, next) /\ <<op, next>> \in Entry
      BY <2>typed, <2>1, RequestBegins, BeginsEntry
    <3>2. CASE next = "settings"
      <4>1. payment = "NONE" /\ payment' = "SUCCESS"
        BY <2>typed, <2>1, <3>1, <3>2, RequestBegins DEF Begins, Takes
      <4>2. \A t \in Slots : pc[t] = "idle"
        BY <4>1 DEF IInv, Fresh
      <4> QED
        BY <3>1, <4>1, <4>2 DEF Takes
    <3>3. CASE next # "settings"
      <4>1. payment' = payment
        BY <2>typed, <2>1, <3>1, <3>3, RequestBegins DEF Begins, Takes
      <4>2. next \notin {"settings", "saveErrand", "link", "undo", "refund"}
        BY <3>1, <3>3 DEF Entry
      <4> QED
        BY <3>1, <4>1, <4>2 DEF Takes
    <3> QED
      BY <3>2, <3>3
  <2>2. ASSUME NEW s \in Slots, Continue(s) PROVE Unreturned' /\ RefundedOnce'
    <3>1. Moves(s)
      BY <2>typed, <2>2, ContinueMoves
    <3>2. CASE UndoPayment(s)
      <4>1. /\ pc[s] = "undo" /\ pc'[s] = "idle"
            /\ payment' = "FAILED" /\ refunds' = refunds + 1
        BY <2>typed, <3>2, GotoEffect DEF UndoPayment, ReversePayment
      <4>2. \A t \in Slots \ {s} : pc'[t] \notin {"settings", "saveErrand", "link", "undo", "refund"}
        BY <3>1, <4>1 DEF Moves, Tidy, Belongs, Alone
      <4> QED
        BY <2>typed, <4>1, <4>2
    <3>3. CASE Refund(s)
      <4>1. /\ pc[s] = "refund" /\ pc'[s] = "idle"
            /\ payment' = "FAILED" /\ refunds' = refunds + 1
        BY <2>typed, <3>3, GotoEffect DEF Refund, ReversePayment
      <4>2. \A t \in Slots \ {s} : pc'[t] = "idle"
        BY <3>1, <4>1 DEF Moves, Tidy, Belongs, Alone
      <4> QED
        BY <2>typed, <4>1, <4>2
    <3>4. CASE ~UndoPayment(s) /\ ~Refund(s)
      <4>1. UNCHANGED <<payment, refunds>>
        BY <2>2, <3>4, PaymentStays
      <4>2. pc'[s] = "refund" => payment = "SUCCESS"
        <5>1. ASSUME pc'[s] = "refund" PROVE FindPayment(s)
          <6>1. pc[s] = "findPayment"
            BY <3>1, <5>1 DEF Moves, Flow
          <6>2. ~StatementFails(s)
            BY <2>typed, <5>1, GotoEffect DEF StatementFails
          <6> QED
            BY <2>2, <6>1, <6>2 DEF Continue, Goto, SaveErrand, LinkPayment, ReadSettings,
               UndoPayment, Accept, InsertApplication, MarkPending, Choose, MarkAccepted, DeclineRest,
               FindToDecline, Decline, CountPending, Reopen, SaveStatus, FindEarning, FindRunner,
               PayRunner, DeclineAll, SaveCancel, Refund
        <5> QED
          BY <2>typed, <5>1, GotoEffect DEF FindPayment, Refundable
      <4>3. pc'[s] \in Creating => pc[s] \in Creating
        BY <3>1 DEF Moves, Flow
      <4> QED
        BY <3>1, <4>1, <4>2, <4>3 DEF Moves
    <3> QED
      BY <3>2, <3>3, <3>4
  <2>3. CASE WindowCloses \/ Crash \/ UNCHANGED vars
    BY <2>3 DEF WindowCloses, Crash, vars, money
  <2> QED
    BY <2>1, <2>2, <2>3 DEF Next
<1> QED
  BY <1>1, <1>2, Invariant, TidyHolds, PTL DEF Spec

\* The price is given back once at most, by the undo of create or by one
\* cancellation, if two cancellations do not overlap: reverseTransaction looks
\* at no status, so its callers' checks are all there is.
THEOREM OneRefund ==
  ASSUME "cancel" \notin Racing
  PROVE  Spec => []RefundedOnce
BY UnreturnedHolds, PTL
=============================================================================
