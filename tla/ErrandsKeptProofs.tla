-------------------------- MODULE ErrandsKeptProofs --------------------------
(***************************************************************************)
(* The races the code guards against are won: when only creations and      *)
(* accepts overlap, and clients do not ask updateStatus to take an errand  *)
(* back, the runner who has the errand keeps it and the applications tell  *)
(* the same story as the errand; when clients only ask for the next step,  *)
(* the handlers keep the safety part of Lifecycle's promise.               *)
(***************************************************************************)
EXTENDS ErrandsProofs

\* The overlaps the conditional UPDATEs are there for, and clients that do not
\* ask for an earlier status or a cancellation through updateStatus.
OnlyAcceptsRace == Racing \subseteq {"create", "acceptErrand", "acceptApplication"}
NobodyTakesBack == \A move \in ClientMoves : move[2] \notin {"OPEN", "CANCELLED"}

\* What a handler that overlaps nobody read of the errand is still what the row
\* says.
ReadHolds ==
  \A s \in Slots :
    /\ pc[s] \in {"insertApplication", "findToDecline", "decline"} => job[s].status = status
    /\ pc[s] = "markPending" => status = "OPEN"
    /\ pc[s] \in {"countPending", "reopen"} => status = "PENDING"
    /\ pc[s] = "saveStatus" =>
         job[s].runner = runner /\ job[s].to \in {"ACCEPTED", "IN_PROGRESS", "COMPLETED"}
    /\ pc[s] \in {"declineAll", "saveCancel"} =>
         status \in Cancellable /\ job[s].runner = NoUser

\* An errand with a runner is being worked on or is done.
PickedUp == runner # NoUser => status \in {"ACCEPTED", "IN_PROGRESS", "COMPLETED"}

\* The inductive invariant of what follows, beside IInv.
Kept == Belongs /\ Alone /\ ReadHolds /\ PickedUp

-----------------------------------------------------------------------------

\* The steps that rely on what their handler read, and run by themselves.
Relying == {"insertApplication", "markPending", "findToDecline", "decline", "countPending",
            "reopen", "saveStatus", "declineAll", "saveCancel"}

\* Nobody else is in flight beside a handler at such a step.
LEMMA NobodyElse ==
  ASSUME OnlyAcceptsRace, Belongs, Alone, NEW s \in Slots, NEW t \in Slots,
         s # t, pc[s] # "idle"
  PROVE  pc[t] \notin Relying
BY DEF OnlyAcceptsRace, Belongs, Alone, Relying

\* A request reads the errand as it is and changes nothing of its row.
LEMMA KeptRequest ==
  ASSUME NobodyTakesBack, IInv, Kept, NEW s \in Slots, Request(s)
  PROVE  ReadHolds' /\ PickedUp' /\ UNCHANGED errand
<1> USE DEF Kept, ReadHolds, PickedUp, Takes
<1>1. Begins(s)
  BY RequestBegins DEF IInv
<1>2. PICK op, next : Takes(s, op, next) /\ <<op, next>> \in Entry
  BY <1>1, BeginsEntry
<1>3. UNCHANGED errand
  BY <1>2 DEF errand
<1>4. /\ next \in {"insertApplication", "findToDecline"} => job'[s].status = status
      /\ next = "saveStatus" =>
           job'[s].runner = runner /\ job'[s].to \in {"ACCEPTED", "IN_PROGRESS", "COMPLETED"}
  BY <1>1, <1>2 DEF Begins, NobodyTakesBack, ErrandStatus
<1>5. next \in {"declineAll", "saveCancel"} => status \in Cancellable /\ job'[s].runner = NoUser
  BY <1>1, <1>2 DEF Begins, Cancellable
<1>6. next \notin {"decline", "markPending", "countPending", "reopen"}
  BY <1>2 DEF Entry
<1> QED
  BY <1>2, <1>3, <1>4, <1>5, <1>6 DEF errand

\* A later step keeps what the handlers read in step with the row.
LEMMA KeptContinue ==
  ASSUME OnlyAcceptsRace, IInv, Kept, NEW s \in Slots, Continue(s)
  PROVE  ReadHolds' /\ PickedUp'
<1> USE DEF IInv, Kept, ReadHolds, PickedUp, errand, money, Cancellable
<1>a. TypeOK
  OBVIOUS
<1>b. \A t \in Slots \ {s} : pc[s] # "idle" => pc[t] \notin Relying
  BY NobodyElse
<1>1. CASE SaveErrand(s)
  BY <1>1, <1>a, <1>b, GotoEffect DEF SaveErrand, Relying, Fresh
<1>2. CASE LinkPayment(s)
  BY <1>2, <1>a, <1>b, GotoEffect DEF LinkPayment, Relying
<1>3. CASE ReadSettings(s)
  BY <1>3, <1>a, <1>b, GotoEffect DEF ReadSettings, Relying
<1>4. CASE UndoPayment(s)
  BY <1>4, <1>a, <1>b, GotoEffect DEF UndoPayment, Relying
<1>5. CASE Accept(s)
  BY <1>5, <1>a, <1>b, GotoEffect DEF Accept, Relying, StillOpen
<1>6. CASE InsertApplication(s)
  BY <1>6, <1>a, <1>b, GotoEffect DEF InsertApplication, Relying
<1>7. CASE MarkPending(s)
  BY <1>7, <1>a, <1>b, GotoEffect DEF MarkPending, Relying
<1>8. CASE Choose(s)
  BY <1>8, <1>a, <1>b, GotoEffect DEF Choose, Relying, StillFree
<1>9. CASE MarkAccepted(s)
  BY <1>9, <1>a, <1>b, GotoEffect DEF MarkAccepted, Relying
<1>10. CASE DeclineRest(s)
  BY <1>10, <1>a, <1>b, GotoEffect DEF DeclineRest, Relying
<1>11. CASE FindToDecline(s)
  BY <1>11, <1>a, <1>b, GotoEffect DEF FindToDecline, Relying
<1>12. CASE Decline(s)
  BY <1>12, <1>a, <1>b, GotoEffect DEF Decline, Relying
<1>13. CASE CountPending(s)
  BY <1>13, <1>a, <1>b, GotoEffect DEF CountPending, Relying
<1>14. CASE Reopen(s)
  BY <1>14, <1>a, <1>b, GotoEffect DEF Reopen, Relying
<1>15. CASE SaveStatus(s)
  BY <1>15, <1>a, <1>b, GotoEffect DEF SaveStatus, Relying
<1>16. CASE FindEarning(s)
  BY <1>16, <1>a, <1>b, GotoEffect DEF FindEarning, Relying
<1>17. CASE FindRunner(s)
  <2>1. pc[s] = "findRunner" /\ UNCHANGED errand
    BY <1>17 DEF FindRunner, Goto
  <2>2. Moves(s) /\ pc'[s] \in {"payRunner", "idle"}
    BY <1>a, <2>1, ContinueMoves DEF Moves, Flow
  <2>3. QED
    BY <1>b, <2>1, <2>2 DEF Moves, Relying
<1>18. CASE PayRunner(s)
  BY <1>18, <1>a, <1>b, GotoEffect DEF PayRunner, Relying
<1>19. CASE DeclineAll(s)
  BY <1>19, <1>a, <1>b, GotoEffect DEF DeclineAll, Relying
<1>20. CASE SaveCancel(s)
  BY <1>20, <1>a, <1>b, GotoEffect DEF SaveCancel, Relying
<1>21. CASE FindPayment(s)
  BY <1>21, <1>a, <1>b, GotoEffect DEF FindPayment, Relying
<1>22. CASE Refund(s)
  BY <1>22, <1>a, <1>b, GotoEffect DEF Refund, Relying
<1>23. CASE StatementFails(s)
  BY <1>23, <1>a, <1>b, GotoEffect DEF StatementFails, Relying
<1>24. QED
  BY <1>1, <1>2, <1>3, <1>4, <1>5, <1>6, <1>7, <1>8, <1>9, <1>10, <1>11, <1>12,
     <1>13, <1>14, <1>15, <1>16, <1>17, <1>18, <1>19, <1>20, <1>21, <1>22, <1>23 DEF Continue

\* Every step keeps Kept.
LEMMA KeptStep ==
  ASSUME OnlyAcceptsRace, NobodyTakesBack
  PROVE  IInv /\ Kept /\ [Next]_vars => Kept'
<1> SUFFICES ASSUME IInv, Kept, [Next]_vars PROVE ReadHolds' /\ PickedUp'
  BY TidyStep DEF Kept, Tidy, IInv
<1>1. CASE UNCHANGED vars
  BY <1>1 DEF Kept, ReadHolds, PickedUp, vars
<1>2. CASE WindowCloses
  BY <1>2 DEF WindowCloses, Kept, ReadHolds, PickedUp, errand
<1>3. CASE Crash
  BY <1>3 DEF Crash, Kept, ReadHolds, PickedUp, errand
<1>4. QED
  BY <1>1, <1>2, <1>3, KeptRequest, KeptContinue DEF Next

\* Kept holds of every behaviour in which only accepts and creations race.
LEMMA AcceptsKeep ==
  ASSUME OnlyAcceptsRace, NobodyTakesBack
  PROVE  Spec => [](IInv /\ Kept)
<1>1. Init => Kept
  BY DEF Init, Kept, Belongs, Alone, ReadHolds, PickedUp
<1>2. IInv /\ Kept /\ [Next]_vars => Kept'
  BY KeptStep
<1>3. QED
  BY Invariant, <1>1, <1>2, PTL DEF Spec

\* What a step does to the errand row of a runner who has it.
LEMMA RowStep ==
  ASSUME IInv, Kept, [Next]_vars, OnlyAcceptsRace, NobodyTakesBack, runner # NoUser
  PROVE  /\ runner' = runner
         /\ status' = status \/ status' \in {"ACCEPTED", "IN_PROGRESS", "COMPLETED"}
<1>a. status \in {"ACCEPTED", "IN_PROGRESS", "COMPLETED"}
  BY DEF Kept, PickedUp
<1>1. CASE UNCHANGED vars
  BY <1>1 DEF vars
<1>2. CASE WindowCloses \/ Crash
  BY <1>2 DEF WindowCloses, Crash, errand
<1>3. ASSUME NEW s \in Slots, Request(s) PROVE UNCHANGED errand
  BY <1>3, KeptRequest
<1>4. ASSUME NEW s \in Slots, Continue(s)
      PROVE  \/ UNCHANGED errand
             \/ /\ runner' = runner
                /\ status' \in {"ACCEPTED", "IN_PROGRESS", "COMPLETED"}
  <2>1. CASE SaveErrand(s)
    BY <1>a, <2>1 DEF SaveErrand, Goto, IInv, Fresh
  <2>2. CASE Accept(s) \/ Choose(s)
    BY <1>a, <2>2 DEF Accept, StillOpen, Choose, StillFree
  <2>3. CASE MarkPending(s) \/ Reopen(s)
    BY <1>a, <2>3 DEF MarkPending, Reopen, Goto, Kept, ReadHolds
  <2>4. CASE SaveStatus(s)
    BY <2>4 DEF SaveStatus, Goto, Kept, ReadHolds
  <2>5. CASE SaveCancel(s)
    BY <1>a, <2>5 DEF SaveCancel, Goto, Kept, ReadHolds, Cancellable
  <2>6. CASE LinkPayment(s) \/ ReadSettings(s) \/ UndoPayment(s) \/ InsertApplication(s)
    BY <2>6 DEF LinkPayment, ReadSettings, UndoPayment, InsertApplication,
       errand, money
  <2>7. CASE MarkAccepted(s) \/ DeclineRest(s) \/ FindToDecline(s) \/ Decline(s)
    BY <2>7 DEF MarkAccepted, DeclineRest, FindToDecline, Decline,
       errand, money
  <2>8. CASE CountPending(s) \/ FindEarning(s) \/ FindRunner(s) \/ PayRunner(s)
    BY <2>8 DEF CountPending, FindEarning, FindRunner, PayRunner,
       errand, money
  <2>9. CASE DeclineAll(s) \/ FindPayment(s) \/ Refund(s) \/ StatementFails(s)
    BY <2>9 DEF DeclineAll, FindPayment, Refund, StatementFails,
       errand, money
  <2>10. QED
    BY <1>4, <2>1, <2>2, <2>3, <2>4, <2>5, <2>6, <2>7, <2>8, <2>9 DEF Continue
<1>5. QED
  BY <1>1, <1>2, <1>3, <1>4 DEF Next, errand

\* However many runners and the requester accept at the same time, and wherever
\* the server stops in between, the first acceptance stands.
THEOREM AcceptanceStands ==
  ASSUME OnlyAcceptsRace, NobodyTakesBack
  PROVE  Spec => RunnerKept
<1>1. IInv /\ Kept /\ [Next]_vars => [runner # NoUser => runner' = runner]_vars
  BY RowStep
<1>2. QED
  BY AcceptsKeep, <1>1, PTL DEF Spec, RunnerKept

-----------------------------------------------------------------------------
(* The errand and its applications.                                        *)

\* Some handler is at one of these steps.
Busy(steps) == \E s \in Slots : pc[s] \in steps

\* What applications say of the errand while a handler is between two writes.
Told ==
  /\ status = "OPEN" /\ ~Busy({"markPending"}) => \A u \in Users : app[u] # "PENDING"
  /\ status = "PENDING" /\ ~Busy({"countPending", "reopen", "saveCancel"}) =>
       \E u \in Users : app[u] = "PENDING"
  /\ runner # NoUser /\ ~Busy({"markAccepted", "declineRest"}) => \A u \in Users : app[u] # "PENDING"
  /\ \A u \in Users : app[u] = "ACCEPTED" => runner = u
  /\ \A s \in Slots :
       /\ pc[s] = "insertApplication" => status \in {"OPEN", "PENDING"}
       /\ pc[s] = "markPending" => app[job[s].user] = "PENDING"
       /\ pc[s] = "reopen" => \A u \in Users : app[u] # "PENDING"
       /\ pc[s] \in {"markAccepted", "declineRest"} => runner = job[s].user

\* When nobody is in flight that is what ApplicationsMatchErrand says.
LEMMA ToldWhenQuiet ==
  ASSUME IInv, Kept, Told
  PROVE  ApplicationsMatchErrand
<1>1. NoUser \notin Users /\ app \in [Users -> ApplicationStatus]
  BY ErrandsAssumption DEF IInv, TypeOK
<1> SUFFICES ASSUME Quiet
             PROVE  /\ status = "OPEN" => \A u \in Users : app[u] \in {"NONE", "DECLINED"}
                    /\ status = "PENDING" => \E u \in Users : app[u] = "PENDING"
                    /\ \A u \in Users : app[u] = "ACCEPTED" =>
                         runner = u /\ \A v \in Users \ {u} : app[v] \in {"NONE", "DECLINED"}
  BY DEF ApplicationsMatchErrand
<1>2. \A steps : "idle" \notin steps => ~Busy(steps)
  BY DEF Quiet, Busy
<1>3. ~Busy({"markPending"}) /\ ~Busy({"countPending", "reopen", "saveCancel"})
        /\ ~Busy({"markAccepted", "declineRest"})
  BY <1>2
<1> QED
  BY <1>1, <1>3 DEF Told, ApplicationStatus, Kept, PickedUp

\* Requests tell nothing new.
LEMMA ToldRequest ==
  ASSUME OnlyAcceptsRace, IInv, Kept, Told, NEW s \in Slots, Request(s)
  PROVE  Told'
<1>1. PICK op, next : Takes(s, op, next) /\ <<op, next>> \in Entry
  BY RequestBegins, BeginsEntry DEF IInv
<1>2. next \notin {"markPending", "countPending", "reopen", "markAccepted", "declineRest"}
  BY <1>1 DEF Entry
<1>3. next = "insertApplication" => status \in {"OPEN", "PENDING"}
  BY <1>1, RequestBegins DEF Begins, Takes, IInv
<1>4. \A t \in Slots : pc'[t] \in {"markPending", "countPending", "reopen", "markAccepted", "declineRest"}
                         => t # s /\ pc'[t] = pc[t] /\ job'[t] = job[t]
  BY <1>1, <1>2 DEF Takes
<1>5. \A t \in Slots : pc[t] # "idle" => t # s /\ pc'[t] = pc[t]
  BY <1>1 DEF Takes
<1>6. UNCHANGED <<status, runner, app>>
  BY <1>1 DEF Takes
<1>7. /\ Busy({"markPending"}) => Busy({"markPending"})'
      /\ Busy({"countPending", "reopen", "saveCancel"}) => Busy({"countPending", "reopen", "saveCancel"})'
      /\ Busy({"markAccepted", "declineRest"}) => Busy({"markAccepted", "declineRest"})'
  BY <1>5 DEF Busy
<1> QED
  BY <1>1, <1>4, <1>6, <1>7, <1>3 DEF Told, Takes

\* Nor do later steps, as long as the errand row and the applications are
\* rewritten by handlers that have them to themselves or check the row.
LEMMA ToldContinue ==
  ASSUME OnlyAcceptsRace, ~Faults, IInv, Kept, Told, NEW s \in Slots, Continue(s)
  PROVE  Told'
<1> USE DEF Told, Busy
<1>a. /\ TypeOK /\ Moves(s) /\ NoUser \notin Users
      /\ app \in [Users -> ApplicationStatus] /\ job[s].user \in Users \cup {NoUser}
  BY ContinueMoves, ErrandsAssumption DEF IInv, TypeOK, Jobs
<1>b. /\ \A t \in Slots \ {s} : pc'[t] = pc[t] /\ job'[t] = job[t]
      /\ pc[s] # "idle"
      /\ \A t \in Slots \ {s} : pc[t] \notin Relying
  BY <1>a, NobodyElse DEF Moves, Kept
<1>c. pc[s] \in Relying => \A t \in Slots \ {s} : pc[t] = "idle"
  BY NobodyElse DEF Kept
<1>1. CASE SaveErrand(s)
  <2>1. \A u \in Users : app[u] = "NONE"
    BY <1>1 DEF SaveErrand, Goto, IInv, Fresh
  <2> QED
    BY <1>1, <1>a, <1>b, <2>1, GotoEffect DEF SaveErrand, Relying, Kept, PickedUp, IInv, Fresh
<1>2. CASE LinkPayment(s) \/ UndoPayment(s)
  BY <1>2, <1>a, <1>b, GotoEffect DEF LinkPayment, UndoPayment, errand
<1>3. CASE ReadSettings(s)
  BY <1>3, <1>a, <1>b, GotoEffect DEF ReadSettings, errand, IInv, Fresh
<1>4. CASE Accept(s)
  <2>1. CASE StillOpen
    <3>1. /\ pc[s] = "accept" /\ pc'[s] = "idle"
          /\ status' = "ACCEPTED" /\ runner' = job[s].user /\ UNCHANGED app
      BY <1>4, <1>a, <2>1, GotoEffect DEF Accept
    <3>2. status = "OPEN" /\ runner = NoUser
      BY <2>1 DEF StillOpen, Kept, PickedUp
    <3>3. \A t \in Slots : pc[t] \notin {"markAccepted", "declineRest", "markPending", "reopen"}
      BY <1>b, <3>1, <3>2 DEF IInv, Memory, Relying
    <3>4. \A u \in Users : app[u] \notin {"ACCEPTED", "PENDING"}
      BY <1>a, <3>2, <3>3
    <3> QED
      BY <1>b, <3>1, <3>3, <3>4 DEF Relying
  <2>2. CASE ~StillOpen
    <3>1. pc'[s] = "idle" /\ pc[s] = "accept" /\ UNCHANGED <<status, runner, app>>
      BY <1>4, <1>a, <2>2, GotoEffect DEF Accept, errand
    <3> QED
      BY <1>b, <3>1
  <2> QED
    BY <2>1, <2>2
<1>5. CASE InsertApplication(s)
  <2> DEFINE u == job[s].user
             new == app[u] = "NONE"
             next == IF new /\ job[s].status = "OPEN" THEN "markPending" ELSE "idle"
  <2>1. /\ pc[s] = "insertApplication" /\ pc'[s] = next /\ UNCHANGED <<status, runner>>
        /\ app' = IF new THEN [app EXCEPT ![u] = "PENDING"] ELSE app
        /\ next # "idle" => job'[s] = job[s]
    BY <1>5, <1>a, GotoEffect DEF InsertApplication, errand
  <2>2. u \in Users /\ job[s].status = status /\ status \in {"OPEN", "PENDING"} /\ runner = NoUser
    BY <1>a, <2>1 DEF IInv, Memory, Kept, ReadHolds, PickedUp
  <2> HIDE DEF u
  <2>3. \A t \in Slots \ {s} : pc[t] = "idle" /\ pc'[t] = "idle"
    BY <1>b, <1>c, <2>1 DEF Relying
  <2>4. CASE new /\ status = "OPEN"
    BY <1>a, <2>1, <2>2, <2>3, <2>4 DEF u
  <2>5. CASE new /\ status = "PENDING"
    BY <1>a, <2>1, <2>2, <2>3, <2>5
  <2>6. CASE ~new
    BY <1>a, <2>1, <2>2, <2>3, <2>6
  <2> QED
    BY <2>2, <2>4, <2>5, <2>6
<1>6. CASE MarkPending(s)
  <2>1. /\ pc[s] = "markPending" /\ pc'[s] = "idle"
        /\ status' = "PENDING" /\ UNCHANGED <<runner, app>>
    BY <1>6, <1>a, GotoEffect DEF MarkPending
  <2>2. runner = NoUser /\ job[s].user \in Users
    BY <1>a, <2>1 DEF Kept, ReadHolds, PickedUp, IInv, Memory
  <2>3. \A t \in Slots \ {s} : pc'[t] = "idle"
    BY <1>b, <1>c, <2>1 DEF Relying
  <2> QED
    BY <2>1, <2>2, <2>3
<1>7. CASE Choose(s)
  <2>1. CASE StillFree
    <3>1. /\ pc[s] = "choose" /\ pc'[s] = "markAccepted" /\ job'[s].user = job[s].user
          /\ status' = "ACCEPTED" /\ runner' = job[s].user /\ UNCHANGED app
      BY <1>7, <1>a, <2>1, GotoEffect DEF Choose
    <3>2. status \in {"OPEN", "PENDING"} /\ runner = NoUser
      BY <2>1 DEF StillFree, Kept, PickedUp
    <3>3. \A t \in Slots : pc[t] \notin {"markAccepted", "declineRest"}
      BY <3>2 DEF IInv, Memory
    <3>4. \A u \in Users : app[u] # "ACCEPTED"
      BY <1>a, <3>2
    <3>5. \A t \in Slots \ {s} : pc'[t] \notin {"markAccepted", "declineRest", "insertApplication", "markPending",
                                           "reopen"}
      BY <1>b, <3>3 DEF Relying
    <3> QED
      BY <3>1, <3>4, <3>5
  <2>2. CASE ~StillFree
    <3>1. pc'[s] = "idle" /\ pc[s] = "choose" /\ UNCHANGED <<status, runner, app>>
      BY <1>7, <1>a, <2>2, GotoEffect DEF Choose, errand
    <3> QED
      BY <1>b, <3>1
  <2> QED
    BY <2>1, <2>2
<1>8. CASE MarkAccepted(s)
  <2>1. /\ pc[s] = "markAccepted" /\ pc'[s] = "declineRest" /\ job'[s].user = job[s].user
        /\ app' = [app EXCEPT ![job[s].user] = "ACCEPTED"]
        /\ UNCHANGED <<status, runner>>
    BY <1>8, <1>a, GotoEffect DEF MarkAccepted, errand
  <2>2. runner = job[s].user /\ runner # NoUser /\ runner \in Users
    BY <1>a, <2>1 DEF IInv, Memory
  <2>3. status \notin {"OPEN", "PENDING"}
    BY <2>2 DEF Kept, PickedUp
  <2>4. \A t \in Slots : pc'[t] \notin {"markPending", "reopen"}
    BY <1>b, <2>1 DEF Relying
  <2> QED
    BY <1>a, <1>b, <2>1, <2>2, <2>3, <2>4
<1>9. CASE DeclineRest(s)
  <2>1. /\ pc[s] = "declineRest" /\ pc'[s] = "idle"
        /\ app' = [u \in Users |-> IF app[u] = "PENDING" THEN "DECLINED" ELSE app[u]]
        /\ UNCHANGED <<status, runner>>
    BY <1>9, <1>a, GotoEffect DEF DeclineRest, DeclinePending, errand
  <2>2. runner # NoUser
    BY <2>1 DEF IInv, Memory
  <2>3. status \notin {"OPEN", "PENDING"}
    BY <2>2 DEF Kept, PickedUp
  <2>4. \A t \in Slots : pc'[t] \notin {"markPending", "reopen"}
    BY <1>b, <2>1 DEF Relying
  <2>5. \A u \in Users : app'[u] # "PENDING" /\ (app'[u] = "ACCEPTED" => app[u] = "ACCEPTED")
    BY <2>1
  <2> QED
    BY <1>b, <2>1, <2>3, <2>4, <2>5
<1>10. CASE FindToDecline(s)
  BY <1>10, <1>a, <1>b, GotoEffect DEF FindToDecline, errand
<1>11. CASE Decline(s)
  BY <1>11, <1>a, <1>b, GotoEffect DEF Decline, Relying, Kept, ReadHolds, PickedUp, errand
<1>12. CASE CountPending(s)
  BY <1>12, <1>a, <1>b, GotoEffect DEF CountPending, Relying, Kept, ReadHolds, PickedUp, errand
<1>13. CASE Reopen(s)
  BY <1>13, <1>a, <1>b, GotoEffect DEF Reopen, Relying, Kept, ReadHolds, PickedUp
<1>14. CASE SaveStatus(s)
  BY <1>14, <1>a, <1>b, GotoEffect DEF SaveStatus, Relying, Kept, ReadHolds, PickedUp
<1>15. CASE FindEarning(s) \/ FindRunner(s) \/ PayRunner(s)
  <2>1. UNCHANGED <<status, runner, app>>
    BY <1>15 DEF FindEarning, FindRunner, PayRunner, errand
  <2>2. pc[s] \in {"findEarning", "findRunner", "payRunner"}
    BY <1>15 DEF FindEarning, FindRunner, PayRunner, Goto
  <2>3. pc'[s] \in {"findRunner", "payRunner", "idle"}
    BY <1>a, <2>2 DEF Moves, Flow
  <2> QED
    BY <1>b, <2>1, <2>2, <2>3
<1>16. CASE DeclineAll(s)
  BY <1>16, <1>a, <1>b, GotoEffect DEF DeclineAll, DeclinePending, Relying, Kept, ReadHolds, PickedUp, errand
<1>17. CASE SaveCancel(s)
  <2>1. /\ pc[s] = "saveCancel" /\ pc'[s] = "findPayment"
        /\ status' = "CANCELLED" /\ runner' = job[s].runner /\ UNCHANGED app
    BY <1>17, <1>a, GotoEffect DEF SaveCancel
  <2>2. runner' = NoUser /\ runner = NoUser
    BY <2>1 DEF Kept, ReadHolds, PickedUp, Cancellable
  <2>3. \A t \in Slots \ {s} : pc'[t] = "idle"
    BY <1>b, <1>c, <2>1 DEF Relying
  <2> QED
    BY <2>1, <2>2, <2>3
<1>18. CASE FindPayment(s) \/ Refund(s)
  BY <1>18, <1>a, <1>b, GotoEffect DEF FindPayment, Refund, errand
<1>19. ~StatementFails(s)
  BY DEF StatementFails
<1> QED
  BY <1>1, <1>2, <1>3, <1>4, <1>5, <1>6, <1>7, <1>8, <1>9, <1>10, <1>11, <1>12, <1>13, <1>14,
     <1>15, <1>16, <1>17, <1>18, <1>19 DEF Continue

\* Between requests the errand and its applications tell one story, however
\* many runners accept and the requester chooses at the same time, as long as
\* no crash and no failing statement cuts a handler between its writes.
THEOREM OneStory ==
  ASSUME OnlyAcceptsRace, NobodyTakesBack, ~Crashes, ~Faults
  PROVE  Spec => []ApplicationsMatchErrand
<1>1. Init => Told
  BY ErrandsAssumption DEF Init, Told
<1>2. IInv /\ Kept /\ Told /\ [Next]_vars => Told'
  <2> SUFFICES ASSUME IInv, Kept, Told, [Next]_vars PROVE Told'
    OBVIOUS
  <2>1. CASE WindowCloses \/ UNCHANGED vars
    BY <2>1 DEF WindowCloses, vars, errand, Told, Busy
  <2> QED
    BY <2>1, ToldRequest, ToldContinue DEF Next, Crash
<1>3. IInv /\ Kept /\ Told => ApplicationsMatchErrand
  BY ToldWhenQuiet
<1> QED
  BY <1>1, <1>2, <1>3, AcceptsKeep, PTL DEF Spec

-----------------------------------------------------------------------------
(* Lifecycle, safety part.                                                 *)

\* Clients ask only for the next step of the work.
MovesForward ==
  ClientMoves \subseteq {<<"ACCEPTED", "IN_PROGRESS">>, <<"IN_PROGRESS", "COMPLETED">>}

\* The money follows the errand: it leaves escrow only at the errand's end.
Settles ==
  /\ \A s \in Slots :
       /\ pc[s] = "saveStatus" => <<status, job[s].to>> \in ClientMoves
       /\ pc[s] \in {"findEarning", "findRunner", "payRunner"} => status = "COMPLETED"
       /\ pc[s] = "payRunner" => job[s].user = runner
       /\ pc[s] \in {"findPayment", "refund"} => status = "CANCELLED"
       /\ pc[s] # "undo"
  /\ (\E u \in Users : earnings[u] > 0) => status = "COMPLETED"
  /\ payment = "FAILED" => status = "CANCELLED"

\* The steps at which a handler has the errand to itself.
Owning == Relying \cup {"findEarning", "findRunner", "payRunner", "findPayment", "refund"}

\* At such a step everyone else is idle.
LEMMA OwningAlone ==
  ASSUME OnlyAcceptsRace, Belongs, Alone, NEW s \in Slots, pc[s] \in Owning
  PROVE  \A t \in Slots \ {s} : pc[t] = "idle"
BY DEF OnlyAcceptsRace, Belongs, Alone, Owning, Relying

\* What the refinement relies on.
Promised == IInv /\ Kept /\ Unpaid /\ Unreturned /\ Settles

\* A request reads the errand where it is.
LEMMA SettlesRequest ==
  ASSUME OnlyAcceptsRace, Promised, NEW s \in Slots, Request(s)
  PROVE  Settles'
<1>1. PICK op, next : Takes(s, op, next) /\ <<op, next>> \in Entry
  BY RequestBegins, BeginsEntry DEF Promised, IInv
<1>2. next \notin {"findEarning", "findRunner", "payRunner", "findPayment", "refund", "undo"}
  BY <1>1 DEF Entry
<1>3. next = "saveStatus" => <<status, job'[s].to>> \in ClientMoves
  BY <1>1, RequestBegins DEF Begins, Takes, Promised, IInv
<1>4. payment' = payment \/ payment' = "SUCCESS"
  BY RequestBegins DEF Begins, Promised, IInv
<1>5. UNCHANGED <<status, runner, earnings>>
  BY <1>1 DEF Takes
<1>6. ASSUME NEW t \in Slots
      PROVE  /\ pc'[t] = "saveStatus" => <<status, job'[t].to>> \in ClientMoves
             /\ pc'[t] \in {"findEarning", "findRunner", "payRunner"} => status = "COMPLETED"
             /\ pc'[t] = "payRunner" => job'[t].user = runner
             /\ pc'[t] \in {"findPayment", "refund"} => status = "CANCELLED"
             /\ pc'[t] # "undo"
  BY <1>1, <1>2, <1>3 DEF Takes, Promised, Settles
<1> QED
  BY <1>4, <1>5, <1>6 DEF Promised, Settles

\* A later step moves the money only when the errand is where it must be.
LEMMA SettlesContinue ==
  ASSUME OnlyAcceptsRace, MovesForward, ~Faults, Promised, NEW s \in Slots, Continue(s)
  PROVE  Settles'
<1> USE DEF Settles, errand, money
<1>a. /\ TypeOK /\ Moves(s) /\ Kept /\ Settles /\ earnings \in [Users -> Nat]
  BY ContinueMoves DEF Promised, IInv, TypeOK
<1>b. \A t \in Slots \ {s} : pc'[t] = pc[t] /\ pc'[t] \notin Owning /\ pc'[t] # "undo"
  BY <1>a, OwningAlone DEF Moves, Kept
<1>c. \A t \in Slots \ {s} : pc'[t] \notin {"saveStatus", "findEarning", "findRunner", "payRunner",
                                         "findPayment", "refund", "undo"}
  BY <1>b DEF Owning, Relying
<1> SUFFICES
      /\ pc'[s] = "saveStatus" => <<status', job'[s].to>> \in ClientMoves
      /\ pc'[s] \in {"findEarning", "findRunner", "payRunner"} => status' = "COMPLETED"
      /\ pc'[s] = "payRunner" => job'[s].user = runner'
      /\ pc'[s] \in {"findPayment", "refund"} => status' = "CANCELLED"
      /\ pc'[s] # "undo"
      /\ (\E u \in Users : earnings'[u] > 0) => status' = "COMPLETED"
      /\ payment' = "FAILED" => status' = "CANCELLED"
  BY <1>c
<1>1. CASE SaveErrand(s)
  BY <1>1, <1>a, GotoEffect DEF SaveErrand, Promised, IInv, Fresh
<1>2. CASE LinkPayment(s) \/ InsertApplication(s) \/ MarkAccepted(s) \/ DeclineRest(s)
  BY <1>2, <1>a, GotoEffect DEF LinkPayment, InsertApplication, MarkAccepted, DeclineRest
<1>3. CASE ReadSettings(s)
  BY <1>3, <1>a, GotoEffect DEF ReadSettings
<1>4. CASE UndoPayment(s)
  BY <1>4, <1>a, GotoEffect DEF UndoPayment
<1>5. CASE Accept(s)
  BY <1>5, <1>a, GotoEffect DEF Accept, StillOpen
<1>6. CASE Choose(s)
  BY <1>6, <1>a, GotoEffect DEF Choose, StillFree
<1>7. CASE MarkPending(s)
  <2>1. /\ pc[s] = "markPending" /\ pc'[s] = "idle" /\ status' = "PENDING"
        /\ UNCHANGED <<payment, earnings>>
    BY <1>7, <1>a, GotoEffect DEF MarkPending
  <2>2. status = "OPEN"
    BY <1>a, <2>1 DEF Kept, ReadHolds
  <2> QED
    BY <1>a, <2>1, <2>2
<1>8. CASE Reopen(s)
  BY <1>8, <1>a, GotoEffect DEF Reopen, Kept, ReadHolds
<1>9. CASE FindToDecline(s) \/ Decline(s) \/ CountPending(s) \/ DeclineAll(s)
  BY <1>9, <1>a, GotoEffect DEF FindToDecline, Decline, CountPending, DeclineAll
<1>10. CASE SaveStatus(s)
  <2>1. /\ pc[s] = "saveStatus" /\ status' = job[s].to /\ UNCHANGED <<payment, earnings>>
        /\ pc'[s] = IF job[s].to = "COMPLETED" THEN "findEarning" ELSE "idle"
    BY <1>10, <1>a, GotoEffect DEF SaveStatus
  <2>2. status \in {"ACCEPTED", "IN_PROGRESS"}
    BY <1>a, <2>1 DEF MovesForward
  <2> QED
    BY <1>a, <2>1, <2>2
<1>11. CASE FindEarning(s) \/ FindRunner(s)
  <2>1. pc[s] \in {"findEarning", "findRunner"} /\ UNCHANGED <<status, runner, payment, earnings>>
    BY <1>11 DEF FindEarning, FindRunner, Goto
  <2>2. /\ pc'[s] \in {"findRunner", "payRunner", "idle"}
        /\ pc'[s] = "payRunner" => job'[s].user = runner
    BY <1>a, <2>1 DEF Moves, Flow
  <2> QED
    BY <1>a, <2>1, <2>2
<1>12. CASE PayRunner(s)
  <2>1. pc[s] = "payRunner" /\ pc'[s] = "idle" /\ UNCHANGED <<status, payment>>
    BY <1>12, <1>a, GotoEffect DEF PayRunner
  <2>2. status = "COMPLETED"
    BY <1>a, <2>1
  <2> QED
    BY <1>a, <2>1, <2>2
<1>13. CASE SaveCancel(s)
  <2>1. /\ pc[s] = "saveCancel" /\ pc'[s] = "findPayment" /\ status' = "CANCELLED"
        /\ UNCHANGED <<payment, earnings>>
    BY <1>13, <1>a, GotoEffect DEF SaveCancel
  <2>2. status \in {"OPEN", "PENDING"}
    BY <1>a, <2>1 DEF Kept, ReadHolds, Cancellable
  <2> QED
    BY <1>a, <2>1, <2>2
<1>14. CASE FindPayment(s)
  BY <1>14, <1>a, GotoEffect DEF FindPayment
<1>15. CASE Refund(s)
  <2>1. pc[s] = "refund" /\ pc'[s] = "idle" /\ UNCHANGED <<status, earnings>>
    BY <1>15, <1>a, GotoEffect DEF Refund, ReversePayment
  <2>2. status = "CANCELLED"
    BY <1>a, <2>1
  <2> QED
    BY <1>a, <2>1, <2>2
<1>16. ~StatementFails(s)
  BY DEF StatementFails
<1> QED
  BY <1>1, <1>2, <1>3, <1>4, <1>5, <1>6, <1>7, <1>8, <1>9, <1>10, <1>11, <1>12, <1>13, <1>14, <1>15,
     <1>16 DEF Continue

\* Who is fit to run the errand is one of Lifecycle's runners.
LEMMA FitIsRunner ==
  ASSUME NEW u \in Users, Eligible(u)
  PROVE  u \in Runners
BY DEF Users, Eligible

\* A step that leaves the errand row and the money leaves what Lifecycle sees.
LEMMA SeesNothing ==
  ASSUME UNCHANGED <<status, runner, payment, earnings, refunds>>
  PROVE  UNCHANGED Promise!vars
BY DEF Promise!vars

\* A request shows nothing, but for the debit of create.
LEMMA PromiseRequest ==
  ASSUME Promised, TypeOK', NEW s \in Slots, Request(s)
  PROVE  Promise!Hold \/ UNCHANGED Promise!vars
<1>1. Begins(s)
  BY RequestBegins DEF Promised, IInv
<1>2. UNCHANGED <<status, runner, earnings, refunds>>
  BY <1>1 DEF Begins, Takes
<1>3. CASE payment' = payment
  BY <1>2, <1>3, SeesNothing
<1>4. CASE payment = "NONE" /\ payment' = "SUCCESS"
  BY <1>2, <1>4 DEF Promise!Hold, Promise!errand
<1> QED
  BY <1>1, <1>3, <1>4 DEF Begins

\* Every later step is one of Lifecycle's, or shows nothing.
LEMMA PromiseContinue ==
  ASSUME OnlyAcceptsRace, MovesForward, ~Faults, Promised, TypeOK', NEW s \in Slots, Continue(s)
  PROVE  Promise!Next \/ UNCHANGED Promise!vars
<1> USE DEF errand, money, Promise!Next, Promise!Move, Promise!errand
<1>a. /\ TypeOK /\ Moves(s) /\ Kept /\ Settles /\ earnings \in [Users -> Nat] /\ IInv /\ refunds \in Nat
      /\ status \in Rows /\ runner \in Users \cup {NoUser} /\ NoUser \notin Users
      /\ job[s].user \in Users \cup {NoUser}
      /\ payment \in {"NONE", "SUCCESS", "FAILED"}
  BY ContinueMoves, ErrandsAssumption DEF Promised, IInv, TypeOK, Jobs
<1>b. payment = "SUCCESS" /\ (\A u \in Users : earnings[u] = 0) => Promise!InEscrow
  BY <1>a DEF Promised, Unreturned, Promise!InEscrow, Users
<1>c. status # "COMPLETED" => \A u \in Users : earnings[u] = 0
  BY <1>a DEF Settles
<1>1. CASE SaveErrand(s)
  <2>1. /\ pc[s] = "saveErrand" /\ status' = "OPEN"
        /\ UNCHANGED <<runner, payment, earnings, refunds>>
    BY <1>1 DEF SaveErrand, Goto
  <2>2. status = "NONE" /\ payment = "SUCCESS"
    BY <2>1 DEF Promised, IInv, Fresh, Unreturned, Creating
  <2> QED
    BY <2>1, <2>2 DEF Promise!Post
<1>2. CASE Accept(s) \/ Choose(s)
  <2>1. CASE UNCHANGED <<status, runner>>
    BY <1>2, <2>1, SeesNothing DEF Accept, Choose
  <2>2. CASE status \in {"OPEN", "PENDING"} /\ status' = "ACCEPTED" /\ runner' = job[s].user
    <3>1. pc[s] \in {"accept", "choose"}
      BY <1>2 DEF Accept, Choose, Goto
    <3>2. job[s].user \in Users /\ Eligible(job[s].user)
      BY <1>a, <3>1 DEF IInv, Memory, Fit
    <3>3. runner' \in Runners
      BY <2>2, <3>2, FitIsRunner
    <3>4. UNCHANGED <<payment, earnings, refunds>>
      BY <1>2 DEF Accept, Choose
    <3> QED
      BY <2>2, <3>3, <3>4 DEF Promise!Assign
  <2> QED
    BY <1>2, <2>1, <2>2 DEF Accept, StillOpen, Choose, StillFree
<1>3. CASE MarkPending(s)
  BY <1>3, <1>a DEF MarkPending, Goto, Kept, ReadHolds, Promise!Bid
<1>4. CASE Reopen(s)
  BY <1>4, <1>a DEF Reopen, Goto, Kept, ReadHolds, Promise!Reopen
<1>5. CASE SaveStatus(s)
  <2>1. /\ pc[s] = "saveStatus" /\ status' = job[s].to /\ runner' = runner
        /\ UNCHANGED <<payment, earnings, refunds>>
    BY <1>5, <1>a DEF SaveStatus, Goto, Kept, ReadHolds
  <2>2. \/ status = "ACCEPTED" /\ status' = "IN_PROGRESS"
        \/ status = "IN_PROGRESS" /\ status' = "COMPLETED"
    BY <1>a, <2>1 DEF Settles, MovesForward
  <2> QED
    BY <2>1, <2>2 DEF Promise!Work, Promise!Complete
<1>6. CASE PayRunner(s)
  <2>1. /\ pc[s] = "payRunner" /\ UNCHANGED <<status, runner, payment, refunds>>
        /\ earnings' = [earnings EXCEPT ![job[s].user] = @ + 1]
    BY <1>6 DEF PayRunner, Goto
  <2>2. job[s].user = runner /\ status = "COMPLETED" /\ \A u \in Users : earnings[u] = 0
    BY <1>a, <2>1 DEF IInv, Memory, Settles, Promised, Unpaid
  <2>3. payment = "SUCCESS"
    BY <1>a, <2>2 DEF Settles, IInv, Fresh
  <2> QED
    BY <1>b, <2>1, <2>2, <2>3 DEF Promise!Pay
<1>7. CASE SaveCancel(s)
  <2>1. /\ pc[s] = "saveCancel" /\ status' = "CANCELLED" /\ runner' = job[s].runner
        /\ UNCHANGED <<payment, earnings, refunds>>
    BY <1>7 DEF SaveCancel, Goto
  <2>2. status \in {"OPEN", "PENDING"} /\ runner' = runner
    BY <1>a, <2>1 DEF Kept, ReadHolds, PickedUp, Cancellable
  <2> QED
    BY <2>1, <2>2 DEF Promise!Cancel
<1>8. CASE Refund(s)
  <2>1. /\ pc[s] = "refund" /\ payment' = "FAILED" /\ refunds' = refunds + 1
        /\ UNCHANGED <<status, runner, earnings>>
    BY <1>8 DEF Refund, ReversePayment, Goto
  <2>2. status = "CANCELLED" /\ payment = "SUCCESS"
    BY <1>a, <2>1 DEF Settles, Promised, Unreturned
  <2>3. \A u \in Users : earnings[u] = 0
    BY <1>c, <2>2
  <2> QED
    BY <1>b, <2>1, <2>2, <2>3 DEF Promise!Return
<1>9. CASE \/ LinkPayment(s) \/ InsertApplication(s) \/ MarkAccepted(s) \/ DeclineRest(s)
           \/ FindToDecline(s) \/ Decline(s) \/ CountPending(s) \/ FindEarning(s)
           \/ FindRunner(s) \/ DeclineAll(s) \/ FindPayment(s) \/ ReadSettings(s)
  <2>1. UNCHANGED <<status, runner, payment, earnings, refunds>>
    BY <1>9 DEF LinkPayment, InsertApplication, MarkAccepted, DeclineRest, FindToDecline, Decline,
       CountPending, FindEarning, FindRunner, DeclineAll, FindPayment, ReadSettings
  <2> QED
    BY <2>1, SeesNothing
<1>10. ~UndoPayment(s) /\ ~StatementFails(s)
  BY <1>a DEF UndoPayment, StatementFails, Goto, Settles
<1> QED
  BY <1>1, <1>2, <1>3, <1>4, <1>5, <1>6, <1>7, <1>8, <1>9, <1>10 DEF Continue

\* The refinement has what it relies on.
LEMMA PromisedHolds ==
  ASSUME OnlyAcceptsRace, MovesForward, ~Faults
  PROVE  Spec => []Promised
<1>1. "updateStatus" \notin Racing /\ "cancel" \notin Racing /\ NobodyTakesBack
  BY DEF OnlyAcceptsRace, MovesForward, NobodyTakesBack
<1>2. Spec => [](IInv /\ Kept /\ Unpaid /\ Unreturned)
  BY <1>1, AcceptsKeep, UnpaidHolds, UnreturnedHolds, PTL
<1>3. Init => Settles
  BY DEF Init, Settles
<1>4. Promised /\ [Next]_vars => Settles'
  <2> SUFFICES ASSUME Promised, [Next]_vars PROVE Settles'
    OBVIOUS
  <2>1. CASE WindowCloses \/ UNCHANGED vars
    BY <2>1 DEF WindowCloses, vars, errand, money, Promised, Settles
  <2>2. CASE Crash
    BY <2>2 DEF Crash, errand, money, Promised, Settles
  <2> QED
    BY <2>1, <2>2, SettlesRequest, SettlesContinue DEF Next
<1> QED
  BY <1>2, <1>3, <1>4, PTL DEF Spec, Promised

\* When clients ask for the next step only, just the accepts overlap and no
\* statement fails, the handlers keep the safety part of Lifecycle's promise,
\* crashes included: the price is held before the errand is posted, and it is
\* passed on by one step at most, to the assigned runner of a completed errand
\* or back for a cancelled one; a second payout or refund, counted by the rows
\* they write, would be a step that Lifecycle does not have.
THEOREM PromiseKept ==
  ASSUME OnlyAcceptsRace, MovesForward, ~Faults
  PROVE  Spec => Promise!Spec
<1>1. Init => Promise!Init
  BY DEF Init, Promise!Init, Users
<1>2. Promised /\ [Next]_vars => [Promise!Next]_(Promise!vars)
  <2> SUFFICES ASSUME Promised, [Next]_vars PROVE Promise!Next \/ UNCHANGED Promise!vars
    OBVIOUS
  <2>1. CASE WindowCloses \/ Crash \/ UNCHANGED vars
    BY <2>1, SeesNothing DEF WindowCloses, Crash, vars, errand, money
  <2>2. TypeOK'
    BY TypeStep DEF Promised, IInv
  <2>3. ASSUME NEW s \in Slots, Request(s) PROVE Promise!Next \/ UNCHANGED Promise!vars
    BY <2>2, <2>3, PromiseRequest DEF Promise!Next
  <2> QED
    BY <2>1, <2>2, <2>3, PromiseContinue DEF Next
<1> QED
  BY <1>1, <1>2, PromisedHolds, PTL DEF Spec, Promise!Spec

\* In particular the price then never goes both ways: what pays a runner and
\* refunds the requester of one errand is a client that moves a completed
\* errand back, or a create whose errand outlives its undone payment.
THEOREM OneWayOnly ==
  ASSUME OnlyAcceptsRace, MovesForward, ~Faults
  PROVE  Spec => []NotPaidAndRefunded
<1>1. Promised => NotPaidAndRefunded
  <2> SUFFICES ASSUME Promised, refunds > 0, NEW u \in Users PROVE earnings[u] = 0
    BY DEF NotPaidAndRefunded
  <2>1. earnings[u] \in Nat /\ refunds \in Nat
    BY DEF Promised, IInv, TypeOK
  <2>2. status = "CANCELLED"
    BY <2>1 DEF Promised, Unreturned, Settles
  <2> QED
    BY <2>1, <2>2 DEF Promised, Settles
<1> QED
  BY <1>1, PromisedHolds, PTL

-----------------------------------------------------------------------------
(* Nothing left over: what SettledEventually says of handlers that ended.  *)

\* The steps that pay the runner, and those that refund the requester.
Payout == {"findEarning", "findRunner", "payRunner"}
Refunding == {"findPayment", "refund"}

\* Until the money has gone where the errand says, a handler is about to send it.
Due ==
  /\ status \in {"ACCEPTED", "IN_PROGRESS", "COMPLETED"} => runner # NoUser
  /\ \A s \in Slots :
       /\ pc[s] \in Payout => \A u \in Users : earnings[u] = 0
       /\ pc[s] = "payRunner" => job[s].user = runner
  /\ status = "COMPLETED" => earnings[runner] > 0 \/ Busy(Payout)
  /\ status # "NONE" => linked \/ Busy({"link"})
  /\ payment = "FAILED" => refunds > 0
  /\ status = "CANCELLED" => payment = "FAILED" \/ Busy(Refunding)

\* A request has nothing due.
LEMMA DueRequest ==
  ASSUME OnlyAcceptsRace, Promised, Due, NEW s \in Slots, Request(s)
  PROVE  Due'
<1>1. PICK op, next : Takes(s, op, next) /\ <<op, next>> \in Entry
  BY RequestBegins, BeginsEntry DEF Promised, IInv
<1>2. next \notin Payout \cup Refunding \cup {"link"}
  BY <1>1 DEF Entry, Payout, Refunding
<1>3. UNCHANGED <<status, runner, linked, earnings, refunds>>
  BY <1>1 DEF Takes
<1>4. payment' = payment \/ (payment = "NONE" /\ payment' = "SUCCESS" /\ status = "NONE")
  BY RequestBegins DEF Begins, Promised, IInv, Fresh
<1>5. \A t \in Slots : pc'[t] \in Payout => pc[t] = pc'[t] /\ job'[t] = job[t]
  BY <1>1, <1>2 DEF Takes
<1>6. \A X : "idle" \notin X /\ Busy(X) => Busy(X)'
  BY <1>1 DEF Takes, Busy
<1>7. Busy(Payout) => Busy(Payout)'
  BY <1>6 DEF Payout
<1>8. Busy(Refunding) => Busy(Refunding)'
  BY <1>6 DEF Refunding
<1>9. Busy({"link"}) => Busy({"link"})'
  BY <1>6
<1>10. \A t \in Slots : pc'[t] = "payRunner" => pc'[t] \in Payout
  BY DEF Payout
<1> QED
  BY <1>3, <1>4, <1>5, <1>7, <1>8, <1>9, <1>10 DEF Due

\* A later step sends what is due, or leaves it to the next.
LEMMA DueContinue ==
  ASSUME OnlyAcceptsRace, MovesForward, ~Faults, Promised, Due, NEW s \in Slots, Continue(s)
  PROVE  Due'
<1> USE DEF errand, money
<1>a. /\ TypeOK /\ Moves(s) /\ Kept /\ Settles /\ IInv /\ NoUser \notin Users
      /\ earnings \in [Users -> Nat] /\ refunds \in Nat /\ runner \in Users \cup {NoUser}
      /\ payment \in {"NONE", "SUCCESS", "FAILED"} /\ job[s].user \in Users \cup {NoUser}
  BY ContinueMoves, ErrandsAssumption DEF Promised, IInv, TypeOK, Jobs
<1>b. /\ \A t \in Slots \ {s} : pc'[t] = pc[t] /\ job'[t] = job[t]
      /\ pc[s] # "idle"
      /\ pc[s] \in Owning => \A t \in Slots \ {s} : pc[t] = "idle"
  BY <1>a, OwningAlone DEF Moves, Kept
<1>c. /\ \A X : pc[s] \notin X /\ Busy(X) => Busy(X)'
      /\ \A X : pc'[s] \in X => Busy(X)'
      /\ \A X : pc[s] \in Owning /\ pc[s] \notin X /\ "idle" \notin X => ~Busy(X)
  BY <1>a, <1>b DEF Busy
<1>d. Payout \cup Refunding \subseteq Owning /\ "idle" \notin Payout \cup Refunding \cup {"link"}
  BY DEF Payout, Refunding, Owning
<1>e. /\ Busy(Payout) => status = "COMPLETED"
      /\ Busy(Refunding) => status = "CANCELLED"
  BY <1>a DEF Busy, Payout, Refunding, Settles
<1>f. \A t \in Slots \ {s} : pc'[t] \in Payout =>
        pc[s] \notin Owning /\ pc[t] \in Payout /\ status = "COMPLETED"
  BY <1>a, <1>b, <1>d, <1>e DEF Busy
<1>1. CASE SaveErrand(s)
  <2>1. /\ pc[s] = "saveErrand" /\ pc'[s] = "link" /\ status' = "OPEN"
        /\ UNCHANGED <<runner, linked, payment, earnings, refunds>>
    BY <1>1, <1>a, GotoEffect DEF SaveErrand
  <2>2. \A t \in Slots \ {s} : pc'[t] = "idle"
    BY <1>a, <1>b, <2>1 DEF IInv, Fresh
  <2>3. Busy({"link"})'
    BY <1>c, <2>1
  <2> QED
    BY <2>1, <2>2, <2>3 DEF Due, Payout
<1>2. CASE LinkPayment(s)
  <2>1. /\ pc[s] = "link" /\ pc'[s] = "idle" /\ linked'
        /\ UNCHANGED <<status, runner, payment, earnings, refunds>>
    BY <1>2, <1>a, GotoEffect DEF LinkPayment
  <2>2. (Busy(Payout) => Busy(Payout)') /\ (Busy(Refunding) => Busy(Refunding)')
    BY <1>c, <2>1 DEF Payout, Refunding
  <2> QED
    BY <1>b, <2>1, <2>2 DEF Due, Payout
<1>3. CASE Accept(s) \/ Choose(s)
  <2>1. /\ pc[s] \in {"accept", "choose"} /\ pc'[s] \in {"idle", "markAccepted"}
        /\ UNCHANGED <<linked, payment, earnings, refunds>>
        /\ \/ UNCHANGED <<status, runner>>
           \/ /\ status \in {"OPEN", "PENDING"} /\ status' = "ACCEPTED" /\ runner' = job[s].user
    BY <1>3, <1>a, GotoEffect DEF Accept, StillOpen, Choose, StillFree
  <2>2. job[s].user # NoUser
    BY <1>a, <2>1 DEF IInv, Memory
  <2>3. /\ (Busy(Payout) => Busy(Payout)') /\ (Busy(Refunding) => Busy(Refunding)')
        /\ (Busy({"link"}) => Busy({"link"})')
    BY <1>c, <2>1 DEF Payout, Refunding
  <2> QED
    BY <1>b, <1>f, <2>1, <2>2, <2>3 DEF Due, Payout
<1>4. CASE \/ InsertApplication(s) \/ MarkAccepted(s) \/ DeclineRest(s) \/ FindToDecline(s)
           \/ Decline(s) \/ CountPending(s) \/ DeclineAll(s) \/ ReadSettings(s)
  <2>1. /\ pc[s] \notin Payout \cup Refunding \cup {"link"} /\ pc'[s] \notin Payout
        /\ UNCHANGED <<status, runner, linked, payment, earnings, refunds>>
    BY <1>4, <1>a, GotoEffect
       DEF InsertApplication, MarkAccepted, DeclineRest, FindToDecline, Decline, CountPending,
           DeclineAll, ReadSettings, Payout, Refunding
  <2>2. /\ (Busy(Payout) => Busy(Payout)') /\ (Busy(Refunding) => Busy(Refunding)')
        /\ (Busy({"link"}) => Busy({"link"})')
    BY <1>c, <2>1
  <2> QED
    BY <1>b, <2>1, <2>2 DEF Due, Payout
<1>5. CASE MarkPending(s) \/ Reopen(s)
  <2>1. /\ pc[s] \in {"markPending", "reopen"} /\ pc'[s] = "idle" /\ status' \in {"OPEN", "PENDING"}
        /\ UNCHANGED <<runner, linked, payment, earnings, refunds>>
    BY <1>5, <1>a, GotoEffect DEF MarkPending, Reopen
  <2>2. status \in {"OPEN", "PENDING"}
    BY <1>a, <2>1 DEF Kept, ReadHolds
  <2>3. Busy({"link"}) => Busy({"link"})'
    BY <1>c, <2>1
  <2> QED
    BY <1>b, <2>1, <2>2, <2>3 DEF Due, Payout
<1>6. CASE SaveStatus(s)
  <2>1. /\ pc[s] = "saveStatus" /\ status' = job[s].to /\ runner' = job[s].runner
        /\ pc'[s] = IF job[s].to = "COMPLETED" THEN "findEarning" ELSE "idle"
        /\ UNCHANGED <<linked, payment, earnings, refunds>>
    BY <1>6, <1>a, GotoEffect DEF SaveStatus
  <2>2. runner' = runner /\ <<status, job[s].to>> \in ClientMoves
    BY <1>a, <2>1 DEF Kept, ReadHolds, Settles
  <2>3. status \in {"ACCEPTED", "IN_PROGRESS"} /\ status' \in {"IN_PROGRESS", "COMPLETED"}
    BY <2>1, <2>2 DEF MovesForward
  <2>4. \A u \in Users : earnings[u] = 0
    BY <1>a, <2>3 DEF Settles
  <2>5. (Busy({"link"}) => Busy({"link"})') /\ (status' = "COMPLETED" => Busy(Payout)')
    BY <1>c, <2>1 DEF Payout
  <2> QED
    BY <1>b, <2>1, <2>2, <2>3, <2>4, <2>5 DEF Due, Payout
<1>7. CASE FindEarning(s)
  <2>1. /\ pc[s] = "findEarning" /\ pc'[s] = IF AlreadyPaid THEN "idle" ELSE "findRunner"
        /\ UNCHANGED <<status, runner, linked, payment, earnings, refunds>>
    BY <1>7, <1>a, GotoEffect DEF FindEarning
  <2>2. \A u \in Users : earnings[u] = 0
    BY <2>1 DEF Due, Payout
  <2>3. pc'[s] = "findRunner" /\ status = "COMPLETED"
    <3>1. ~AlreadyPaid
      BY <2>2 DEF AlreadyPaid
    <3> QED
      BY <1>a, <2>1, <3>1 DEF Settles
  <2>4. Busy(Payout)' /\ (Busy({"link"}) => Busy({"link"})')
    BY <1>c, <2>1, <2>3 DEF Payout
  <2> QED
    BY <1>b, <2>1, <2>2, <2>3, <2>4 DEF Due, Payout
<1>8. CASE FindRunner(s)
  <2>1. pc[s] = "findRunner" /\ UNCHANGED <<status, runner, linked, payment, earnings, refunds>>
    BY <1>8 DEF FindRunner, Goto
  <2>2. status = "COMPLETED" /\ runner # NoUser /\ \A u \in Users : earnings[u] = 0
    BY <1>a, <2>1 DEF Due, Settles, Payout
  <2>3. pc'[s] = "payRunner"
    BY <1>8, <1>a, <2>2 DEF FindRunner, TypeOK
  <2>4. job'[s].user = runner
    BY <1>a, <2>3 DEF Moves
  <2>5. Busy(Payout)' /\ (Busy({"link"}) => Busy({"link"})')
    BY <1>c, <2>1, <2>3 DEF Payout
  <2> QED
    BY <1>b, <2>1, <2>2, <2>3, <2>4, <2>5 DEF Due, Payout
<1>9. CASE PayRunner(s)
  <2>1. /\ pc[s] = "payRunner" /\ pc'[s] = "idle"
        /\ earnings' = [earnings EXCEPT ![job[s].user] = @ + 1]
        /\ UNCHANGED <<status, runner, linked, payment, refunds>>
    BY <1>9, <1>a, GotoEffect DEF PayRunner
  <2>2. status = "COMPLETED" /\ job[s].user = runner /\ runner \in Users
    BY <1>a, <2>1 DEF Due, Settles
  <2>3. earnings'[runner] > 0
    BY <1>a, <2>1, <2>2
  <2>4. \A t \in Slots : pc'[t] = "idle"
    BY <1>b, <1>d, <2>1 DEF Payout
  <2>5. Busy({"link"}) => Busy({"link"})'
    BY <1>c, <2>1
  <2> QED
    BY <2>1, <2>2, <2>3, <2>4, <2>5 DEF Due, Payout
<1>10. CASE SaveCancel(s)
  <2>1. /\ pc[s] = "saveCancel" /\ pc'[s] = "findPayment" /\ status' = "CANCELLED"
        /\ UNCHANGED <<linked, payment, earnings, refunds>>
    BY <1>10, <1>a, GotoEffect DEF SaveCancel
  <2>2. status \in {"OPEN", "PENDING"}
    BY <1>a, <2>1 DEF Kept, ReadHolds, Cancellable
  <2>3. Busy(Refunding)' /\ (Busy({"link"}) => Busy({"link"})')
    BY <1>c, <2>1 DEF Refunding
  <2>4. \A t \in Slots \ {s} : pc'[t] = "idle"
    BY <1>b, <2>1 DEF Owning, Relying
  <2> QED
    BY <2>1, <2>2, <2>3, <2>4 DEF Due, Payout
<1>11. CASE FindPayment(s)
  <2>1. /\ pc[s] = "findPayment" /\ pc'[s] = IF Refundable THEN "refund" ELSE "idle"
        /\ UNCHANGED <<status, runner, linked, payment, earnings, refunds>>
    BY <1>11, <1>a, GotoEffect DEF FindPayment
  <2>2. status = "CANCELLED" /\ payment # "NONE"
    BY <1>a, <2>1 DEF Settles, IInv, Fresh
  <2>3. ~Busy({"link"})
    BY <1>c, <1>d, <2>1 DEF Refunding
  <2>4. linked
    BY <2>2, <2>3 DEF Due
  <2>5. payment = "FAILED" \/ Busy(Refunding)'
    BY <1>a, <1>c, <2>1, <2>2, <2>4 DEF Refundable, Refunding
  <2>6. \A t \in Slots : pc'[t] \notin Payout
    BY <1>b, <1>d, <2>1 DEF Payout, Refunding
  <2> QED
    BY <2>1, <2>2, <2>4, <2>5, <2>6 DEF Due, Payout
<1>12. CASE Refund(s)
  <2>1. /\ pc[s] = "refund" /\ pc'[s] = "idle" /\ payment' = "FAILED" /\ refunds' = refunds + 1
        /\ UNCHANGED <<status, runner, linked, earnings>>
    BY <1>12, <1>a, GotoEffect DEF Refund, ReversePayment
  <2>2. status = "CANCELLED" /\ refunds' > 0
    <3>1. refunds' > 0
      BY <1>a, <2>1
    <3> QED
      BY <1>a, <2>1, <3>1 DEF Settles
  <2>3. Busy({"link"}) => Busy({"link"})'
    BY <1>c, <2>1
  <2>4. \A t \in Slots : pc'[t] = "idle"
    BY <1>b, <1>d, <2>1 DEF Refunding
  <2> QED
    BY <2>1, <2>2, <2>3, <2>4 DEF Due, Payout
<1>13. ~UndoPayment(s) /\ ~StatementFails(s)
  BY <1>a DEF UndoPayment, StatementFails, Goto, Settles
<1> QED
  BY <1>1, <1>2, <1>3, <1>4, <1>5, <1>6, <1>7, <1>8, <1>9, <1>10, <1>11, <1>12, <1>13 DEF Continue

\* What SettledEventually says once the requests are answered.
NothingOwed ==
  Quiet =>
    /\ status = "COMPLETED" => runner # NoUser /\ earnings[runner] > 0
    /\ status = "CANCELLED" => payment = "FAILED" /\ refunds > 0

\* When clients ask for the next step only, just the accepts overlap and nothing
\* fails, a handler does not end before the money is where the errand's end puts
\* it: with the runner who did the work, or back with the requester.
THEOREM PaidInFull ==
  ASSUME OnlyAcceptsRace, MovesForward, ~Faults, ~Crashes
  PROVE  Spec => []NothingOwed
<1>1. Init => Due
  BY DEF Init, Due, Payout
<1>2. Promised /\ Due /\ [Next]_vars => Due'
  <2> SUFFICES ASSUME Promised, Due, [Next]_vars PROVE Due'
    OBVIOUS
  <2>1. CASE WindowCloses \/ UNCHANGED vars
    BY <2>1 DEF WindowCloses, vars, errand, money, Due, Busy
  <2> QED
    BY <2>1, DueRequest, DueContinue DEF Next, Crash
<1>3. Due => NothingOwed
  BY DEF Due, NothingOwed, Quiet, Busy, Payout, Refunding
<1> QED
  BY <1>1, <1>2, <1>3, PromisedHolds, PTL DEF Spec
=============================================================================
