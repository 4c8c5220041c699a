------------------------------ MODULE Lifecycle ------------------------------
(***************************************************************************)
(* What an errand promises its requester and its runner, each step at      *)
(* once: the price is held before the errand is posted and is passed on at *)
(* most once, to the runner of a completed errand or back to the requester *)
(* of a cancelled one; a runner, once assigned, stays; a picked up errand  *)
(* is not cancelled.  Payouts and returns are counted, so that a second    *)
(* one is a step that no action below allows.                              *)
(***************************************************************************)
EXTENDS Naturals

CONSTANTS Requester, Runners, NoUser

VARIABLES
  status,    \* where the errand is, "NONE" before it is posted
  runner,    \* who does it
  held,      \* the price has been taken from the requester
  paid,      \* how often it was passed on, to whom
  returned   \* how often it was given back

errand == <<status, runner>>
vars == <<status, runner, held, paid, returned>>

Init ==
  /\ status = "NONE" /\ runner = NoUser
  /\ ~held
  /\ paid = [u \in Runners \cup {Requester} |-> 0]
  /\ returned = 0

Move(from, to) ==
  /\ status \in from /\ status' = to
  /\ UNCHANGED <<held, paid, returned>>

Hold == ~held /\ held' /\ UNCHANGED <<errand, paid, returned>>
Post == held /\ Move({"NONE"}, "OPEN") /\ UNCHANGED runner
Bid == Move({"OPEN"}, "PENDING") /\ UNCHANGED runner
Reopen == Move({"PENDING"}, "OPEN") /\ UNCHANGED runner
Assign == Move({"OPEN", "PENDING"}, "ACCEPTED") /\ runner' \in Runners
Work == Move({"ACCEPTED"}, "IN_PROGRESS") /\ UNCHANGED runner
Complete == Move({"IN_PROGRESS"}, "COMPLETED") /\ UNCHANGED runner
Cancel == Move({"OPEN", "PENDING"}, "CANCELLED") /\ UNCHANGED runner

\* The price is still where it was put when the errand was posted.
InEscrow == held /\ returned = 0 /\ \A u \in Runners \cup {Requester} : paid[u] = 0

Pay ==
  /\ status = "COMPLETED" /\ InEscrow
  /\ paid' = [paid EXCEPT ![runner] = @ + 1]
  /\ UNCHANGED <<errand, held, returned>>

Return ==
  /\ status = "CANCELLED" /\ InEscrow
  /\ returned' = returned + 1
  /\ UNCHANGED <<errand, held, paid>>

Next == \/ Hold \/ Post \/ Bid \/ Reopen \/ Assign \/ Work \/ Complete \/ Cancel
        \/ Pay \/ Return

Spec == Init /\ [][Next]_vars

\* A completed errand is paid and a cancelled one returned, without being asked.
LiveSpec == Spec /\ WF_vars(Pay) /\ WF_vars(Return)
=============================================================================
