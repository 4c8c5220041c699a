----------------------------- MODULE MCErrands -----------------------------
(* Instances of Errands for TLC. *)
EXTENDS Errands, TLC

Interchangeable == Permutations(Slots)

\* Clients that ask only for the next step, clients that ask for anything, and
\* clients that also take an errand back to OPEN.
Forward == {<<"ACCEPTED", "IN_PROGRESS">>, <<"IN_PROGRESS", "COMPLETED">>}
Anything == ErrandStatus \X ErrandStatus
Reopening == Forward \cup {<<"ACCEPTED", "OPEN">>, <<"COMPLETED", "OPEN">>}

\* The requests that may overlap: those that move no money, or creations and accepts.
MovesNoMoney == Ops \ {"create", "updateStatus", "cancel"}
Nothing == {}
Accepts == {"create", "acceptErrand", "acceptApplication"}
=============================================================================
