SPECIFICATION Spec
CONSTANTS
  Slots = {s1}
  Requester = req
  Runners = {ann, bob, cat}
  NoUser = NoUser
  RunnerRole = {ann, bob, req}
  Pro = {ann, req}
  ClientMoves <- Reopening
  Racing <- Nothing
  Faults = FALSE
  Crashes = FALSE
CHECK_DEADLOCK FALSE
INVARIANT NotPaidAndRefunded
