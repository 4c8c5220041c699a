SPECIFICATION Spec
CONSTANTS
  Slots = {s1, s2}
  Requester = req
  Runners = {ann, bob, cat}
  NoUser = NoUser
  RunnerRole = {ann, bob, req}
  Pro = {ann, req}
  ClientMoves <- Anything
  Racing <- MovesNoMoney
  Faults = TRUE
  Crashes = TRUE
CHECK_DEADLOCK FALSE
SYMMETRY Interchangeable
INVARIANTS
  TypeOK
  NeverOwnRunner
  OnlyRunnersWork
  WindowIsPro
  PaidBeforePosted
  PaidOnce
  RefundedOnce
