SPECIFICATION LiveSpec
CONSTANTS
  Slots = {s1, s2, s3}
  Requester = req
  Runners = {ann, bob, cat}
  NoUser = NoUser
  RunnerRole = {ann, bob, req}
  Pro = {ann, req}
  ClientMoves <- Forward
  Racing <- Accepts
  Faults = FALSE
  Crashes = FALSE
CHECK_DEADLOCK FALSE
INVARIANTS
  ApplicationsMatchErrand
PROPERTIES
  RunnerKept
  SettledEventually
  KeepsPromise
