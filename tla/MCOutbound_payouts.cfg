SPECIFICATION LiveSpec
CONSTANTS
  Requests = {r1, r2}
  Desks = {d1}
  Accounts = {a1, a2}
  NoAccount = NoAccount
  Biller = Biller
  Prices = {1}
  Threshold = 1
  MaxFunds = 2
  UnclearTransfer = {"serverError", "timeout"}
  UnclearPurchase = {"timeout"}
  KycRaces = FALSE
  Faults = TRUE
  Crashes = TRUE
CHECK_DEADLOCK FALSE
INVARIANTS
  TypeOK
  NeverPaidAndReturned
  TransfersApproved
PROPERTIES
  KeepsReservation
  OnlyUnclearStaysPending
