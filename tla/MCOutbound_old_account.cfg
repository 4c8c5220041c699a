SPECIFICATION Spec
CONSTANTS
  Requests = {r1, r2}
  Desks = {d1}
  Accounts = {a1, a2}
  NoAccount = NoAccount
  Biller = Biller
  Prices = {1}
  Threshold = 1
  MaxFunds = 2
  UnclearTransfer = {"serverError", "timeout"}
  UnclearPurchase = {"timeout"}
  KycRaces = FALSE
  Faults = FALSE
  Crashes = FALSE
CHECK_DEADLOCK FALSE
PROPERTY TransfersFollowKyc
