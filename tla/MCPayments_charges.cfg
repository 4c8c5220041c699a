SPECIFICATION LiveSpec
CONSTANTS
  Slots = {s1, s2}
  Deposits = {d1}
  Boosts = {b1}
  None = None
  Amount <- Amounts
  Races = FALSE
  MaxTroubles = 1
CHECK_DEADLOCK FALSE
INVARIANTS
  TypeOK
  OnlyPaidIsGiven
PROPERTIES
  HonoursCharges
  PaidDepositCredited
