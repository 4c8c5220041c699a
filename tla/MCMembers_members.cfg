SPECIFICATION Spec
CONSTANTS
  Slots = {s1, s2}
  Rows = {1, 2, 3}
  Plans = {1, 2}
  Guests = {g1}
  Errands = {1, 2}
  Bonus = 1
  Raters = {x1, x2}
  Deposit = 3
  MaxClock = 3
  MaxRequests = 4
  MaxTroubles = 1
  Races = FALSE
SYMMETRY Interchangeable
CHECK_DEADLOCK FALSE
INVARIANTS
  TypeOK
  NeverMoreThanPaid
  PaidTimeKept
  BonusEarned
  RenewedOnce
