SPECIFICATION Spec
CONSTANTS
  Slots = {s1, s2}
  Rows = {1}
  Plans = {1}
  Guests = {g1}
  Errands = {1}
  Bonus = 1
  Raters = {}
  Deposit = 1
  MaxClock = 0
  MaxRequests = 4
  MaxTroubles = 0
  Races = TRUE
CHECK_DEADLOCK FALSE
INVARIANT BonusOnce
