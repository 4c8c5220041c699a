SPECIFICATION Spec
CONSTANTS
  Slots = {s1}
  Rows = {1, 2, 3}
  Plans = {1}
  Guests = {}
  Errands = {}
  Bonus = 1
  Raters = {}
  Deposit = 3
  MaxClock = 2
  MaxRequests = 4
  MaxTroubles = 0
  Races = FALSE
CHECK_DEADLOCK FALSE
PROPERTIES
  CancelledStays
