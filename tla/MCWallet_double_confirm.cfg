SPECIFICATION Spec
CONSTANTS
  Requests = {r1, r2, r3}
  Users = {u1}
  Amounts = {1}
  None = None
  MaxConfirms = 2
  Faults = FALSE
  Crashes = FALSE
CHECK_DEADLOCK FALSE
INVARIANT LedgerBalances
