SPECIFICATION Spec
CONSTANTS
  Requests = {r1, r2, r3}
  Users = {u1}
  Amounts = {1, 2}
  None = None
  MaxConfirms = 1
  Faults = TRUE
  Crashes = TRUE
CHECK_DEADLOCK FALSE
INVARIANTS
  TypeOK
  BalanceNonNegative
  LedgerBalances
  FailedIffReversed
  StatementShowsBalance
PROPERTIES
  ImplementsLedger
