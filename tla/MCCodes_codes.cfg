SPECIFICATION Spec
CONSTANTS
  Slots = {s1, s2}
  Devices = {d1, unknown}
  Unknown = unknown
  NoDevice = NoDevice
  MaxAttempts = 1
  MaxRequests = 4
  MaxTroubles = 1
  TornIssues = FALSE
  Races = FALSE
SYMMETRY Interchangeable
CHECK_DEADLOCK FALSE
INVARIANTS
  TypeOK
  OnlyKnownDevicesEnter
  ChangesAnswerCodes
PROPERTY KeepsOneTimeCodes
