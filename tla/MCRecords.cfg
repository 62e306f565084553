SPECIFICATION Behaviours
CONSTANTS
  Fact = {}
  Decision = {d1, d2}
  Order = {order}
  MaxCode = 1
  PushTries = 2
  Raising = TRUE
  Compacting = TRUE
INVARIANTS
  RecordedOrdersAreFiled
  GapsAreExplored
  MaximsFit
  TrialRecordedOnce
PROPERTIES
  NothingReverted
  VerdictsAreRepeatable
  WinsProtect
  EventsFindDisputes
  FailuresWait
CHECK_DEADLOCK FALSE
