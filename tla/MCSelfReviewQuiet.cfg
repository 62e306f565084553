SPECIFICATION Spec
CONSTANTS
  Log = {"semantic_calls", "escalations"}
  Keep = 1
  EveryRuns = 1
  MaxRuns = 2
  MaxDiary = 2
  MaxCalls = 1
INVARIANTS
  QuietIsTrue
CHECK_DEADLOCK FALSE
