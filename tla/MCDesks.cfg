SPECIFICATION Behaviours
CONSTANTS
  Method = {m}
  Gated = TRUE
  Coupled = TRUE
  Trying = {TRUE}
  Stall = 1
  MinAwake = 1
  MaxAwake = 2
  MinSleep = 1
  MaxSleep = 2
  DeepAfter = 1
  Grace = 1
  MaxTrials = 1
  MaxRetrials = 1
  Window = 0
INVARIANTS
  FastsEnd
  IntakeFollowsDigestion
PROPERTIES
  EveryModuleHasItsTurn
  LastingGapsAreOrdered
  HopelessGo
  IntakeResumes
  
CHECK_DEADLOCK FALSE
