SPECIFICATION Behaviours
CONSTANTS
  Claim <- Four
  Says <- Texts
  From <- Firsts
  About <- OneTopic
  Weight <- Weights
  Sinks = {"s"}
  Disputes <- Negations
  Card = {9}
  Linkable <- Evident
  Package <- Packages
  Pid <- OwnIds
  Judgement <- Verdicts
  Updates <- Recommended
  Whole <- Legible
  Keep = 1
  MaxItems = 1
  DeadTail = 1
  Mood <- Moods
  MaxTorn = 1
  LinkedMax = 2
INVARIANTS
  OncePerStay
  ReportsAreTrue
PROPERTIES
  EveryPairIsExamined
  LensesAreSettled
CHECK_DEADLOCK FALSE
