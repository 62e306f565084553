SPECIFICATION Spec
CONSTANTS
  Claim = {1, 2, 3, 4}
  Text = {"t", "u"}
  Idea = {"i"}
  Offer <- Offers
  Akin <- Alike
  Opposed <- Contrary
  Routed = {"t"}
  Barred = {}
  Trifles = {}
  Topics = {"real"}
  MaxHyp = 1
  MaxTests = 1
  Retries = 1
  Barren = 2
  MaxPrune = 1
  Cap = 1
  MaxShed = 1
  MaxRefile = 1
  BurnedAt = 1
  Coherence = TRUE
PROPERTIES
  NoSilentReturn
  SupportKeepsAlive
  NeverStarved
CHECK_DEADLOCK FALSE
