SPECIFICATION Spec
CONSTANTS
  Pasted = {p1}
  Reaction = {r1}
  Draft = {d1}
  LoopLive = FALSE
  RelayLive = TRUE
  Enforce = TRUE
  Raising = FALSE
  Ambiguous = FALSE
  Many = 2
INVARIANT SentOnce
