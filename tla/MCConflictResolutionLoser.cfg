SPECIFICATION Spec
CONSTANTS
  a = a
  b = b
  h = h
  ab = ab
  bh = bh
  Nobody = Nobody
  Claim = {a, b}
  Hypothesis = {h}
  Conflict = {ab, bh}
  Sides <- ChainSides
  Hard = {bh}
  MaxApply = 2
  MaxLines = 2
INVARIANT EveryLoserGone
