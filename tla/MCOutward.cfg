SPECIFICATION Behaviours
CONSTANTS
  c1 = c1
  x1 = x1
  e1 = e1
  l1 = l1
  IdOf <- ClaimIds
  Addressed <- ClaimTargets
  Requesters <- ClaimRequesters
  Revisions <- ClaimRevisions
  MaxTrials = 0
  TrialIds = {}
  TrialReports = {}
INVARIANTS
  AuthorityIsEarned
  TaintSurvivesDerivation
  DriftIsLeftover
  OverrunBounded
  RepliesAreKept
  UnanimousDoubtHolds
PROPERTIES
  RefinesStanding
  NoAuthorityUnderContradiction
CHECK_DEADLOCK FALSE
