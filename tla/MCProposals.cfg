SPECIFICATION FairSpec
CONSTANTS
  Account = {a1}
  Gov = Gov
  None = None
  WeightInputs <- TwoWeights
  TIMELOCK_LEDGERS = 1
  MAX_U32 = 6
  MaxLedger = 5
  Voter = {v1}
  WeightSteps = {0, 1}
  VoteSteps = {1}
  Quorums = {1}
  Percents = {}
  Periods = {1}
  Delays = {0, 1}
  MaxProposals = 2
INVARIANTS
  GovernedWeights
PROPERTIES
  PassedExecuted
  QueuedWeightsResolve
