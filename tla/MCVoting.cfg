SPECIFICATION DeployedSpec
CONSTANTS
  Account = {a1}
  Gov = Gov
  None = None
  WeightInputs <- TwoWeights
  TIMELOCK_LEDGERS = 1
  MAX_U32 = 5
  MaxLedger = 4
  Voter = {v1, v2}
  WeightSteps = {0, 1, 2}
  VoteSteps = {1, 2}
  Quorums = {2}
  Percents = {50, 101}
  Periods = {0, 1}
  Delays = {0, 1, 5}
  MaxProposals = 1
SYMMETRY Symmetry
INVARIANTS
  TypeOK
  TotalWeightExact
  TallyMatchesUsed
  ExecutedWon
PROPERTIES
  ProposalsSettle
