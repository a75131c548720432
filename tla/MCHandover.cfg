SPECIFICATION Spec
CONSTANTS
  Account = {a1, a2}
  Gov = Gov
  None = None
  WeightInputs <- OneWeight
  TIMELOCK_LEDGERS = 1
  MAX_U32 = 4
  MaxLedger = 3
  Voter = {v1}
  WeightSteps = {1}
  VoteSteps = {1}
  Quorums = {0, 1}
  Percents = {}
  Periods = {1}
  Delays = {0}
  MaxProposals = 1
INVARIANTS
  PendingPaired
  GovernanceIdTracksAdmin
PROPERTIES
  HandoverIrrevocable
