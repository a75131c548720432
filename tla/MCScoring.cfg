\* One subject and two identity oracles with two registries between them.
SPECIFICATION Spec
CONSTANTS
  s1 = s1
  Account = {a1}
  Gov = Gov
  None = None
  WeightInputs <- NoWeights
  TIMELOCK_LEDGERS = 1
  MAX_U32 = 4
  MaxLedger = 3
  VOLUME_UNIT = 1
  Subject = {s1}
  Hash = {h1, h2}
  Issuer = {i1}
  CredType = {Generic}
  IdOracle = {o1, o2}
  Registry = {r1, r2}
  Generic = Generic
  Feeder = {}
  Lender = {}
  VcId = {}
  NoType = NoType
  TxInputs = {}
  CountInputs = {}
  Amounts = {}
  TypeWeights = {50}
  DecayInputs <- SteepDecay
  Cooldowns = {0, 2}
  DisputeInputs = {}
  MAX_COMPUTE_COOLDOWN_LEDGERS = 3
  STALE_LEDGER_AGE = 1
  LEDGER_SECONDS = 1728000
  MAX_COUNT = 2
  LegacyRepayments <- FreshRepayments
  MaxRepayments = 0
CONSTRAINT FewSettings
SYMMETRY Symmetry
INVARIANTS
  TypeOK
  SubjectsScoredExact
  FreshCoversActive
PROPERTIES
  AgeNeverHelps
