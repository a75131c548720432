\* Two subjects, one with an old repayment record; everything that feeder, lender,
\* admin and subjects write.
SPECIFICATION Spec
CONSTANTS
  s1 = s1
  Account = {a1}
  Gov = Gov
  None = None
  WeightInputs <- SomeWeights
  TIMELOCK_LEDGERS = 1
  MAX_U32 = 3
  MaxLedger = 2
  VOLUME_UNIT = 1
  Subject = {s1, s2}
  Hash = {}
  Issuer = {}
  CredType = {Generic}
  IdOracle = {}
  Registry = {}
  Generic = Generic
  Feeder = {f1}
  Lender = {l1}
  VcId = {v1}
  NoType = NoType
  TxInputs <- AllStats
  CountInputs = {5}
  Amounts = {0, 1, 100}
  TypeWeights = {}
  DecayInputs <- NoDecay
  Cooldowns = {}
  DisputeInputs = {"repayment", "other"}
  MAX_COMPUTE_COOLDOWN_LEDGERS = 3
  STALE_LEDGER_AGE = 1
  LEDGER_SECONDS = 864000
  MAX_COUNT = 2
  LegacyRepayments <- OldRepayments
  MaxRepayments = 3
CONSTRAINT OneFed
INVARIANTS
  RateWithinBounds
  RepaymentsCounted
  ClampNeverBinds
  IndexesExact
PROPERTIES
  OnTimeNeverHurts
  RepaymentHistoryKept
