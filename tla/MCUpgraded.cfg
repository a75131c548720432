\* A subject with records of the older version, DID documents, a moving ledger,
\* limits and tiers at and beyond their bounds.
SPECIFICATION Spec
CONSTANTS
  None = None
  Generic = Generic
  i1 = i1
  h1 = h1
  h2 = h2
  Admin = {a1}
  Issuer = {i1}
  Hash = {h1, h2, h3}
  Oracle = {o1}
  ThisOracle = o1
  Registry = {r1}
  ThisRegistry = r1
  Subject = {s1}
  Cid = {c1}
  CredType = {Generic}
  TierInputs = {0, 1, 301}
  BatchLimits = {0, 1, 3}
  MAX_BATCH_SIZE = 2
  MAX_VCS_PER_SUBJECT = 2
  MaxAnchors = 3
  MaxDids = 1
  MaxLedger = 2
  LegacyIssuers = {i1}
  LegacyAnchors <- UpgradedAnchors
INVARIANTS
  IssuerIndexExact
  TypeOK
  CountAbsentOnlyLegacy
PROPERTIES
  ChangesStamped
  PausedRegistryFrozen
