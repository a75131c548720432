\* Two issuers anchor and revoke the same two credentials of one subject.
SPECIFICATION Spec
CONSTANTS
  None = None
  Generic = Generic
  i1 = i1
  h1 = h1
  h2 = h2
  Admin = {a1}
  Issuer = {i1, i2}
  Hash = {h1, h2}
  Oracle = {o1}
  ThisOracle = o1
  Registry = {r1}
  ThisRegistry = r1
  Subject = {s1}
  Cid = {}
  CredType = {Generic}
  TierInputs = {}
  BatchLimits = {}
  MAX_BATCH_SIZE = 2
  MAX_VCS_PER_SUBJECT = 2
  MaxAnchors = 3
  MaxDids = 0
  MaxLedger = 1
  LegacyIssuers = {}
  LegacyAnchors <- FreshAnchors
SYMMETRY Symmetry
INVARIANTS
  IssuerIndexExact
  NoDuplicateAnchor
  CountWithinUnrevoked
  CountExactWithoutRegistry
  StatsAccurate
  RegistryConsistent
PROPERTIES
  RevocationPermanent
