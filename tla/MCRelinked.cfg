\* The registry and the oracle are pointed at other contracts and back.
SPECIFICATION Spec
CONSTANTS
  None = None
  Generic = Generic
  i1 = i1
  h1 = h1
  h2 = h2
  Admin = {a1}
  Issuer = {i1}
  Hash = {h1, h2}
  Oracle = {o1, o2}
  ThisOracle = o1
  Registry = {r1, r2}
  ThisRegistry = r1
  Subject = {s1}
  Cid = {}
  CredType = {Generic}
  TierInputs = {}
  BatchLimits = {}
  MAX_BATCH_SIZE = 1
  MAX_VCS_PER_SUBJECT = 1
  MaxAnchors = 2
  MaxDids = 0
  MaxLedger = 2
  LegacyIssuers = {}
  LegacyAnchors <- FreshAnchors
SYMMETRY Symmetry
PROPERTIES
  ActiveCapRespected
  ImplementsView
