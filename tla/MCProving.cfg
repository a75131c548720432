\* Proofs of any statement, and two at a time of some, submitted by two consumers
\* with the inputs of either.
SPECIFICATION Spec
CONSTANTS
  VOLUME_UNIT = 3
  VOLUME_BOUND = 4
  U32_BOUND = 4096
  U64_BOUND = 16777216
  F64_BOUND = 2048
  Spacings = {1, 2, 4, 8, 16, 32, 64}
  BYTE = 64
  FIELD = 486120001
  Address = {a1, a2}
  VkHash = {h1}
  Version = {1, 2}
  None = None
  MaxApprovals = 2
  Statement <- EdgeStatements
  Paired <- FewStatements
  Threshold = {0, 443, 849}
  Subject = {s1, s2}
  Nonce = {n1, n2}
  Oracle = Oracle
  Domain = 900000000
  ShaDigest = 500000000
  MaxRequests = 2
SYMMETRY Symmetry
INVARIANTS
  ProvableExactly
  AcceptedOnce
  VerifiedExactly
