SPECIFICATION Spec
CONSTANTS
  s1 = s1
  Subjects <- OneSubject
  Poll = Poll
  EventFeed = {}
  None = None
  VcValue <- AnchorRevoke
  TxValue <- OnePayment
  AllowPartialStats = TRUE
  MaxConsecutiveFailures = 2
  PAGE = 1
  MaxFaults = 1
PROPERTIES
  SkipsOnlyRedundant
CHECK_DEADLOCK FALSE
