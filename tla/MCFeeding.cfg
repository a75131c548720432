SPECIFICATION FairSpec
CONSTANTS
  s1 = s1
  Subjects <- OneSubject
  Poll = Poll
  EventFeed = {e1}
  None = None
  VcValue <- AnchorRevoke
  TxValue <- OnePayment
  AllowPartialStats = TRUE
  MaxConsecutiveFailures = 1
  PAGE = 1
  MaxFaults = 1
PROPERTIES
  Converges
  OlderNeverOverwrites
CHECK_DEADLOCK FALSE
