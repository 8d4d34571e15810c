SPECIFICATION FairSpec
CONSTANTS
  Hosts = {a, b}
  NoHost = nohost
  MaxBody = 2
  Extra = 1
  MaxIPs = 2
  AliveMax = 1
INVARIANTS RightServer BodyOnce WholeBeforeNext NoSelfLock NoPageBehindAnswer
PROPERTIES RetryUnseen RequestEnds
CHECK_DEADLOCK FALSE
