SPECIFICATION Spec
CONSTANTS
  Hosts = {a}
  NoHost = nohost
  MaxBody = 2
  Extra = 0
  MaxIPs = 1
  AliveMax = 1
INVARIANT NoStaleAnswer
CHECK_DEADLOCK FALSE
