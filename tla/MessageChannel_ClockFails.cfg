\* The time service may answer with the error value.
CONSTANTS
  KEEPALIVE = 1
  SKEW = 0
  MAX_IDS = 3
  CLEAR_AT = 2
  Ids = {1, 2}
  MaxInflight = 1
  MaxConnects = 1
  ClockMayFail = TRUE
SPECIFICATION FairSpec
INVARIANT NoEarlyTimeout
CHECK_DEADLOCK FALSE
