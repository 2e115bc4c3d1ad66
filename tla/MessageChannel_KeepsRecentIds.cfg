CONSTANTS
  KEEPALIVE = 1
  SKEW = 0
  MAX_IDS = 3
  CLEAR_AT = 2
  Ids = {1, 2, 3}
  MaxInflight = 2
  MaxConnects = 1
  ClockMayFail = FALSE
SPECIFICATION FairSpec
PROPERTY KeepsRecentIds
CHECK_DEADLOCK FALSE
