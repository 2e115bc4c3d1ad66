\* Enough ids to pass both limits, and a second token after the first.
CONSTANTS
  KEEPALIVE = 2
  SKEW = 1
  MAX_IDS = 3
  CLEAR_AT = 2
  Ids = {1, 2, 3, 4}
  MaxInflight = 2
  MaxConnects = 2
  ClockMayFail = FALSE
SPECIFICATION FairSpec
INVARIANTS
  TypeOK
  NoEarlyTimeout
  IdsBounded
  OpenIsWatched
PROPERTIES
  SilenceDetected
  KeeperEnds
  TimeoutClosesSocket
\* A channel that failed or a process that died has nothing left to do.
CHECK_DEADLOCK FALSE
