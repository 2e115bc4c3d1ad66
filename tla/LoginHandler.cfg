\* Connections enough to pass the limit of retries, so that a failure is
\* reported and another connection is dialled after that.
CONSTANTS
  MAX_RETRIES = 2
  MaxConns = 4
SPECIFICATION FairSpec
INVARIANTS
  TypeOK
  OneLiveConnection
  FlagTracksConnection
  
PROPERTIES
  SafeAfterPlainFailures
  RetryThreadsEnd
\* A process whose login failed for good has nothing left to do.
CHECK_DEADLOCK FALSE
