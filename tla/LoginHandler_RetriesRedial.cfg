CONSTANTS
  MAX_RETRIES = 1
  MaxConns = 2
SPECIFICATION FairSpec
PROPERTY RetriesRedial
CHECK_DEADLOCK FALSE
