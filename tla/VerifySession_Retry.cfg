\* Two calls and no retry are enough: a refused login, then another try.
CONSTANTS
  MAX_RETRIES = 1
  MaxAttempts = 2
  MaxPolls = 2
SPECIFICATION FairSpec
INVARIANT ProcessSurvivesLogin
CHECK_DEADLOCK FALSE
