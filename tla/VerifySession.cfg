\* Two calls and one announced retry: a late answer, a second failure that is
\* reported, a retry of a rejected login and two overlapping attempts all fit.
CONSTANTS
  MAX_RETRIES = 1
  MaxAttempts = 2
  MaxPolls = 2
SPECIFICATION FairSpec
INVARIANTS
  TypeOK
  KeysAgree
  ChannelNeedsSession
  FirstLoginSurvives
PROPERTIES
  KeepsPromise
  SuccessSurvivesClose
  AcceptedBecomesSession
\* The dialog is done, the bound of calls is reached, or the process has died.
CHECK_DEADLOCK FALSE
