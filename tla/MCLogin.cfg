CONSTANTS
  Addrs = {lan, admin}
  Admin = admin
  loginFreeAttempts = 1
  loginMaxDelay = 2
  loginForget = 1
  loginMaxTracked = 1
  Attempts = {a1, a2}
  MaxFailures = 3
  MaxTokens = 1
  MaxBumps = 1
  MaxCuts = 1
  MaxSecrets = 2
SPECIFICATION FairSpec
CHECK_DEADLOCK FALSE
INVARIANTS
  AllOut
PROPERTIES
  OwnBudget
  WaitEnds
  SessionsSurvive
