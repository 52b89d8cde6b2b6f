CONSTANTS
  Tabs = {t1, t2}
  Lists <- TheLists
  Managers <- TheManagers
  Jobs <- TheJobs
  MaxFaults = 1
SPECIFICATION FairSpec
CHECK_DEADLOCK FALSE
INVARIANTS
  InstalledIsTrue
  OwnOutcome
PROPERTIES
  Implements
  BeginReturns
