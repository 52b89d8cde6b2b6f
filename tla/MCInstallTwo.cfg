CONSTANTS
  Tabs = {t1}
  Lists <- TheLists
  Managers <- TheManagers
  Jobs <- TheJobs
  MaxFaults = 1
SPECIFICATION FairSpec
CHECK_DEADLOCK FALSE
INVARIANT OneActive
