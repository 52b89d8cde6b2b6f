CONSTANTS
  Catalogue <- AllCards
  Changing <- ApiChanging
  Starting <- ApiStarting
  MaxActs = 2
  MaxFaults = 1
SPECIFICATION FairSpec
CHECK_DEADLOCK FALSE
INVARIANTS
  SentOnce
  FailureTold
  
  
  RightSubject
PROPERTIES
  
  BusyEnds
