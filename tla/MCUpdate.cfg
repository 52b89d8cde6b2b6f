CONSTANTS
  MaxStarts = 2
  By <- TheThree
  MaxCuts = 1
SPECIFICATION FairSpec
CHECK_DEADLOCK FALSE
INVARIANTS
  RestartsWhole
PROPERTIES
  RescueFirst
  ToldTheTruth
  DoneIsNew
  HookGoesOff
  DialogEnds
