SPECIFICATION FairSpec
CONSTANTS
  HasMode = TRUE
  HasWifi = TRUE
  HasWireguard = TRUE
  SetupAnswers = TRUE
  PackagesAnswer = FALSE
  MaxDetours = 2
  MaxCuts = 1
  MaxFaults = 1
INVARIANT SummaryHolds
PROPERTIES WizardEnds DeadSessionShows
CHECK_DEADLOCK FALSE
