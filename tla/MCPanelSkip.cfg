SPECIFICATION FairSpec
CONSTANTS
  HasMode = TRUE
  HasWifi = TRUE
  HasWireguard = TRUE
  SetupAnswers = FALSE
  PackagesAnswer = FALSE
  MaxDetours = 1
  MaxCuts = 0
  MaxFaults = 0
PROPERTY WizardEnds
CHECK_DEADLOCK FALSE
