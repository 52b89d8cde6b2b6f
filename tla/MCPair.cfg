CONSTANTS
  Workers = {w1, w2, w3}
  Pkgs <- PairPkgs
  Svcs <- PairSvcs
  Reads <- PairReads
  Drives <- PairDrives
  Plan <- TrioPlans
  Boots <- PairBoots
  MaxFaults = 2
SYMMETRY Alike
SPECIFICATION Spec
CHECK_DEADLOCK FALSE
PROPERTY IsAtomic
PROPERTY RollbackExact
PROPERTY AckSurvives
