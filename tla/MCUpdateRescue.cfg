CONSTANTS
  MaxStarts = 2
  By <- JustThePanel
  MaxCuts = 0
SPECIFICATION Spec
CHECK_DEADLOCK FALSE
INVARIANT RescueKept
