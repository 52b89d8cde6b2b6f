CONSTANTS
  Workers <- One
  Pkgs <- AllPkgs
  Svcs <- AllSvcs
  Reads <- AllReads
  Drives <- AllDrives
  Plan <- Everything
  Boots <- BootStates
  MaxFaults = 2
SPECIFICATION Spec
CHECK_DEADLOCK FALSE
INVARIANT HandlersLeaveNothing
PROPERTY HandlersUndo
PROPERTY HandlersTakeEffect
PROPERTY HandlersUndoInForce
PROPERTY HandlersPutServicesBack
