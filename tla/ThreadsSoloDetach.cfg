SPECIFICATION HSpec
CONSTANTS
  Thread <- ThreeThreads
  Loc = {x}
  Policy = "available"
  SpawnLimit = 0
  CanDetach = TRUE
  CanTransfer = FALSE
  MaxAccess = 2
INVARIANTS SoloSkipChangesNothing

CHECK_DEADLOCK FALSE
