SPECIFICATION HSpec
CONSTANTS
  Thread <- ThreeThreads
  Loc = {x}
  Policy = "fallible"
  SpawnLimit = 2
  CanDetach = TRUE
  CanTransfer = TRUE
  MaxAccess = 2
INVARIANTS TypeOK ClockIsHappensBefore RacesExact SoloSkipSound NoDeadlock
PROPERTIES HandlesConsumedOnce
CHECK_DEADLOCK FALSE
