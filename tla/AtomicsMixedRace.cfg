SPECIFICATION HSpec
CONSTANTS
  Thread <- ThreeThreads
  Loc <- MixedLocs
  Programs <- Mixed
INVARIANTS MixedRaceRejected
CHECK_DEADLOCK FALSE
