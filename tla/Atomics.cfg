SPECIFICATION HSpec
CONSTANTS
  Thread <- ThreeThreads
  Loc <- MixedLocs
  Programs <- Passing
INVARIANTS TypeOK OneMemory RacesExact OrderKept ReadsExact
CHECK_DEADLOCK FALSE
