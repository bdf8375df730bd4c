SPECIFICATION IoSpec
CONSTANTS
  G = G
  H = H
  W = W
  NoGroup = NoGroup
  NoWord = NoWord
  Thread <- ThreeThreads
  Word = {W}
  Group = {G, H}
  Programs <- Passing
  A = A
  B = B
  C = C
  MaxFutures = 3
  Caller = B
  Sleepers = {A, C}
  Limit = 5
  Budgets = {0, 2, 4}
  MaxTries = 3
SYMMETRY Groups
INVARIANTS IoOK RequestHasCanceler WakeIsForThisWait DeadlockNeedsSleeper OkMeansAllEnded
INVARIANTS FuturesKept TimedKept
PROPERTIES GroupReturnsAfterTasks
CHECK_DEADLOCK FALSE
