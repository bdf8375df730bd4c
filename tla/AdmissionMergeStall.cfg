SPECIFICATION Spec
CONSTANTS
  Guard = {1, 2, 3}
  NoGuard = 0
  NoEntry = NoEntry
  Nobody <- TheNobody
  Capacity = 4
  Process = 2
  Scenario <- Stall
PROPERTIES ElasticProgress
CHECK_DEADLOCK FALSE
