SPECIFICATION Spec
CONSTANTS
  Guard = {1, 2, 3, 4}
  NoGuard = 0
  NoEntry = NoEntry
  Nobody <- TheNobody
  Capacity = 4
  Process = 2
  Scenario <- Safe
INVARIANTS TypeOK BudgetKept WorkloadsApart
PROPERTIES DrainsKept HeadKeepsPace
CHECK_DEADLOCK FALSE
