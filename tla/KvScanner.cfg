CONSTANTS
  Servers = {s1, s2}
  RowCount = 2
  SessionBound = 2
  CallBound = 6
  LateBound = 1
SPECIFICATION FairSpec
INVARIANTS
  RowsInOrder
  ScanComplete
  NoSessionLeft
PROPERTIES
  ScanRowsReturns
CHECK_DEADLOCK FALSE
