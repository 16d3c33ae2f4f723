CONSTANTS
  Callers = {p1, p2}
  LingerTimer = LingerTimer
  Requests <- LingerRequests
  Options <- LingerOptions
  AcceptBound = 3
  FailureBound = 1
  CallbackBound = 2
SPECIFICATION FairSpec
PROPERTIES
  CancelledWriteReturns
  CloseReleasesWriters
  LingerDelivers
