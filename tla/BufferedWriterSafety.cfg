CONSTANTS
  Callers = {p1, p2}
  LingerTimer = LingerTimer
  Requests <- MCRequests
  Options <- SafetyOptions
  AcceptBound = 4
  FailureBound = 2
  CallbackBound = 2
SYMMETRY CallerSymmetry
SPECIFICATION Spec
INVARIANTS
  Conservation
  SingleFlush
  FlushIsBarrier
  BacklogBound
  BytesCounted
  NoLostWakeup
PROPERTIES
  NoFlushAfterClose
  ImplementsQueue
