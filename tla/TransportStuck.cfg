CONSTANTS
  Calls = {k1, k2}
  Cancellable = {k1}
  ConnectionBound = 1
  NoCall = NoCall
SPECIFICATION FairSpec
CHECK_DEADLOCK FALSE
PROPERTIES
  LostConnectionEndsCalls
