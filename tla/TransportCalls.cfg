CONSTANTS
  Calls = {k1, k2}
  Cancellable = {k1, k2}
  ConnectionBound = 2
  NoCall = NoCall
SPECIFICATION FairSpec
CHECK_DEADLOCK FALSE
INVARIANTS
  NoLeakedConnection
  HandshakeBeforeUse
  NoStaleEntries
  NoLostAnswer
PROPERTIES
  OnlyStuckLoopsHoldCalls
