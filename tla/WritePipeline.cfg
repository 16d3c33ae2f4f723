CONSTANTS
  b1 = b1
  b2 = b2
  Batches <- MCBatches
  BucketOf <- MCBucketOf
  Servers = {s1, s2}
  None = None
  ElectionBound = 2
  FailureBound = 1
SPECIFICATION FairSpec
CHECK_DEADLOCK FALSE
INVARIANTS
  TypeOK
  StoredAsReported
  RefusalsReported
  NothingElseLost
  LastWriteWins
  CopiesNeedFailures
PROPERTIES
  AcknowledgedOnce
  AcceptedIsStored
