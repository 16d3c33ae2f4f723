CONSTANTS
  b1 = b1
  b2 = b2
  Batches <- MCBatches
  BucketOf <- MCBucketOf
  Servers = {s1, s2}
  None = None
  ElectionBound = 2
  FailureBound = 1
SPECIFICATION Spec
CHECK_DEADLOCK FALSE
INVARIANT ReportedIsStored
