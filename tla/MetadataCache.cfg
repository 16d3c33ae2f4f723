CONSTANTS
  Tasks = {t1, t2}
  Buckets = {b1}
  Nodes = {n1, n2}
  NoNode = NoNode
  ElectionBound = 1
SYMMETRY CacheSymmetry
SPECIFICATION Spec
INVARIANTS
  ServersBeforeRoutes
  RefreshSticks
  RerouteReachesLeader
