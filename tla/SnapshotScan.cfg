CONSTANTS
  c1 = c1
  c2 = c2
  Callers = {t1}
  Admins = {a1}
  Fillers = {f1}
  Servers = {s1}
  Coordinators <- MCCoordinators
  Seed = s0
  None = None
  Buckets = {}
  Partitioned = {}
  Schemas <- MCSchemas
  ChangeBound = 1
  Storages <- MCStorages
  RemotePaths <- MCRemotePaths
  FileBound = 2
SPECIFICATION ScanSpec
INVARIANTS
  NoDirectoryLeft
  ScanAsWritten
