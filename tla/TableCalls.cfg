CONSTANTS
  b1 = b1
  p1 = p1
  c1 = c1
  c2 = c2
  Callers = {t1}
  Admins = {a1}
  Fillers = {f1}
  Servers = {s1, s2}
  Coordinators <- MCCoordinators
  Seed = s0
  None = None
  Buckets <- MCBuckets
  Partitioned <- MCPartitioned
  Schemas <- MCSchemas
  ChangeBound = 1
SYMMETRY ServerSymmetry
SPECIFICATION Spec
INVARIANTS
  TypeOK
  CallsAccountedFor
  RowsKeepTheirTable
