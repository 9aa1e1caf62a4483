CONSTANTS
  p1 = p1  p2 = p2
  t1 = t1  t2 = t2  t3 = t3
  i1 = i1  i2 = i2  i3 = i3
  f1 = f1  f2 = f2
  None = None
  Procs = {p1, p2}
  Tasks = {t1, t3}
  ProcOf <- OneTaskEach
  Ids = {i1, i2}
  Facts = {f1}
  InitIds = {i1}
  ProjectIds = {}
  VolatileIds = {}
  Kinds = {"write", "publish", "rebuild", "archive"}
  Modes = {"archived"}
  MaxFacts = 1
  MaxPieces = 2
  Capacity = 1
  MaxArchivals = 1
  MaxOps = 3
SPECIFICATION Spec
INVARIANTS
  MarkerVouchesForIndexes
  SuccessIsFresh
PROPERTIES
  RefinesVersionedScope
