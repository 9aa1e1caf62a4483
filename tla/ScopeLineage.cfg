CONSTANTS
  p1 = p1  p2 = p2
  t1 = t1  t2 = t2  t3 = t3
  i1 = i1  i2 = i2  i3 = i3
  f1 = f1  f2 = f2
  None = None
  Procs = {p1, p2}
  Tasks = {t1, t3}
  ProcOf <- OneTaskEach
  Ids = {i1, i2, i3}
  Facts = {f1}
  InitIds = {i1, i2}
  ProjectIds = {i1}
  VolatileIds = {i2}
  Kinds = {"write", "archive", "split", "consolidate", "merge", "purge", "contradict", "capacity", "expire"}
  Modes = {"active"}
  MaxFacts = 1
  MaxPieces = 2
  Capacity = 1
  MaxArchivals = 1
  MaxOps = 2
SPECIFICATION Spec
INVARIANTS
  IndexNeverDangles
  CapacityFloor
  Inv
PROPERTIES
  NoLostUpdate
  HiddenOnlyBySuccessor
