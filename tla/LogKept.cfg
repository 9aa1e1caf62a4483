CONSTANTS
  r1 = r1  r2 = r2  r3 = r3  g1 = g1  g2 = g2
  p1 = p1  p2 = p2
  NoTask = NoTask
  Recalls = {r1, r2}
  Gardeners = {g1}
  Processes = {p1}
  ProcOf <- OneProcess
  Trigger = 2
  Retained = 3
  Window = 1
  Cancelling = FALSE
  Inodes = {1, 2, 3, 4}
  MaxPage = 2
  MaxAccesses = 5
  MaxDay = 2
  MaxTears = 1
  MaxCancels = 0
SPECIFICATION Spec
CHECK_DEADLOCK FALSE
SYMMETRY Symmetry
INVARIANTS
  TypeOK
  SectionIsLocked
  RecentAccessesKept
PROPERTIES
  LogBounded
