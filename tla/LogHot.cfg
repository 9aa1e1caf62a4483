CONSTANTS
  r1 = r1  r2 = r2  r3 = r3  g1 = g1  g2 = g2
  p1 = p1  p2 = p2
  NoTask = NoTask
  Recalls = {r1}
  Gardeners = {}
  Processes = {p1}
  ProcOf <- OneProcess
  Trigger = 2
  Retained = 6
  Window = 1
  Cancelling = FALSE
  Inodes = {1, 2, 3}
  MaxPage = 2
  MaxAccesses = 6
  MaxDay = 0
  MaxTears = 0
  MaxCancels = 0
SPECIFICATION Spec
CHECK_DEADLOCK FALSE
PROPERTIES
  CompactionMakesRoom
