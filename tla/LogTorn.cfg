CONSTANTS
  r1 = r1  r2 = r2  r3 = r3  g1 = g1  g2 = g2
  p1 = p1  p2 = p2
  NoTask = NoTask
  Recalls = {r1, r2}
  Gardeners = {g1}
  Processes = {p1, p2}
  ProcOf <- TwoProcesses
  Trigger = 1
  Retained = 2
  Window = 0
  Cancelling = TRUE
  Inodes = {1, 2, 3, 4, 5}
  MaxPage = 2
  MaxAccesses = 2
  MaxDay = 0
  MaxTears = 1
  MaxCancels = 1
SPECIFICATION FairSpec
CHECK_DEADLOCK FALSE
INVARIANTS
  TornLineCostsOne
PROPERTIES
  EveryoneReturns
