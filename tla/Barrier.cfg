CONSTANTS
  m1 = m1  m2 = m2
  r1 = r1  r2 = r2
  Mutations = {m1, m2}
  Reads = {r1, r2}
  Server = Server
SPECIFICATION FairSpec
INVARIANTS
  TypeOK
  BarrierHolds
  NoMissedWakeup
PROPERTIES
  ImplementsReadBarrier
  ReadsAnswered
  DrainEnds
  AcceptedMutationSettles
