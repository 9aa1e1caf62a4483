CONSTANTS
  i1 = i1  i2 = i2
  P = P  Global = Global
  t1 = t1  t2 = t2  t3 = t3
  Absent = Absent
  Importers = {i1, i2}
  Topics = {t1, t2, t3}
  Projects = {P}
  ScopeOf <- TopicScopes
  IdOf <- TopicIds
  BatchSize = 1
  MaxWrites = 1
SPECIFICATION Spec
SYMMETRY Symmetry
INVARIANTS
  TypeOK
  RefusalIsJustified
PROPERTIES
  PublishedIsSnapshot
  NeverOverwrites
