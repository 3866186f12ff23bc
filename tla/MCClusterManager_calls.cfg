\* One cluster, two callers, and two collectors that take turns.
SPECIFICATION FairSpec
CONSTANTS
  n1 = n1
  c1 = c1
  c2 = c2
  e1 = e1
  e2 = e2
  Name = {n1}
  Collector = {c1, c2}
  Call = {e1, e2}
  Disengaging = TRUE
  None = None
INVARIANTS
  TypeOK
  NoOrphan
  NoLostWake
PROPERTIES
  EditsReachCollectors
