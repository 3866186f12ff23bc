\* One policy of two forms, others that come to have families refused, one control
\* plane, one resource.
SPECIFICATION FairSpec
CONSTANTS
  c1 = c1
  g1 = g1
  n1 = n1
  n2 = n2
  Cluster = {c1}
  GVR = {g1}
  Refused = {n1, n2}
  SpecForm <- Forms
  OtherForm <- Others
  Absent = Absent
  MaxGeneration = 2
  MaxLag = 1
INVARIANTS
  TypeOK
  RestsCoherent
  RestsRegistered
PROPERTIES
  StatusConverges
