\* Two policies, two resources; one informer more than the resources, for the
\* one startInformer brings up.
SPECIFICATION Spec
CONSTANTS
  g1 = g1
  g2 = g2
  a = a
  b = b
  i1 = i1
  i2 = i2
  i3 = i3
  GVR = {g1, g2}
  Field = {a, b}
  Policy = {p1, p2}
  CompiledPolicy <- SharedPolicies
  Informer = {i1, i2, i3}
  NoEntry = NoEntry
  Denied = Denied
SYMMETRY InformerSymmetry
INVARIANTS
  TypeOK
  NoLeakedInformer
  CacheCoversFields
  RestsInAgreement
  RestsWithFullObjects
PROPERTIES
  ServiceContinues
  ImplementsCollection
