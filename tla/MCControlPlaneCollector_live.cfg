\* One policy and one resource: what the collector must eventually do.
SPECIFICATION FairSpec
CONSTANTS
  g1 = g1
  g2 = g2
  a = a
  b = b
  i1 = i1
  i2 = i2
  i3 = i3
  GVR = {g1}
  Field = {a, b}
  Policy = {p1}
  CompiledPolicy <- SinglePolicies
  Informer = {i1, i2}
  NoEntry = NoEntry
  Denied = Denied
PROPERTIES
  StopTerminates
  Converges
