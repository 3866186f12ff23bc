\* One control plane that may become unreachable.
SPECIFICATION FairSpec
CONSTANTS
  c1 = c1
  c2 = c2
  r1 = r1
  o1 = o1
  o2 = o2
  i1 = i1
  i2 = i2
  none = none
  forEach1 = forEach1
  value1 = value1
  label1 = label1
  itemLabel = itemLabel
  broken = broken
  Expr = {}
  Broken = {}
  UsesItem = {}
  None = none
  Cluster = {c1}
  Outages = {c1}
  Resource = {r1}
  Object = {o1}
  Stores = {{o1}}
  Item = {i1, i2}
  ItemsOf <- NoItems
  Name = {"a", "b"}
  Family = {"a"}
  Policies <- SmallRegistry
  Faults = {{}}
  MaxEvals = 1
PROPERTY UnreachableIsReported
