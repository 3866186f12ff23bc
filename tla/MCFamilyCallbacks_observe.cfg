\* Two control planes, two policies, two families; the budget is enough for one
\* control plane with one object and not for all.
SPECIFICATION FairSpec
CONSTANTS
  c1 = c1
  c2 = c2
  r1 = r1
  o1 = o1
  o2 = o2
  i1 = i1
  i2 = i2
  none = none
  forEach1 = forEach1
  value1 = value1
  label1 = label1
  itemLabel = itemLabel
  broken = broken
  Expr = {forEach1, value1, label1, itemLabel, broken}
  Broken = {broken}
  UsesItem = {itemLabel}
  None = none
  Cluster = {c1, c2}
  Outages = {c1}
  Resource = {r1}
  Object = {o1, o2}
  Stores = {{o1, o2}}
  Item = {i1, i2}
  ItemsOf <- Items
  Name = {"a", "b"}
  Family = {"a"}
  Policies <- Registries
  Faults <- SomeFaults
  MaxEvals = 12
INVARIANTS
  TypeOK
  ObservesOnlyAsked
  ObservesAllAsked
  SignalsExhaustion
PROPERTY CallbackReturns
