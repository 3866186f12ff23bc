\* As cmd/main.go wires it: nothing calls Disengage.
SPECIFICATION Spec
CONSTANTS
  n1 = n1
  c1 = c1
  c2 = c2
  e1 = e1
  e2 = e2
  Name = {n1}
  Collector = {c1, c2}
  Call = {e1, e2}
  Disengaging = FALSE
  None = None
INVARIANTS
  EngagedIsCollected
