\* Two policies that may differ on the help text of a family.
SPECIFICATION FairSpec
CONSTANTS
  p1 = p1
  p2 = p2
  n1 = n1
  h1 = h1
  h2 = h2
  Policy = {p1, p2}
  Name = {n1}
  Help = {h1, h2}
  Refused = {}
  Policies <- Disagreeing
PROPERTIES
  IdentitySettles
