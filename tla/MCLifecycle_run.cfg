\* Two policies that may disagree, two families the SDK accepts and one it
\* refuses, and two workers besides the drain. The process may end.
SPECIFICATION FairLSpec
CHECK_DEADLOCK FALSE
CONSTANTS
  p1 = p1
  p2 = p2
  good1 = good1
  good2 = good2
  bad = bad
  h1 = h1
  h2 = h2
  w1 = w1
  w2 = w2
  Policy = {p1, p2}
  Name = {good1, good2, bad}
  Help = {h1, h2}
  Refused = {bad}
  Policies <- Forms
  Worker = {w1, w2}
INVARIANTS
  LTypeOK
  CallbacksAreTracked
  FamiliesFollowRegistry
PROPERTIES
  AgreedStays
  SyncEnds
  EndsWithManager
