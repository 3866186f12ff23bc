\* Expressions of any shape.
SPECIFICATION Spec
CONSTANTS
  Name <- Names
  Trees <- AllTrees
  Depth <- AllDepths
  Exprs <- AnyExprs
  Objects <- SmallObjects
  Others <- OtherPaths
  MaxBytes = 3
INVARIANT AlwaysAgrees
CHECK_DEADLOCK FALSE
