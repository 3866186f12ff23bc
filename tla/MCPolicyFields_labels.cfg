\* Expressions that name the fields they read.
SPECIFICATION Spec
CONSTANTS
  Name <- Names
  Trees <- AllTrees
  Depth <- AllDepths
  Exprs <- SpelledOutExprs
  Objects <- SmallObjects
  Others <- OtherPaths
  MaxBytes = 3
INVARIANTS
  TypeOK
  RequiredFieldsAreRead
  TrimKeepsPaths
  SpelledOutAgrees
  LabelKeepsCharacters
CHECK_DEADLOCK FALSE
