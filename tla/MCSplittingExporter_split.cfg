\* Cycles of up to two scopes, two metrics and two points, of which one fits a
\* request only alone, or not even then.
SPECIFICATION FairSpec
CONSTANTS
    MaxBytes = 9
    ResourceSize = 1
    PointSizes = {2, 7}
    MaxPoints = 2
    MaxMetrics = 2
    MaxScopes = 2
    Source <- SmallCycles
INVARIANTS
    TypeOK
    KeepsEveryPoint
    FitsOrAlone
    ScopesEntered
    RequestsAreFull
PROPERTY Terminates
