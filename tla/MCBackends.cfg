CONSTANTS
    MaxCalls = 4
SPECIFICATION FairSpec
INVARIANTS
    TypeOK
    ClearWasTrue
    NoLeak
PROPERTY OperationEnds
