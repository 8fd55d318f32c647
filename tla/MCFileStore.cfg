CONSTANTS
    c1 = c1
    c2 = c2
    Client = {c1, c2}
    TTL = 1
    MaxTime = 2
    MaxIssued = 2
    None = None
    Torn = Torn
SPECIFICATION FairSpec
INVARIANTS
    TypeOK
    ExclusionWithoutOverlap
    NoLostUpdate
    NeverTorn
PROPERTIES
    ImplementsRecord
    CallReturns
CHECK_DEADLOCK FALSE
