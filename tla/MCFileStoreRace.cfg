CONSTANTS
    c1 = c1
    c2 = c2
    Client = {c1, c2}
    TTL = 2
    MaxTime = 3
    MaxIssued = 1
    None = None
    Torn = Torn
SPECIFICATION Spec
SYMMETRY ClientSymmetry
INVARIANT MutualExclusion
CHECK_DEADLOCK FALSE
