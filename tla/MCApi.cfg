CONSTANTS
    n1 = n1
    k1 = k1
    r1 = r1
    r2 = r2
    Node = {n1}
    KubeNode = {k1}
    KubeNodeName <- MCNames
    GPUNode = {n1}
    Pod = {p1}
    MachineCrash = TRUE
    Runner = {r1, r2}
    Connection = {r1, r2}
    StorageGate = TRUE
    TalosProbe = TRUE
    Matches <- MCMatches
    NoNode = NoNode
    UnknownNode = UnknownNode
SPECIFICATION Spec
SYMMETRY RunnerSymmetry
INVARIANTS
    TypeOK
    OneActuatorPerNode
    LockHasOwner
    SuccessHolds
    FailedDrainStaysCordoned
PROPERTIES
    PowerPulledDetached
    ShutdownOnlyDrained
