CONSTANTS
    n1 = n1
    k1 = k1
    Node = {n1}
    KubeNode = {n1}
    KubeNodeName <- MCNames
    GPUNode = {}
    Pod = {p1}
    MachineCrash = FALSE
    Runner = {n1}
    StorageGate = TRUE
    TalosProbe = TRUE
    Matches <- MCMatches
    NoNode = NoNode
    Eligible = {n1}
    Created = {"unset", "Off"}
    Deletion = TRUE
    MaxConcurrent = 1
    MaxGeneration = 2
SPECIFICATION Spec
INVARIANTS
    TypeOK
    OffStatusTrue
    NoDisruptionUnasked
    SuccessHolds
    FailedDrainStaysCordoned
PROPERTIES
    ImplementsContract
    ShutdownOnlyDrained
    ShutdownOnlyDetached
CHECK_DEADLOCK FALSE
