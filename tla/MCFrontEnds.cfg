CONSTANTS
    n1 = n1
    k1 = k1
    Node = {n1}
    KubeNode = {k1}
    KubeNodeName <- MCNames
    GPUNode = {}
    Pod = {p1}
    MachineCrash = FALSE
    Runner = {r1, s1}
    Connection = {r1}
    Shell = {s1}
    StorageGate = TRUE
    TalosProbe = TRUE
    Matches <- MCMatches
    NoNode = NoNode
    UnknownNode = UnknownNode
SPECIFICATION FEFairSpec
INVARIANTS
    FETypeOK
    SuccessHolds
    FailedDrainStaysCordoned
PROPERTIES
    ShutdownSafeUnlocked
    ExitCodeTrue
    RequestAnswered
