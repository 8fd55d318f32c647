CONSTANTS
    n1 = n1
    k1 = k1
    r1 = r1
    r2 = r2
    Node = {n1}
    KubeNode = {k1}
    KubeNodeName <- MCNames
    GPUNode = {n1}
    Pod = {}
    MachineCrash = FALSE
    Runner = {r1}
    Connection = {r1}
    StorageGate = TRUE
    TalosProbe = TRUE
    Matches <- MCMatches
    NoNode = NoNode
    UnknownNode = UnknownNode
SPECIFICATION Spec
PROPERTY ExitOnlyDrained
