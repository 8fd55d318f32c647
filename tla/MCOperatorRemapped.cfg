CONSTANTS
    n1 = n1
    k1 = k1
    Node = {n1}
    KubeNode = {n1, k1}
    KubeNodeName <- MCRemapped
    GPUNode = {}
    Pod = {p1}
    MachineCrash = FALSE
    Runner = {n1}
    StorageGate = TRUE
    TalosProbe = TRUE
    Matches <- MCMatches
    NoNode = NoNode
    Eligible = {n1}
    Created = {"unset", "Off"}
    Deletion = TRUE
    MaxConcurrent = 1
    MaxGeneration = 1
SPECIFICATION Spec
PROPERTY ShutdownOnlyDrained
CHECK_DEADLOCK FALSE
