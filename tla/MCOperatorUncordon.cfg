CONSTANTS
    n1 = n1
    k1 = k1
    Node = {n1}
    KubeNode = {n1}
    KubeNodeName <- MCNames
    GPUNode = {}
    Pod = {}
    MachineCrash = FALSE
    Runner = {n1}
    StorageGate = TRUE
    TalosProbe = TRUE
    Matches <- MCMatches
    NoNode = NoNode
    Eligible = {n1}
    Created = {"unset", "Off"}
    Deletion = TRUE
    MaxConcurrent = 1
    MaxGeneration = 2
SPECIFICATION Spec
PROPERTY UncordonOnlyUp
CHECK_DEADLOCK FALSE
