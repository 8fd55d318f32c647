CONSTANTS
    n1 = n1
    k1 = k1
    Node = {n1}
    KubeNode = {n1}
    KubeNodeName <- MCNames
    GPUNode = {}
    Pod = {}
    MachineCrash = TRUE
    Runner = {n1}
    StorageGate = TRUE
    TalosProbe = TRUE
    Matches <- MCMatches
    NoNode = NoNode
    Eligible = {n1}
    Created = {"Off"}
    Deletion = FALSE
    MaxConcurrent = 1
    MaxGeneration = 2
SPECIFICATION FairSpec
PROPERTIES
    ConvergesOff
    ConvergesOn
    StatusSettles
CHECK_DEADLOCK FALSE
