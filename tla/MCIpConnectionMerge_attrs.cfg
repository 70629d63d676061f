CONSTANTS
    k1 = k1
    k2 = k2
    a1 = a1
    a2 = a2
    Keys <- MCKeys
    Addrs <- MCAddrs
    TS <- MCTS
    MaxBatch = 3

SPECIFICATION Spec
\* A batch is finite: the fold stops after its last node.
CHECK_DEADLOCK FALSE
INVARIANT IdentifyingAttributesAgree
