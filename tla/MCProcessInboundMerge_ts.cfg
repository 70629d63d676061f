CONSTANTS
    k1 = k1
    k2 = k2
    i1 = i1
    i2 = i2
    h1 = h1
    h2 = h2
    None = None
    Keys <- MCKeys
    Addrs <- MCAddrs
    Assets <- MCAssets
    TS <- MCTS
    MaxBatch = 3

SPECIFICATION Spec
\* A batch is finite: the fold stops after its last node.
CHECK_DEADLOCK FALSE
INVARIANT TimestampsAreMinMax
