CONSTANTS
    k1 = k1
    k2 = k2
    n1 = n1
    n2 = n2
    Empty = Empty
    Keys <- MCKeys
    Names <- MCNames
    Inodes <- MCInodes
    TS <- MCTS
    Width = 2
    MaxBatch = 3

SPECIFICATION Spec
\* A batch is finite: the fold stops after its last node.
CHECK_DEADLOCK FALSE
INVARIANT InodeIsFirstNonZero
