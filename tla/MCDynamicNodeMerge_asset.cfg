CONSTANTS
    k1 = k1
    k2 = k2
    p1 = p1
    p2 = p2
    v1 = v1
    v2 = v2
    h1 = h1
    Absent = Absent
    None = None
    Keys <- MCKeys
    Names <- MCNames
    Vals <- MCVals
    Assets <- MCAssets
    MaxBatch = 3

SPECIFICATION Spec
\* A batch is finite: the fold stops after its last node.
CHECK_DEADLOCK FALSE
INVARIANT AssetIdFilled
