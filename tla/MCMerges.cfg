CONSTANTS
    k1 = k1
    k2 = k2
    a1 = a1
    a2 = a2
    h1 = h1
    h2 = h2
    n1 = n1
    n2 = n2
    p1 = p1
    p2 = p2
    v1 = v1
    v2 = v2
    None = None
    Empty = Empty
    Absent = Absent

SPECIFICATION Spec
\* A batch is finite: the fold stops after its last node.
CHECK_DEADLOCK FALSE
INVARIANT IpUpperBoundsAreMax
INVARIANT InboundOptionalIsFirstPresent
INVARIANT FileNameIsFirstNonEmpty
INVARIANT DynamicLastWriteWins
INVARIANT RemergeIsIdempotent
