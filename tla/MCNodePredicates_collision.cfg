CONSTANTS
    k1 = k1
    h1 = h1
    None = None
    Absent = Absent
    Keys <- MCKeys
    Strs <- MCStrs
    Nums <- MCNums
    Width = 2
    PropNames <- MCPropNames
    StrProps <- MCStrProps
    IntProps <- MCIntProps
    Assets <- MCAssets
    Varied <- MCVaried
    MaxNodes = 2

SPECIFICATION Spec
\* At most MaxNodes nodes are materialised.
CHECK_DEADLOCK FALSE
INVARIANT IdentitiesDistinguishPredicates
