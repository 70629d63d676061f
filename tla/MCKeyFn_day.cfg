CONSTANTS
    Instants <- MCInstants
    MaxKeys = 3

SPECIFICATION Spec
INVARIANT SameDaySamePrefix
