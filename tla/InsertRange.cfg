SPECIFICATION Spec
CONSTANTS
    M = 5
    W4 = 3
INVARIANTS
    CoversTheRange
    LargestNetworksOnce
    AtMostTwoPerBit
\* insert_range returns
CHECK_DEADLOCK FALSE
