SPECIFICATION WriteSpec
CONSTANTS
    W = 3
    NoKey = NoKey
    Key <- MCKeys
    Merge <- MCMerge
    Inserts <- MCInserts
    Options <- MCOptions
    V4Root <- MCRoot
    Aliases <- MCAliases
    Reserved <- MCReserved
    Size <- MCSize
    PointerSize = 1
    MaxRecord = 23
    Word = 24
    WriteLimit = 2
    NestLimit = 0
INVARIANTS
    PointersPastTheTree
