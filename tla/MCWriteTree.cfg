SPECIFICATION WriteSpec
CONSTANTS
    W = 3
    NoKey = NoKey
    Key <- MCKeys
    Merge <- MCMerge
    Inserts <- MCInserts
    Options <- MCOptions
    V4Root <- MCRoot
    Aliases <- MCAliases
    Reserved <- MCReserved
    Size <- MCSize
    PointerSize = 1
    MaxRecord = 25
    Word = 1000
    WriteLimit = 2
    NestLimit = 1
INVARIANTS
    ReaderFindsWhatLookupFinds
    NodesLieWhereNumbered
    DataStoredOnce
    NetworksInOrder
    DrawsTheTree
