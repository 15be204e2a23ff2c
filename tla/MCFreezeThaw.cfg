SPECIFICATION FreezeSpec
CONSTANTS
    W = 3
    NoKey = NoKey
    Key <- MCKeys
    Merge <- MCMerge
    Inserts <- MCInserts
    Options <- MCOptions
    V4Root <- MCRoot
    Aliases <- MCAliases
    Reserved <- MCReserved
    CountLimit = 5
INVARIANTS
    NeverReplacesOnThaw
PROPERTIES
    ThawedTreeIsFrozenTree
    ThawFailsOnlyAfterLeak
