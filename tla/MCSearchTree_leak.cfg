SPECIFICATION Spec
CONSTANTS
    W = 2
    NoKey = NoKey
    Key <- CroakKeys
    Merge <- CroakMerge
    Inserts <- CroakInserts
    Options <- MergeOptions
    V4Root <- MergeRoot
    Aliases <- MergeAliases
    Reserved <- MergeReserved
INVARIANTS
    NothingLeft
