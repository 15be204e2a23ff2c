SPECIFICATION Spec
CONSTANTS
    W = 2
    NoKey = NoKey
    Key <- MergeKeys
    Merge <- MergeMerge
    Inserts <- MergeInserts
    Options <- MergeOptions
    V4Root <- MergeRoot
    Aliases <- MergeAliases
    Reserved <- MergeReserved
INVARIANTS
    TypeOK
    Shape
    CountsExact
    DataStored
    NothingLeft
PROPERTIES
    ImplementsMap
