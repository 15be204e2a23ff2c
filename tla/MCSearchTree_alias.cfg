SPECIFICATION Spec
CONSTANTS
    W = 4
    NoKey = NoKey
    Key <- AliasKeys
    Merge <- AliasMerge
    Inserts <- AliasInserts
    Options <- AliasOptions
    V4Root <- AliasRoot
    Aliases <- AliasAliases
    Reserved <- AliasReserved
INVARIANTS
    FixedPath
    Trimmed
    LookupEndsAtLeaf
    AliasesAgree
PROPERTIES
    FixedForever
    ImplementsMap
    CallsReturn
