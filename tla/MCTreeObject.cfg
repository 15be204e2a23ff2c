SPECIFICATION ObjectSpec
CONSTANTS
    Object = {o1, o2}
    Handle = {h1, h2}
    Given <- MCGiven
    Overrides <- MCOverrides
    OldFiles <- MCOldFiles
    Named <- MCNamed
    Options <- MCOptions
    NewLimit = 1
    LastSecond = 1
SYMMETRY Symmetry
INVARIANTS
    TypeOK
    MetadataDescribesTree
    MergesAsDocumented
    InsertsNamedNetwork
PROPERTIES
    ThawedObjectIsFrozenObject
    FreedWithItsObject
    OldFilesKeepTheirFlag
CHECK_DEADLOCK FALSE
