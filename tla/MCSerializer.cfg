SPECIFICATION SerializerSpec
CONSTANTS
    Data <- MCData
    CallLimit = 3
INVARIANTS
    StoredDataDecodes
    CacheHasCompleteValues
    CompleteValuesStoredOnce
    MisreadIsALongText
CHECK_DEADLOCK FALSE
