SPECIFICATION SerializerSpec
CONSTANTS
    Data <- MCThresholdData
    CallLimit = 1
INVARIANTS
    StoredDataDecodes
CHECK_DEADLOCK FALSE
