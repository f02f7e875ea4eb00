SPECIFICATION Spec
CONSTANTS
    Change = {k1, k2}
    Foreign = {}
    EVENT_HISTORY_LIMIT = 2
    BroadcastCapacity = 2
    SEQ_RECOVERY_OFFSET = 2
    Workers = 2
    InitialSeq = 1
    MaxCrashes = 1
PROPERTIES
    ClientCatchesUp
