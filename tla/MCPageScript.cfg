SPECIFICATION ScriptFairSpec
CONSTANTS
    Orders <- MCOrders
    Scripts <- MCSite
    maxLogCount = 1
    NumAccesses = 3
INVARIANTS
    AskedIsWatched
    ReadsAsWritten
    RecordedOnce
PROPERTIES
    RecordsArrive
CHECK_DEADLOCK FALSE
