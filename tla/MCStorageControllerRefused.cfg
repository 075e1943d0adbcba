SPECIFICATION Spec
CONSTANTS
    Visits <- MCVisits
    Conns <- MCConns
    Tables <- MCTables
    Messages <- MCMessages
    Invalid <- MCInvalid
    CacheSize = 1
INVARIANTS
    SuccessMeansDataSaved
CHECK_DEADLOCK FALSE
