SPECIFICATION FairSpec
CONSTANTS
    Visits <- MCVisits
    Conns <- MCConns
    Tables <- MCTables
    Messages <- MCMessages
    Invalid <- MCInvalid
    CacheSize = 1
INVARIANTS
    ReportImpliesSaved
    NoDoubleFinalization
    NoOrphanedRecord
    CleanShutdownSavesAll
PROPERTIES
    FinalizationIsReported
    ShutdownTerminates
    ImplementsVisitCompletion
CHECK_DEADLOCK FALSE
