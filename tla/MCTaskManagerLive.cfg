SPECIFICATION FairSpec
CONSTANTS
    NumBrowsers = 1
    UserCommands = 0
    CommandSequences <- MCTwo
    Resets <- MCOne
    Blocking <- MCOne
    Callbacks <- MCTwo
    FailureLimit = 1
    ProfileLimited = TRUE
    ProfileArchived = FALSE
    MemoryWatchdog = FALSE
    DumpsFail = TRUE
    ForcedClose = FALSE
PROPERTIES
    ShutdownEnds
    ImplementsVisitLifecycle
CHECK_DEADLOCK FALSE
