SPECIFICATION Spec
CONSTANTS
    NumBrowsers = 1
    UserCommands = 1
    CommandSequences <- MCTwo
    Resets <- MCOne
    Blocking <- MCOne
    Callbacks <- MCOne
    FailureLimit = 1
    ProfileLimited = FALSE
    ProfileArchived = TRUE
    MemoryWatchdog = TRUE
    DumpsFail = FALSE
    ForcedClose = TRUE
INVARIANTS
    AnswersBelongToCommands
    OneProcessPerVisit
    SuccessMeansAllCommands
    CloseLeavesNothing
    ResetIsolatesVisits
CHECK_DEADLOCK FALSE
