SPECIFICATION FairSpec
CONSTANTS
    NumNavigations = 2
    NumNotes = 1
    Requests = {1}
    Configs <- MCConfigs
INVARIANTS
    OrdinalsFollowEvents
    NavigationIsNotStale
PROPERTIES
    RecordsInOpenVisit
    RequestsAreSaved
CHECK_DEADLOCK FALSE
