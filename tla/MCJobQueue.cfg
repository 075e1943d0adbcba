SPECIFICATION FairSpec
CONSTANTS
    Jobs <- MCOneJob
    Workers <- MCWorkers
    Mortal <- MCMortal
    MaxRetries = 1
    MaxUnsaved = 1
INVARIANTS
    JobInOnePlace
    EndedMeansEmpty
PROPERTIES
    CrawlEnds
CHECK_DEADLOCK FALSE
