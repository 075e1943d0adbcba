SPECIFICATION Spec
CONSTANTS
    v1 = v1
    v2 = v2
    v3 = v3
    h1 = h1
    h2 = h2
    b1 = b1
    b2 = b2
    Partial = Partial
    Providers <- MCProviders
    Visits <- MCVisits
    CrawlOf <- MCCrawlOf
    Records <- MCRecords
    Unsupported <- MCUnsupported
    Contents <- MCContents
    LDB_BATCH_SIZE = 2
INVARIANTS
    FinalizedIsSaved
    ContentIsKept
CHECK_DEADLOCK FALSE
