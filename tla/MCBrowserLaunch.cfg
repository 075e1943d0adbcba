SPECIFICATION FairSpec
CONSTANTS
    MaxSpawns = 3
    SpawnLimit = 2
    SpawnTimeout = 1
    ReapAge = 2
    Xvfb = TRUE
    ProfileArchived = TRUE
INVARIANTS
    OneBrowserManager
    ProfileIsClosedForArchive
    ProfileSinceReset
PROPERTIES
    WatchdogSparesTheLiving
    OrphansAreReaped
CHECK_DEADLOCK FALSE
