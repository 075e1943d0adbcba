SPECIFICATION CommandsSpec
CONSTANTS
    f1 = f1
    f2 = f2
    f3 = f3
    f4 = f4
    Frames = {f1, f2, f3, f4}
    Trees <- MCTrees
    Top = Top
    MaxDepth = 2
    MaxDumps = 2
    Visits = 2
    Handles = 7
    PagesLeave = FALSE
    PagesArriveLate = FALSE
    ScreenVisits = 2
    ShotSuffixes = {"", "-a"}
    MaxCommands = 2
    Heights = {5}
    InnerHeight = 2
INVARIANTS
    PagesAreOfTheSession
    StableFramesAreDumped
    PicturesShowThePage
CHECK_DEADLOCK FALSE
