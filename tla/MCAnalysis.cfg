SPECIFICATION AnalysisSpec
CONSTANTS
    Databases <- MCDatabases
    Selections <- MCSelections
    FirstParties <- MCFirstParties
    EnumLimit = 2
    FontLimit = 2
    Missing = Missing
    Unparsable = Unparsable
INVARIANTS
    ResultsAreOfTheirRows
    TableSaysWhatWasFound
CHECK_DEADLOCK FALSE
