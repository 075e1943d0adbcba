SPECIFICATION FairSpec
CONSTANTS
    Conn <- MCConn
    Extensions <- MCExtensions
    Faulty <- MCFaulty
    NumRecords <- MCRecords
INVARIANTS
    WrittenInOrder
    ClosedMeansWritten
PROPERTIES
    CloseEnds
CHECK_DEADLOCK FALSE
