SPECIFICATION Spec
CONSTANTS
    CommandLines <- MCCommandLines
    Overlong <- MCOverlong
    StartingFiles <- MCStartingFiles
    RecordCapacity = 8
    StopCapacity = 1
    MaxEdits = 1
    Updates <- MCUpdates
    Copies = {"copy"}
INVARIANTS
    ZeroStrideIsWholeWindow
CHECK_DEADLOCK FALSE
