\* A serial port is lost twice under two requests; the reader finds every queue full; the caller stops reading, or goes.
SPECIFICATION FairSpec
CONSTANTS
    WriteQueue = 2
    ReadQueue = 1
    StreamSize = 1
    FirstAttempts = 2
    Workers = 2
    Writes = 2
    Reads = 4
    Faults = 2
CHECK_DEADLOCK FALSE
INVARIANTS
    NothingOvertakes
    WritesAccounted
    ControlIsCurrent
PROPERTIES
    LinkContract
    SupervisorMovesOn
