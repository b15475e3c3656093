\* One worker: the blocking send of the Shutdown keeps the downlink from running.
SPECIFICATION FairSpec
CONSTANTS
    WriteQueue = 1
    ReadQueue = 1
    StreamSize = 1
    FirstAttempts = 2
    Workers = 1
    Writes = 2
    Reads = 4
    Faults = 2
CHECK_DEADLOCK FALSE
PROPERTIES
    SupervisorMovesOn
