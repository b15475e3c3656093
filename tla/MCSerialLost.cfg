\* A request is taken from the queue and its write fails.
SPECIFICATION Spec
CONSTANTS
    WriteQueue = 2
    ReadQueue = 1
    StreamSize = 1
    FirstAttempts = 2
    Workers = 2
    Writes = 2
    Reads = 4
    Faults = 2
CHECK_DEADLOCK FALSE
INVARIANTS
    EveryDropIsCounted
