\* A network link: attempts fail, handshakes stall, wires are lost, the caller goes.
SPECIFICATION FairSpec
CONSTANTS
    StreamSize = 2
    FirstAttempts = 2
    Writes = 3
    Reads = 3
    Faults = 3
CHECK_DEADLOCK FALSE
INVARIANTS
    WritesAccounted
PROPERTIES
    LinkContract
