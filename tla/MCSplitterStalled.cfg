\* A program that keyed falls silent and takes no more of what it is sent.
SPECIFICATION FairSpec
CONSTANTS
    c1 = c1
    c2 = c2
    Clients = {c1, c2}
    NoOwner = nobody
    ClientOps = {"key", "unkey"}
    Persistent = {c2}
    Budget = 2
    Faults = 0
    Aborts = 0
CHECK_DEADLOCK FALSE
PROPERTIES
    NobodyHoldsForEver
