\* A program keys, its claim is lost, it leaves.
SPECIFICATION Spec
CONSTANTS
    c1 = c1
    c2 = c2
    Clients = {c1, c2}
    NoOwner = nobody
    ClientOps = {"key", "cw", "unkey", "stop"}
    Persistent = {}
    Budget = 2
    Faults = 0
    Aborts = 0
CHECK_DEADLOCK FALSE
INVARIANTS
    SenderGoneIsQuiet
