\* Three callers contend for one emergency slot: counter, waiters, wake-up, and what each caller is promised.
SPECIFICATION Spec
CONSTANTS
    c1 = c1
    c2 = c2
    c3 = c3
    Clients = {c1, c2, c3}
    NoClient = nobody
    ClientOps = {"key", "unkey", "stop", "tune"}
    EmergencyQueue = 1
    QueueCapacity = 2
    UnkeyAttempts = 1
    Attempts = 1
    SetReply = "ack"
    PttPolled = FALSE
    Supervised = FALSE
    SessionRequests = 0
    MaxWire = 1
    Budget = 1
    Faults = 0
    GateMoves = 1
    MaxGeneration = 1
    PanelMoves = 1
    Transceive = TRUE
SYMMETRY ClientSymmetry
CHECK_DEADLOCK FALSE
INVARIANTS
    PendingIsExact
    NobodyForgotten
    EmergencyIsHeard
PROPERTIES
    ServiceKept
