\* The reserved poll takes the wake-up, the command behind it is served.
SPECIFICATION Spec
CONSTANTS
    c1 = c1
    c2 = c2
    Clients = {c1, c2}
    NoClient = nobody
    ClientOps = {"unkey", "tune"}
    EmergencyQueue = 2
    QueueCapacity = 2
    UnkeyAttempts = 2
    Attempts = 2
    SetReply = "ack"
    PttPolled = TRUE
    Supervised = FALSE
    SessionRequests = 0
    MaxWire = 2
    Budget = 2
    Faults = 0
    GateMoves = 2
    MaxGeneration = 1
    PanelMoves = 0
    Transceive = FALSE
SYMMETRY ClientSymmetry
CHECK_DEADLOCK FALSE
INVARIANTS
    EmergencyIsHeard
