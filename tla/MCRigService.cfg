\* Callers compete for one emergency slot while the transmit state is polled ahead of commands.
SPECIFICATION Spec
CONSTANTS
    c1 = c1
    c2 = c2
    c3 = c3
    Clients = {c1, c2, c3}
    NoClient = nobody
    ClientOps = {"key", "unkey", "stop"}
    EmergencyQueue = 1
    QueueCapacity = 2
    UnkeyAttempts = 1
    Attempts = 1
    SetReply = "ack"
    PttPolled = TRUE
    Supervised = FALSE
    SessionRequests = 0
    MaxWire = 1
    Budget = 1
    Faults = 0
    GateMoves = 2
    MaxGeneration = 1
    PanelMoves = 0
    Transceive = FALSE
SYMMETRY ClientSymmetry
CHECK_DEADLOCK FALSE
PROPERTIES
    ServiceKept
