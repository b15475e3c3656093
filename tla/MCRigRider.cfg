\* An unkey finds the queue full, the queue drains, the unkey starts to wait.
SPECIFICATION Spec
CONSTANTS
    c1 = c1
    c2 = c2
    Clients = {c1, c2}
    NoClient = nobody
    ClientOps = {"key", "unkey"}
    EmergencyQueue = 1
    QueueCapacity = 2
    UnkeyAttempts = 2
    Attempts = 2
    SetReply = "ack"
    PttPolled = FALSE
    Supervised = FALSE
    SessionRequests = 0
    MaxWire = 2
    Budget = 2
    Faults = 1
    GateMoves = 2
    MaxGeneration = 1
    PanelMoves = 0
    Transceive = FALSE
SYMMETRY ClientSymmetry
CHECK_DEADLOCK FALSE
INVARIANTS
    RiderIsServed
