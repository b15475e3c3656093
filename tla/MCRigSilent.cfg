\* A rig that acknowledges no set; Morse is sent and stopped.
SPECIFICATION Spec
CONSTANTS
    c1 = c1
    c2 = c2
    Clients = {c1, c2}
    NoClient = nobody
    ClientOps = {"key", "cw", "stop", "unkey"}
    EmergencyQueue = 2
    QueueCapacity = 2
    UnkeyAttempts = 2
    Attempts = 2
    SetReply = "none"
    PttPolled = FALSE
    Supervised = FALSE
    SessionRequests = 0
    MaxWire = 2
    Budget = 2
    Faults = 0
    GateMoves = 1
    MaxGeneration = 1
    PanelMoves = 0
    Transceive = FALSE
SYMMETRY ClientSymmetry
CHECK_DEADLOCK FALSE
INVARIANTS
    AckedKeyIsWatched
