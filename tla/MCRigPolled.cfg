\* A rig that acknowledges no set is polled, ahead of commands too; the operator keys at the rig.
SPECIFICATION FairSpec
CONSTANTS
    c1 = c1
    Clients = {c1}
    NoClient = nobody
    ClientOps = {"key", "unkey", "cw", "stop"}
    EmergencyQueue = 2
    QueueCapacity = 2
    UnkeyAttempts = 2
    Attempts = 2
    SetReply = "none"
    PttPolled = TRUE
    Supervised = FALSE
    SessionRequests = 0
    MaxWire = 2
    Budget = 2
    Faults = 0
    GateMoves = 1
    MaxGeneration = 1
    PanelMoves = 1
    Transceive = FALSE
CHECK_DEADLOCK FALSE
PROPERTIES
    KeyedIsNoticed
