\* A serial port is lost, reopened or closed under the actor; every call and every transmission ends.
SPECIFICATION FairSpec
CONSTANTS
    c1 = c1
    c2 = c2
    Clients = {c1, c2}
    NoClient = nobody
    ClientOps = {"key", "unkey"}
    EmergencyQueue = 1
    QueueCapacity = 2
    UnkeyAttempts = 1
    Attempts = 2
    SetReply = "ack"
    PttPolled = FALSE
    Supervised = TRUE
    SessionRequests = 1
    MaxWire = 2
    Budget = 1
    Faults = 1
    GateMoves = 1
    MaxGeneration = 2
    PanelMoves = 0
    Transceive = FALSE
CHECK_DEADLOCK FALSE
INVARIANTS
    RestoredMeansUnkeyed
PROPERTIES
    EveryCallAnswered
    TransmissionEnds
