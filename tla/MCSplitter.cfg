\* Programs share one transmitter: claims, refusals, polls, silence, departures, an abort.
SPECIFICATION FairSpec
CONSTANTS
    c1 = c1
    c2 = c2
    Clients = {c1, c2}
    NoOwner = nobody
    ClientOps = {"key", "cw", "unkey"}
    Persistent = {c2}
    Budget = 2
    Faults = 1
    Aborts = 1
CHECK_DEADLOCK FALSE
INVARIANTS
    OneTransmitter
    RefusedKeyHoldsNothing
    OwnerGoneIsQuiet
PROPERTIES
    SilentLetGo
