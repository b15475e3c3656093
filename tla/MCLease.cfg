\* Two leases overlap; an aborted timer completes before or after the drop looks at it.
SPECIFICATION FairSpec
CONSTANTS
    l1 = l1
    l2 = l2
    Leases = {l1, l2}
    None = none
    Calls = 1
CHECK_DEADLOCK FALSE
INVARIANTS
    GateHasLease
    AirHasUnkey
    EndedMeansUnkeyed
PROPERTIES
    BoundedTransmission
