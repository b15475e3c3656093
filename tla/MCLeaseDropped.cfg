\* Another worker completes an aborted timer between the abort and the look of a drop.
SPECIFICATION Spec
CONSTANTS
    l1 = l1
    l2 = l2
    Leases = {l1, l2}
    None = none
    Calls = 1
CHECK_DEADLOCK FALSE
INVARIANTS
    LeaseEndCloses
