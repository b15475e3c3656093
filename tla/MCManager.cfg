\* The monitor beside one user of the power button.
SPECIFICATION FairSpec
CONSTANTS
    monitor = monitor
    u1 = u1
    Monitor = monitor
    Users = {u1}
    None = none
    Presses = 1
    Moves = 1
    Refusals = 1
CHECK_DEADLOCK FALSE
INVARIANTS
    ReconcileCorrects
PROPERTIES
    LifecycleFollows
    Reconnects
    Settles
    PressEnds
