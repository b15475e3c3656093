\* A power operation or a new transport that never answers, under a press (violated).
SPECIFICATION FairSpec
CONSTANTS
    monitor = monitor
    u1 = u1
    Monitor = monitor
    Users = {u1}
    None = none
    Presses = 1
    Moves = 1
    Refusals = 1
CHECK_DEADLOCK FALSE
PROPERTIES
    PressBounded
