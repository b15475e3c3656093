\* A radio that was Unreachable answers again, without evidence that it is there (violated).
SPECIFICATION FairSpec
CONSTANTS
    monitor = monitor
    u1 = u1
    Monitor = monitor
    Users = {u1}
    None = none
    Presses = 1
    Moves = 1
    Refusals = 1
CHECK_DEADLOCK FALSE
PROPERTIES
    TriesAgain
