\* Another thread steps the machine between the step and the apply of the first.
SPECIFICATION Spec
CONSTANTS
    monitor = monitor
    u1 = u1
    Monitor = monitor
    Users = {u1}
    None = none
    Presses = 1
    Moves = 1
    Refusals = 1
CHECK_DEADLOCK FALSE
INVARIANTS
    RecordAgrees
