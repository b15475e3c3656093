\* Two callers, a profile that may time out, an emergency all-off, a stuck relay or a driver error.
SPECIFICATION FairSpec
CONSTANTS
    radio = radio
    amp = amp
    ant = ant
    operate = operate
    w1 = w1
    w2 = w2
    Devices = {radio, amp}
    Radios = {radio}
    DependsOn <- StationDependsOn
    OnOrder <- StationOnOrder
    NeedsAntenna = {amp}
    Amp = amp
    Operate = operate
    Selector = ant
    Ways = {w1, w2}
    Profile <- StationProfile
    Boards <- StationBoards
    Tasks = {t1, t2}
    None = none
    Calls = 2
    KeyMoves = 1
    Timeouts = 1
    Faults = 1
CHECK_DEADLOCK FALSE
INVARIANTS
    BreakBeforeMake
    ConfirmedIsReal
    DependenciesHold
PROPERTIES
    NoHotSwitch
    UncutSelection
    AllOffEnds
