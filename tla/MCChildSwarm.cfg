CONSTANTS
    N = 2
    Capacity = 1
    MaxMessages = 2
    MaxSignals = 2
    MaxKills = 1
    MaxErrors = 1
SPECIFICATION Spec
INVARIANTS
    NothingLost
    DeadParentIsNoticed
    NoChildLeft
PROPERTY
    ShutsDown
CHECK_DEADLOCK FALSE
