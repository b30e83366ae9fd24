CONSTANTS
    BuffSize = 2
    MaxSize = 8
    WordSize = 16
    MaxDatagrams = 5
    Stacks <- AnyStack
SPECIFICATION FairSpec
INVARIANTS
    TerminatorFits
    DatagramsInOrder
CHECK_DEADLOCK FALSE
