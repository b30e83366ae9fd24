CONSTANTS
    BuffSize = 2
    MaxSize = 8
    MaxData = 9
    Stacks <- AnyStack
SPECIFICATION FairSpec
INVARIANTS
    StringFits
    ReturnsWhatWasRead
CHECK_DEADLOCK FALSE
