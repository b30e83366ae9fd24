CONSTANTS
    Parent = parent
    Child = child
    Proc = {parent, child}
    NumVals = 5
    Pace = 9
    Realtime = FALSE
    Nothing = Nothing
SPECIFICATION FairSpec
INVARIANTS ReceivedInOrder AtMostLastMissed
CHECK_DEADLOCK FALSE
