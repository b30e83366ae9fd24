CONSTANTS
    Readers = {r1}
    Writers = {w1}
    Holders = {h1}
    MsgLen = 2
    MaxRounds = 1
    NULL = NULL
SPECIFICATION FairSpec
INVARIANTS ReadIsSnapshot
PROPERTIES AckedIsWhole LocksAreReleased ImplementsAtomicFile
CHECK_DEADLOCK FALSE
