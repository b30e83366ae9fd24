CONSTANTS
    Senders = {s1, s2}
    MaxLen = 3
    ChunkSize = 2
    SndBufs = {0, 1, 9}
SPECIFICATION FairSpec
INVARIANTS PiecesFollow CountIsRight ChunksAreSent PrintedWasSent
CHECK_DEADLOCK FALSE
PROPERTIES QueueIsPrinted
