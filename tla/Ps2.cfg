\* Both devices send a byte of their own; commands may fail to be sent, and
\* replies may never come.
SPECIFICATION FairSpec
CONSTANTS
    Retry = 2
    Timeout = 1
    UintMax = 9
    MaxKeys = 1
    MaxMoves = 1
    Values <- MCValues
    Sent = {TRUE, FALSE}
INVARIANTS TypeOK EachByteOnce StuckOnlyByLostEdge
PROPERTIES BootCompletes KeysArrive
