\* Well-formed frames; a read may fail with ECONNRESET.
CONSTANTS
    HDR = 8
    Lens = {8, 9}
    GarbageLens = {0, 9}
    MaxFrames = 2
    MaxConnects = 2
    PeerResets = TRUE
SPECIFICATION Spec

PROPERTY ImplementsFrameChannel
\* The last connection ends closed: nothing is left to do.
CHECK_DEADLOCK FALSE
