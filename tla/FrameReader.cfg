\* Well-formed frames of 8 and 9 bytes, arriving in chunks of any size.
CONSTANTS
    HDR = 8
    Lens = {8, 9}
    GarbageLens = {0, 9}
    MaxFrames = 2
    MaxConnects = 2
    PeerResets = FALSE
SPECIFICATION FairSpec
INVARIANT NoBufferOverrun
PROPERTIES ImplementsFrameChannel FramesDelivered
\* The last connection ends closed: nothing is left to do.
CHECK_DEADLOCK FALSE
