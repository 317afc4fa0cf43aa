SPECIFICATION FairSpec
CONSTANTS
    Messages <- MCMessages
    LengthBase <- MCLengthBase
    MaxSent = 2
    MaxSessions = 2
    MaxFragment = 8
INVARIANTS Framed NothingHeld WithinBuffer
PROPERTY LoopEnds
CHECK_DEADLOCK FALSE
