SPECIFICATION FairSpec
CONSTANTS
    FifoSize = 5
    BufferSize = 6
    PayloadSizes = {1, 2}
    MaxFrames = 3
INVARIANTS
    TypeOK
    BufferInBounds
    NoReplay
    Intact
PROPERTIES
    WholeFrameExecuted
    Settles
    CommandsInOrder
CHECK_DEADLOCK FALSE
