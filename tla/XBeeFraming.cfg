SPECIFICATION Spec
CONSTANTS
    Frames <- AllFrames
    MAX_FRAME_DATA_SIZE = 8
    BufferSize = 2
    MaxFrames = 4
    MaxLost = 1
INVARIANTS
    TypeOK
    DeliveredInOrder
    LossIsBounded
