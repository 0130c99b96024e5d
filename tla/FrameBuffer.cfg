CONSTANTS
    InitLen = 6
    ResizeSize = 3
    StreamLen = 16
    Width = 20
    Capacity = 13
    Frames <- MCFrames
SPECIFICATION Spec
INVARIANTS
    TypeOK
    IndexOK
    PanicsOnlyOnHugeFrames
    InOrder
    Contiguous
    LentIntact
    MemoryBound
PROPERTY
    ImplementsQueue
