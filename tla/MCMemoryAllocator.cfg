SPECIFICATION Spec
CONSTANTS
    Frames <- MCFrames
    max_blocks = 3
    MaxSlots = 2
    MaxRefs = 3
    MaxGeneration = 2
    MaxSlotId = 3
INVARIANTS
    TypeOK
    FreeListSound
    StatsAgree
PROPERTIES
    LeaseIsFresh
    ImplementsPool
