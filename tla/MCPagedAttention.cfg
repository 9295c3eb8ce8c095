\* Per-layer frames: two tables per sequence, partial and whole eviction.
SPECIFICATION Spec
CONSTANTS
    Frames = {f1, f2, f3, f4}
    SeqIds = {s1, s2}
    Requests = {r1}
    Keys = {k1}
    NumTables = 2
    TokensPerBlock = 2
    Slots = {slot1}
    Contents = {a, b}
    NoSlot = NoSlot
    NoKey = NoKey
    NoRequest = NoRequest
    NoContent = NoContent
    Rekeying = FALSE
    MaxTokens = 3
    MaxUsers = 2
    Shape <- MCShape
SYMMETRY MCSymmetry
INVARIANTS
    KernelsAgree
    DecodeReadsOwnBlocks
    RefCountsExact
PROPERTY ImplementsLogical
