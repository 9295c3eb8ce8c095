\* A sequence may publish its prefix under a second key.
SPECIFICATION Spec
CONSTANTS
    Frames = {f1, f2, f3}
    SeqIds = {s1}
    Requests = {r1}
    Keys = {k1, k2}
    NumTables = 1
    TokensPerBlock = 1
    Slots = {slot1}
    Contents = {a, b}
    NoSlot = NoSlot
    NoKey = NoKey
    NoRequest = NoRequest
    NoContent = NoContent
    Rekeying = TRUE
    MaxTokens = 2
    MaxUsers = 2
SYMMETRY MCSymmetry
INVARIANT NoLeak
CHECK_DEADLOCK FALSE
