\* Two sequences of up to two blocks, two keys, two requests, one swap slot.
SPECIFICATION Spec
CONSTANTS
    Frames = {f1, f2, f3}
    SeqIds = {s1, s2}
    Requests = {r1, r2}
    Keys = {k1, k2}
    NumTables = 1
    TokensPerBlock = 1
    Slots = {slot1}
    Contents = {a, b}
    NoSlot = NoSlot
    NoKey = NoKey
    NoRequest = NoRequest
    NoContent = NoContent
    Rekeying = FALSE
    MaxTokens = 2
    MaxUsers = 2
SYMMETRY MCSymmetry
INVARIANTS
    TypeOK
    RefCountsExact
    SlotsOwned
    PrefixUsersExact
    RequestIndexExact
PROPERTY ImplementsLogical
