\* A cache may be reset while a fork of it is in use, and a reset cache forked.
SPECIFICATION PoolSpec
CONSTANTS
    Frames = {f1, f2, f3, f4, f5}
    SeqIds = {s1, s2}
    Requests = {s1, s2}
    Keys = {}
    NumTables = 1
    TokensPerBlock = 2
    Slots = {}
    Contents <- MCContents
    NoSlot = NoSlot
    NoKey = NoKey
    NoRequest = NoRequest
    NoContent = NoContent
    Rekeying = FALSE
    MaxTokens = 3
    MaxUsers = 2
    Shape <- MCShape
    Root = s1
    Values = {a, b}
    Zero = Zero
    use_kernel = TRUE
    ResetsWithForks = TRUE
SYMMETRY MCSymmetry
INVARIANT StoresExclusive
CHECK_DEADLOCK FALSE
