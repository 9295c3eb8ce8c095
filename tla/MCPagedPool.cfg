\* A root cache and two forks, up to three tokens, two tokens per block.
SPECIFICATION PoolSpec
CONSTANTS
    Frames = {f1, f2, f3, f4, f5}
    SeqIds = {s1, s2, s3}
    Requests = {s1, s2, s3}
    Keys = {}
    NumTables = 1
    TokensPerBlock = 2
    Slots = {}
    Contents <- MCContents
    NoSlot = NoSlot
    NoKey = NoKey
    NoRequest = NoRequest
    NoContent = NoContent
    Rekeying = FALSE
    MaxTokens = 3
    MaxUsers = 2
    Shape <- MCShape
    Root = s1
    Values = {a, b}
    Zero = Zero
    use_kernel = TRUE
    ResetsWithForks = FALSE
SYMMETRY MCSymmetry
INVARIANTS
    PoolTypeOK
    StoresExclusive
    ReadsOwnTokens
CHECK_DEADLOCK FALSE
