\* A replay with the watermark on and no swap tier.
SPECIFICATION ReplaySpec
CONSTANTS
    Frames = {f1, f2, f3, f4}
    SeqIds = {1, 2, 3, 4, 5, 6, 7, 8, 9}
    Requests = {1, 2, 3, 4, 5, 6}
    Keys = {k1}
    NumTables = 1
    TokensPerBlock = 2
    Slots = {}
    Contents = {a}
    NoSlot = NoSlot
    NoKey = NoKey
    NoRequest = NoRequest
    NoContent = NoContent
    Rekeying = FALSE
    MaxTokens = 10
    MaxUsers = 9
    root_sequence_id <- MCRoots
    prompt_tokens <- MCPrompts
    max_decode_tokens <- MCDecodes
    prefix_key <- MCNoKeys
    max_active_requests = 3
    max_batch_tokens = 3
    preemption_watermark_blocks = 1
    size_aware_admission = TRUE
    admission_skip_limit = 1
    EngineCalls = {}
    Traces <- MCPlain
INVARIANT StallIsReal
