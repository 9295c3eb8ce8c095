\* Reservations and progress, without preemption and sharing, size-aware admission.
SPECIFICATION FairSpec
CONSTANTS
    Frames = {f1, f2, f3, f4}
    SeqIds = {1, 2, 3}
    Requests = {1, 2, 3}
    Keys = {}
    NumTables = 1
    TokensPerBlock = 2
    Slots = {}
    Contents = {a}
    NoSlot = NoSlot
    NoKey = NoKey
    NoRequest = NoRequest
    NoContent = NoContent
    Rekeying = FALSE
    MaxTokens = 5
    MaxUsers = 3
    root_sequence_id <- MCRoots
    prompt_tokens <- MCOddPrompts
    max_decode_tokens <- MCOddDecodes
    prefix_key <- MCNoKeys
    max_active_requests = 2
    max_batch_tokens = 2
    preemption_watermark_blocks = 0
    size_aware_admission = TRUE
    admission_skip_limit = 1
    EngineCalls = {"grow"}
INVARIANTS
    SkipsBounded
    ReservationHonoured
PROPERTIES
    EventuallyAdmitted
    EventuallyServed
