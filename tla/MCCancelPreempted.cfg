\* The engine also cancels preempted requests.
SPECIFICATION SchedulerSpec
CONSTANTS
    Frames = {f1, f2, f3, f4}
    SeqIds = {1, 2, 3}
    Requests = {1, 2, 3}
    Keys = {}
    NumTables = 1
    TokensPerBlock = 1
    Slots = {slot1, slot2}
    Contents = {a}
    NoSlot = NoSlot
    NoKey = NoKey
    NoRequest = NoRequest
    NoContent = NoContent
    Rekeying = FALSE
    MaxTokens = 3
    MaxUsers = 3
    root_sequence_id <- MCRoots
    prompt_tokens <- MCPrompts
    max_decode_tokens <- MCLongDecodes
    prefix_key <- MCNoKeys
    max_active_requests = 2
    max_batch_tokens = 2
    preemption_watermark_blocks = 0
    size_aware_admission = FALSE
    admission_skip_limit = 1
    EngineCalls = {"grow", "preempt", "cancel preempted"}
SYMMETRY MCSymmetry
INVARIANT AdmissionCovered
