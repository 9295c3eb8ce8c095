\* Watermark preemption with a swap tier, prefix caching, size-aware admission.
SPECIFICATION SchedulerSpec
CONSTANTS
    Frames = {f1, f2, f3}
    SeqIds = {1, 2, 3}
    Requests = {1, 2, 3}
    Keys = {k1}
    NumTables = 1
    TokensPerBlock = 1
    Slots = {slot1, slot2}
    Contents = {a}
    NoSlot = NoSlot
    NoKey = NoKey
    NoRequest = NoRequest
    NoContent = NoContent
    Rekeying = FALSE
    MaxTokens = 3
    MaxUsers = 3
    root_sequence_id <- MCRoots
    prompt_tokens <- MCPrompts
    max_decode_tokens <- MCDecodes
    prefix_key <- MCFirstTwoShare
    max_active_requests = 3
    max_batch_tokens = 2
    preemption_watermark_blocks = 1
    size_aware_admission = TRUE
    admission_skip_limit = 1
    EngineCalls = {"grow", "publish", "preempt"}
SYMMETRY MCSymmetry
INVARIANTS
    SchedulerTypeOK
    QueuesAgree
    NoSequenceLeftBehind
    AccountingExact
    PlannedStayActive
PROPERTY PlanSound
