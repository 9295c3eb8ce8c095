\* Four blocks; requests of one to five blocks, too large ones included.
SPECIFICATION Spec
CONSTANTS
    max_blocks = 4
    tokens_per_block = 2
    max_active_requests = 3
    baseline_max_context = 9
    max_steps = 12
    NumRequests = 4
    Prompts <- MCPrompts
    Budgets <- MCBudgets
INVARIANTS
    BaselineTypeOK
    RunsDisjoint
    TokensFit
    OneTokenPerStep
PROPERTIES
    FirstFit
    Completes
CHECK_DEADLOCK FALSE
