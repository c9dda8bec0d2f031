SPECIFICATION MCSpec
CONSTANTS
    Attempts = 2
    MaxPods = 3
    Commands = 1
    MaxRetries = 1
    MaxStrikes = 1
    MaxEscalations = 1
    Ladder = 2
    JCell = {a, b}
    Parallel = 2
    MaxSkuSteps = 1
    Backoff = 1
    Cap = 5
    Stable = TRUE
    LongId = FALSE
    MaxCalls = 1
SYMMETRY Symmetric
INVARIANTS
    PodAccounted
     CellVerdictEarned
CHECK_DEADLOCK FALSE
