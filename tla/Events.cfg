SPECIFICATION MCSpec
CONSTANTS
    a1 = a1
    a2 = a2
    Aggregate = {a1, a2}
    EventId = {e1, e2, e3}
    Writer = {w1, w2}
    Projects <- OwnProjects
    MaxBatch = 2
    MaxSeq = 3
    MaxPosition = 4
    Limit = 2
    Nacks = TRUE
    Waits = TRUE
    MaxRebuilds = 1
    MaxPurges = 2
    Nothing = Nothing
SYMMETRY Symmetric
INVARIANTS OneOrder AnswerIsTrue NothingLost InOrder
PROPERTIES StoreImplementsStreams EventuallyHandled
CHECK_DEADLOCK FALSE
