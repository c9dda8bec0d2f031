SPECIFICATION MCSpec
CONSTANTS
    SlowJoin = FALSE
    wide = wide
    narrow = narrow
    Cell = {wide, narrow}
    Card = {0, 1}
    Need <- MCNeed
    MaxParallel = 2
    MaxOom = 1
    Version = {1, 2}
    MaxGrids = 2
INVARIANTS
    TerminalStatusStands EndsWithReport
    CardsAccounted SkipEarned StopIsEarned
PROPERTIES ProcessEnds GridEnds
CHECK_DEADLOCK FALSE
