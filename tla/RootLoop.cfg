SPECIFICATION MCSpec
CONSTANTS
    MinIterations = 1
    MaxIterations = 2
    MinRepair = 1
    RepairMax = 2
    NoProgressLimit = 2
    Threshold = 2
    MaxRefusals = 3
    MaxTurns = 3
    MaxPairs = 1
    Score = {10, 40, 70}
    Target = {40, 70}
INVARIANTS
    ChurnBounded
    SuccessIsBacked ScoreBacksVerdict 
 
CHECK_DEADLOCK FALSE
