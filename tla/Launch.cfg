SPECIFICATION MCFairSpec
CONSTANTS
    l1 = l1
    l2 = l2
    r1 = r1
    r2 = r2
    r3 = r3
    Gpu = {0}
    Unleased = Unleased
    Launcher = {l1, l2}
    Run = {r1, r3}
    Owner <- PairOwners
    PerRun <- Sizes
    Signals = "any"
    Kills = TRUE
    Pid = {p}
    Client = {c}
    Ops = {"get", "start"}
    NoPid = NoPid
    NoFile = NoFile
    Patient = FALSE
    Background = TRUE
    MaxRequests = 2
    MaxRestarts = 1
    Parts = {"batch", "service"}
 
PROPERTIES  BatchEnds LostRunReported
CHECK_DEADLOCK FALSE
