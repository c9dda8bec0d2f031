SPECIFICATION MCSpec
CONSTANTS
    l1 = l1
    l2 = l2
    r1 = r1
    r2 = r2
    r3 = r3
    Gpu = {0, 1}
    Unleased = Unleased
    Launcher = {l1, l2}
    Run = {r1, r2, r3}
    Owner <- Owners
    PerRun <- Sizes
    Signals = "calm"
    Kills = FALSE
    Pid = {p}
    Client = {c}
    Ops = {"get", "start"}
    NoPid = NoPid
    NoFile = NoFile
    Patient = FALSE
    Background = TRUE
    MaxRequests = 2
    MaxRestarts = 1
    Parts = {"batch"}
INVARIANTS CardsNotShared NoStrandedLease SignalTearsDown
CHECK_DEADLOCK FALSE
