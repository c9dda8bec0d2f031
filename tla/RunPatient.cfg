SPECIFICATION MCSpec
CONSTANTS
    Pid = {p, q, r}
    Client = {c}
    Ops = {"get", "start", "resume", "stop"}
    NoPid = NoPid
    NoFile = NoFile
    Patient = TRUE
    Background = FALSE
    MaxRequests = 4
    MaxRestarts = 1
    Runs <- MCRuns
    MaxCluster = 2
    CodeDev = {1}
    Concurrency = 1
    MaxRepairs = 1
    MaxRegens = 1
    Level = {0, 1}
    MaxOrphans = 1
    MaxWrites = 2
    MaxCrashes <- MCCrashes
    Parts = {"service", "rubric"}
SYMMETRY Symmetric
INVARIANTS
     WorkingRunVisible StoppedMeansStopped
    WorkKept RepairsNotRepeated BestPhaseShipped
CHECK_DEADLOCK FALSE
