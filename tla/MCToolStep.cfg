SPECIFICATION Spec
CONSTANTS
    r1 = r1
    r2 = r2
    r3 = r3
    worker = worker
    server = server
    cheap = cheap
    dear = dear
    NoRun = NoRun
    NoTime = NoTime
    Runs <- MCRuns
    Resumed <- MCResumed
    Executors <- MCExecutors
    ExecutorOf <- MCExecutorOf
    Tools <- MCTools
    Cost <- MCCost
    Limit = 2
    HungAfter = 1
    MaxTime = 2
    MaxFaults = 1
SYMMETRY Symmetric
INVARIANTS
    LoneRunGetsItsPayload
    PayloadsAreCleanedUp
    LoneRunIsWatched
PROPERTIES
    AlarmsAreTrue
CHECK_DEADLOCK FALSE
