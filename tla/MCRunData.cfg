SPECIFICATION FairSpec
CONSTANTS
    r1 = r1
    r2 = r2
    q1 = q1
    u1 = u1
    u2 = u2
    NoThread = NoThread
    Runs <- MCRuns
    Requests <- MCRequests
    Urls <- MCUrls
    Batches <- MCBatches
    MaxSteps = 2
INVARIANTS
    EditionsAreNumberedInOrder
    VersionTwinsAreStrangers
    HitsAreConserved
    StoryForgetsOnlyOverlaps
    OnlyRequestsLeakTheLock
PROPERTIES
    RunEnds
CHECK_DEADLOCK FALSE
