SPECIFICATION FairSpec
CONSTANTS
  j1 = j1
  j2 = j2
  k1 = k1
  c1 = c1
  c2 = c2
  t1 = t1
  t2 = t2
  NoJob = NoJob
  NoKey = NoKey
  Jobs <- TwoJobs
  Keys <- OneKey
  Clients <- OneClient
  Threads <- OneThread
  MaxWorkers = 1
  MaxTotal = 0
  MaxCrashes = 1
  MaxStops = 0
  MaxDbErrors = 0
INVARIANT DuplicateOnlyByRevival
PROPERTIES QueuedJobIsPickedUp QueuedJobIsSettled
CHECK_DEADLOCK FALSE
