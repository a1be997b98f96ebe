SPECIFICATION Spec
CONSTANTS
  j1 = j1
  j2 = j2
  k1 = k1
  c1 = c1
  c2 = c2
  t1 = t1
  t2 = t2
  NoJob = NoJob
  NoKey = NoKey
  Jobs <- TwoJobs
  Keys = {}
  Clients <- OneClient
  Threads <- TwoThreads
  MaxWorkers = 1
  MaxTotal = 1
  MaxCrashes = 1
  MaxStops = 1
  MaxDbErrors = 1
SYMMETRY Symmetric
INVARIANTS ExclusiveClaim RunAtMostOnce OutcomeMatchesStatus ProgressIsSound
PROPERTIES SettledRowIsFinal ImplementsLifecycle
CHECK_DEADLOCK FALSE
