SPECIFICATION Spec
CONSTANTS
  l1 = l1
  l2 = l2
  l3 = l3
  NoHash = NoHash
  Loggers <- ThreeLoggers
  MaxEntries = 5
  MaxResets = 1
SYMMETRY Symmetric
INVARIANTS EntriesHangOnEarlierOnes ForksAreNarrow BreaksAreOverlaps
CHECK_DEADLOCK FALSE
