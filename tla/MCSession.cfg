CONSTANTS
  Threads = {t1, t2}
  MaxNest = 2
  MaxEvals = 2
  MaxMade = 2
  MaxGen = 3
SPECIFICATION Spec
INVARIANTS EntriesSound InterruptsOwn
PROPERTIES SnapshotKept
SYMMETRY Symmetry
CHECK_DEADLOCK FALSE
