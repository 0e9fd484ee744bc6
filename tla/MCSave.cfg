CONSTANTS
  Programs <- Unpaired
  Registries <- TwoBuilds
  MaxDepth = 4
  Parts = {"image", "file"}
  Savers = {"s1", "s2"}
  Temps = {"t1", "t2"}
  Blocks = 2
  Linked = TRUE
  Losses = 1
SPECIFICATION MCSpec
INVARIANTS ProgramKept LoadedRuns FileWhole
PROPERTY Replaces
CHECK_DEADLOCK FALSE
