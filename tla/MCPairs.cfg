CONSTANTS
  Programs <- Paired
  Registries <- TwoBuilds
  MaxDepth = 4
  Parts = {"image"}
  Savers = {"s1", "s2"}
  Temps = {"t1", "t2"}
  Blocks = 2
  Linked = TRUE
  Losses = 1
SPECIFICATION MCSpec
INVARIANT SaveLoads
CHECK_DEADLOCK FALSE
