SPECIFICATION DebugSpec
CONSTANTS
  Pids = {1, 2}
  MaxFrames = 3
  MaxActs = 3
  MaxInstalls = 3
INVARIANTS RestartsShownRow
CHECK_DEADLOCK FALSE
