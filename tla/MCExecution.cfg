CONSTANTS
  Programs <- MCPrograms
  Arguments <- MCArguments
  Fields <- MCFields
  InstVarNames <- MCInstVarNames
  KernelInstVars = 1
  ClassVarNames = {"P"}
  KnownGlobals = {"G"}
  StackLimit = 5
  Reserve = 2
  MaxCalls = 5
  MaxStops = 2
  MaxRestarts = 1
  Pids = {1, 2}
  MaxFrames = 3
  MaxActs = 3
  MaxInstalls = 3
SPECIFICATION MCSpec
INVARIANTS CompiledMeansSource CodeRuns RejectsExactly UnwindSound WindowKept
PROPERTIES UnwindArrives ImplementsEvaluation HaltsEndAsAsked
CHECK_DEADLOCK FALSE
