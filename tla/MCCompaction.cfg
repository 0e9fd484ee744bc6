SPECIFICATION Spec
CONSTANTS
  OldMax = 12
  MaxYoung = 1
  RootSlots = {"r", "s"}
  Registered <- MCRoots
  Heaps <- MCHeaps
INVARIANTS
  TypeOK
  PlanSound
  MovesKeepObjects
  HeapAgain
  GraphKept
