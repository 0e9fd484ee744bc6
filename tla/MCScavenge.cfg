SPECIFICATION Spec
CONSTANTS
  p = p
  q = q
  Procs = {p, q}
  Half = 2
  Large = 2
  MaxIds = 4
  Heaps <- MCHeaps
INVARIANTS HeapSound
PROPERTY ImplementsMemory
CHECK_DEADLOCK FALSE
