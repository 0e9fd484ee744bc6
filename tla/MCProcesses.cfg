SPECIFICATION Spec
CONSTANTS
  s1 = s1
  s2 = s2
  q1 = q1
  MaxPid = 3
  Semaphores = {s1}
  Queues = {}
  ReadSynch <- NoReaders
  MaxExcess = 1
  MaxFibers = 2
  MaxHalted = 1
  DrainRounds = 1
  MaxElements = 1
  MaxFailures = 0
  Strangers = {}
  HostCalls = {"eval", "live", "debug", "test", "close"}
  CodeOps <- AllOps
  CleanupOps = {"yield", "wait", "signal", "resume", "suspend", "terminate"}
INVARIANTS TypeOK OneRunning WaitersExact NoDangling HostAnswered
PROPERTIES HaltedStays
