SPECIFICATION Spec
CONSTANTS
  s1 = s1
  s2 = s2
  q1 = q1
  MaxPid = 2
  Semaphores = {s1}
  Queues = {q1}
  ReadSynch <- OneReader
  MaxExcess = 1
  MaxFibers = 2
  MaxHalted = 1
  DrainRounds = 1
  MaxElements = 1
  MaxFailures = 0
  Strangers = {}
  HostCalls = {"eval"}
  CodeOps = {"fork", "suspend", "nextPut", "next"}
  CleanupOps = {}
INVARIANTS ElementsClaimed
