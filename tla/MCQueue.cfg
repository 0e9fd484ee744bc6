SPECIFICATION Spec
CONSTANTS
  s1 = s1
  s2 = s2
  q1 = q1
  MaxPid = 3
  Semaphores = {s1, s2}
  Queues = {q1}
  ReadSynch <- OneReader
  MaxExcess = 1
  MaxFibers = 2
  MaxHalted = 1
  DrainRounds = 1
  MaxElements = 2
  MaxFailures = 2
  Strangers = {3}
  HostCalls = {"eval", "live", "debug", "send"}
  CodeOps = {"trouble", "fork", "yield", "wait", "signal", "terminate", "nextPut", "next"}
  CleanupOps = {"nextPut", "next"}
INVARIANTS QueueExact ElementsClaimed MarkIsOwn NoWaiterBesideExcess
PROPERTIES SignalKept
