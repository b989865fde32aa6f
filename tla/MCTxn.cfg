SPECIFICATION CallerFairSpec
CONSTANTS
  NTasks = 4
  PoolThreads = 2
  QueueCap = 1
  Conns = 3
  CallerConns = 1
  Faults = {"begin", "handle", "error", "commit", "rollback", "timeout", "interrupt"}
INVARIANTS
  TypeOK
  TrueMeansAllHandled
  MixedOnlyByTimeout
PROPERTIES
  VerdictStable
  KeepsPromise
  CallerReturns
  ConnectionsReturn
  TrueIsKept
