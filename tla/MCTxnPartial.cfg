SPECIFICATION Spec
CONSTANTS
  NTasks = 2
  PoolThreads = 2
  QueueCap = 2
  Conns = 3
  CallerConns = 1
  Faults = {"handle", "timeout"}
INVARIANTS
  CommitTogether
