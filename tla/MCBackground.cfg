SPECIFICATION FairSpec
CONSTANTS
  Parallelisms = {1, 3}
  MaxMessages = 2
  MaxFaults = 2
INVARIANTS
  TypeOK
PROPERTIES
  QueuesKeepPromise
  AllStart
  Drains
CHECK_DEADLOCK FALSE
