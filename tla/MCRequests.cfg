SPECIFICATION Spec
CONSTANTS
  Requests = {r1, r2, r3}
  Nobody = Nobody
  MaxLockFaults = 1
  Callers = {c1, c2, c3}
  MaxCalls = 2
  RateCallers = {t1, t2}
  LimitCount = 2
  MaxRateCalls = 4
  MaxClock = 3
INVARIANTS
  TypeOK
  LocksExclude
  CreatedWhole
  RateHolds
PROPERTIES
  EveryoneServed
CHECK_DEADLOCK FALSE
