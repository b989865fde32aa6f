SPECIFICATION FairSpec
CONSTANTS
  Senders = {s1, s2}
  Users = {u1, u2}
  NoClient = NoClient
  MinConn = 2
  Calls = 2
  Faults = {"connect", "channel", "publish", "interrupt"}
INVARIANTS
  TypeOK
  ChannelsExclusive
  WaitsOnlyWhenDry
PROPERTIES
  NeverServed
  WaitingFreezesPool
  OnlyAWaitStops
