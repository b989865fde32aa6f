SPECIFICATION FairSpec
CONSTANTS
  Senders = {s1, s2}
  Users = {}
  NoClient = NoClient
  MinConn = 1
  Calls = 2
  Faults = {"publish"}
PROPERTIES
  WaitEnds
