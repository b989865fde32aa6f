SPECIFICATION FairSpec
CONSTANTS
  Msgs = {m1, m2, m3, m4}
  Poison = {m1}
  Expiring = {m2, m4}
  DlxMsgs = {m4}
  Faults = {"connect", "channel", "reject", "break"}
INVARIANTS
  TypeOK
  NeverLostOrDoubled
  AckedWasProcessed
PROPERTIES
  GoodIsConsumed
