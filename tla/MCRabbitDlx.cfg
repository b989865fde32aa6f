SPECIFICATION Spec
CONSTANTS
  Msgs = {m1, m2}
  Poison = {}
  Expiring = {m1}
  DlxMsgs = {m1, m2}
  Faults = {}
PROPERTIES
  StartsOnExistingQueue
