SPECIFICATION Spec
CONSTANTS
  Sessions = {s1, s2}
  Senders = {d1}
  Names = {ann}
  Nobody = Nobody
  NoSession = NoSession
  SendMayFail = FALSE
INVARIANTS
  SuccessMeansSent
CHECK_DEADLOCK FALSE
