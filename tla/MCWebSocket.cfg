SPECIFICATION Spec
CONSTANTS
  Sessions = {s1, s2, s3}
  Senders = {d1}
  Names = {ann}
  Nobody = Nobody
  NoSession = NoSession
  SendMayFail = TRUE
INVARIANTS
  TypeOK
  CompleteWhenDone
  SetFollowsSessions
CHECK_DEADLOCK FALSE
SYMMETRY SessionSymmetry
