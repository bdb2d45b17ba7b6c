SPECIFICATION Spec
CONSTANTS
  Workers = {w1}
  Sessions = {s1, s2}
  MaxSize = 2
  InitialSize = 2
  Leaky = TRUE
  ShutsDown = FALSE
  NoSession = NoSession
  AbsentMark = AbsentMark
  IdleMark = IdleMark
  LostMark = LostMark
CHECK_DEADLOCK FALSE
PROPERTY LendAlways
