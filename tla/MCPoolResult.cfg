SPECIFICATION Spec
CONSTANTS
  Workers = {w1}
  Sessions = {s1}
  MaxSize = 1
  InitialSize = 1
  Leaky = FALSE
  ShutsDown = FALSE
  NoSession = NoSession
  AbsentMark = AbsentMark
  IdleMark = IdleMark
  LostMark = LostMark
CHECK_DEADLOCK FALSE
INVARIANT ResultFreedOnce
