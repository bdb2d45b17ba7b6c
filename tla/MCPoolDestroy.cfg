SPECIFICATION FairSpec
CONSTANTS
  Workers = {w1}
  Sessions = {s1}
  MaxSize = 1
  InitialSize = 1
  Leaky = FALSE
  ShutsDown = TRUE
  NoSession = NoSession
  AbsentMark = AbsentMark
  IdleMark = IdleMark
  LostMark = LostMark
CHECK_DEADLOCK FALSE
PROPERTY PoolDestroyed
