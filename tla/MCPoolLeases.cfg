SPECIFICATION Spec
CONSTANTS
  Workers = {w1, w2, w3}
  Sessions = {s1, s2, s3, s4}
  MaxSize = 3
  InitialSize = 2
  Leaky = TRUE
  ShutsDown = TRUE
  NoSession = NoSession
  AbsentMark = AbsentMark
  IdleMark = IdleMark
  LostMark = LostMark
SYMMETRY PoolSymmetry
CHECK_DEADLOCK FALSE
INVARIANTS TypeOK SizeIsSessions Exclusive
PROPERTIES LendWhenUp LeasesSessions
