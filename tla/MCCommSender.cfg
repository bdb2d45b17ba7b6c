SPECIFICATION Spec
CONSTANTS
  Clients = {c1, c2}
  Receivers = {r1, r2}
  Disposers = {d1, d2}
  acceptor = acceptor
  sender = sender
  MaxFds = 2
  ProNums = {8513, 9025, NoCode, 81}
  SendCalls = 2
  Resetting = {c1}
  NoClient = NoClient
  NoHandle = NoHandle
  NoCode = NoCode
  Unsent = Unsent
SYMMETRY ThreadSymmetry
CHECK_DEADLOCK FALSE
INVARIANTS TypeOK OneOwner HandleLive ReplyToRequester NoLostWakeup ClosedAnswered
PROPERTY LifeOfRequest
