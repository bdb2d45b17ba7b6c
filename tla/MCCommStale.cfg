SPECIFICATION Spec
CONSTANTS
  Clients = {c1, c2}
  Receivers = {r1}
  Disposers = {d1}
  acceptor = acceptor
  sender = sender
  MaxFds = 2
  ProNums = {8513}
  SendCalls = 0
  Resetting = {}
  NoClient = NoClient
  NoHandle = NoHandle
  NoCode = NoCode
  Unsent = Unsent
CHECK_DEADLOCK FALSE
INVARIANT OwnRequestOnly
