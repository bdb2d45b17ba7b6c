SPECIFICATION FairSpec
CONSTANTS
  Clients = {c1, c2}
  Receivers = {r1}
  Disposers = {d1, d2}
  acceptor = acceptor
  sender = sender
  MaxFds = 2
  ProNums = {8513, 9025, 81}
  SendCalls = 2
  Resetting = {}
  NoClient = NoClient
  NoHandle = NoHandle
  NoCode = NoCode
  Unsent = Unsent
CHECK_DEADLOCK FALSE
PROPERTIES RequestAnswered SocketReclaimed
