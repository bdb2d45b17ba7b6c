SPECIFICATION FairSpec
CONSTANTS
  NThreads = 2
  MaxTasks = 2
CHECK_DEADLOCK FALSE
PROPERTY JoinReturns
