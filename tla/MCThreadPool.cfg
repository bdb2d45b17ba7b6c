SPECIFICATION FairSpec
CONSTANTS
  NThreads = 2
  MaxTasks = 4
CHECK_DEADLOCK FALSE
INVARIANTS TypeOK HeadIsCurrent IdleMeansDone OwnThread
PROPERTIES RunsEachOnce WorkStarts
