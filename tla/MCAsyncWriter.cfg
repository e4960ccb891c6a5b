SPECIFICATION FairSpec
CONSTANTS
  t1 = t1
  t2 = t2
  p1 = p1
  p2 = p2
  p3 = p3
  Threads <- MCThreads
  Paths <- MCPaths
  Openable <- MCOpenable
  MaxPushes = 3
  Torn = Torn
  NoTask = NoTask
INVARIANTS
  TypeOK
  LastPushWins
  JoinDrains
PROPERTIES
  JoinReturns
  PushedIsWritten
  Implements
CHECK_DEADLOCK FALSE
