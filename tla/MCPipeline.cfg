CONSTANTS
  Client = {1,2}
  Fd = {3}
  NoFd = NoFd
  RingSize = 1
  SpinLimit = 1
  MaxCommands = 3
  MaxConnects = 3
  MaxStarts = 2
SPECIFICATION FairSpec
INVARIANTS CommandsAccounted SoleIdKeepsItsReports
PROPERTIES StopReturns
CHECK_DEADLOCK FALSE
