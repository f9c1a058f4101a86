CONSTANTS
  Client = {1, 2}
  Fd = {3, 4}
  NoFd = NoFd
  RingSize = 1
  SpinLimit = 1
  MaxCommands = 3
  MaxConnects = 2
  MaxStarts = 2
SPECIFICATION Spec
INVARIANTS NoMisdelivery
CHECK_DEADLOCK FALSE
