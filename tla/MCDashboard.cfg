CONSTANTS
  Absent = Absent
  MaxCommands = 2
  MaxSnapshots = 2
  MaxRestarts = 1
SPECIFICATION FairSpec
INVARIANTS FinishedFile
PROPERTIES PublishedReachesFile
CHECK_DEADLOCK FALSE
