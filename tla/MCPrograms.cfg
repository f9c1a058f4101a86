CONSTANTS
  MaxLive = 2
  Room = 5
  HeaderSize = 2
  FrameSize <- Sizes
  Garbage <- Misread
  MaxCommands = 4
  MaxReports = 2
  RingSize = 1
  Wrap = 4
  InFlight = 2
  MaxDatagrams = 7
  MaxRestarts = 2
  Gaps = {0, 4}
  Services = {1, 6, 9}
  MaxEvents = 5
  HalfMag = 1
  Highest = 16
  ChartEdges <- PowersOfTen
SPECIFICATION Spec
INVARIANTS FramesArriveWhole CancelledForGood GapsAreLosses LossesNoticed ResponseTimesTrue SummaryTrue
CHECK_DEADLOCK FALSE
