CONSTANTS
  Sinks = 2
  MaxTicks = 3
  MaxLines = 2
  MaxStarts = 2
SPECIFICATION FairSpec
INVARIANTS
  TypeOK
  OnlyFirstTickLost
PROPERTIES
  SinkSpec
  QuietAfterStop
  StreamResumes
  TicksTakenUp
  StopReturns
