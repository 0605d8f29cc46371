CONSTANTS
  Sinks = 1
  MaxTicks = 2
  MaxLines = 1
  MaxStarts = 1
SPECIFICATION PyFairSpec
PROPERTY PyStopReturns
CHECK_DEADLOCK FALSE
