CONSTANTS
  c1 = c1
  A = A
  B = B
  Client <- OneClient
  Ticker <- TwoTickers
  All = All
  Invalid = Invalid
  Requests <- OneRequest
  Capacity = 2
  MaxTicks = 2
  MaxNexts = 2
  MayStop = FALSE
  MaxStreams = 2
SPECIFICATION Spec
INVARIANT PacedByNextTick
