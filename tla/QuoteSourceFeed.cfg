CONSTANTS
  c1 = c1
  A = A
  B = B
  Client <- OneClient
  Ticker <- TwoTickers
  All = All
  Invalid = Invalid
  Requests <- NamedOrRefused
  Capacity = 2
  MaxTicks = 3
  MaxNexts = 2
  MayStop = TRUE
  MaxStreams = 1
SPECIFICATION FairSpec
PROPERTIES
  NextTickServed
  StreamSpec
  SendersEnd
