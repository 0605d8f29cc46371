CONSTANTS
  c1 = c1
  A = A
  B = B
  Client <- OneClient
  Ticker <- TwoTickers
  All = All
  Invalid = Invalid
  Requests <- AllOrRefused
  Capacity = 1
  MaxTicks = 3
  MaxNexts = 2
  MayStop = FALSE
  MaxStreams = 2
SPECIFICATION Spec
INVARIANTS
  TypeOK
  NothingMissedAfterOk
  AheadBounded
