CONSTANTS
  s1 = s1
  s2 = s2
  b1 = b1
  Session <- TwoSessions
  Broker <- OneBroker
  App = App
SPECIFICATION FairSpec
INVARIANTS
  TypeOK
  AtMostOneLeft
PROPERTIES
  StopReturns
  SinkEnds
