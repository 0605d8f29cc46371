CONSTANTS
  c1 = c1
  c2 = c2
  NoClient = NoClient
  Client <- TwoClients
  ClientOrderId <- OneId
  Quantity <- Two
  Lot <- OneOrTwo
  MaxOrders = 2
SPECIFICATION FairSpec
INVARIANTS
  TypeOK
  AckBeforeReport
  NoCrossTalk
PROPERTY EveryOrderTakenUp
