CONSTANTS
  c1 = c1
  c2 = c2
  NoClient = NoClient
  Client <- OneClient
  ClientOrderId <- TwoIds
  Quantity <- OneOrTwo
  Lot <- OneOrTwo
  MaxOrders = 2
SPECIFICATION Spec
PROPERTY CancelHitsRequested
