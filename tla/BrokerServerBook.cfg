CONSTANTS
  c1 = c1
  c2 = c2
  NoClient = NoClient
  Client <- OneClient
  ClientOrderId <- TwoIds
  Quantity <- OneOrTwo
  Lot <- OneOrTwo
  MaxOrders = 3
SPECIFICATION Spec
INVARIANTS
  SessionBook
  Reconciled
  RetiredExactly
  ReportInSync
PROPERTIES
  CancelledFinal
  StrayCancelStaysHome
  ViewSpec
