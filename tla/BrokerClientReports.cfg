CONSTANTS
  MaxRequests = 2
  MaxLines = 3
  MaxReports = 2
SPECIFICATION FairSpec
INVARIANTS
  TypeOK
  SubmittedOnce
  InStep
PROPERTIES
  StatesAdvance
  ReportsTakenUp
  StopReturns
  ViewSpec
