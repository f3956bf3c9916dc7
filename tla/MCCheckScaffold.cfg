CONSTANTS
  None = None
  Period = 2
  Expiry = 3
  StartDue = TRUE
  MaxClock = 8
  DueResults <- MCDueResults
  OtherResults <- MCOtherResults
  MaxResults = 3
SPECIFICATION ScaffoldSpec
INVARIANTS TypeOK SlotsFitElapsedTime StatusAgrees
PROPERTY CadenceSpacing
