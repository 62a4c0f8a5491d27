SPECIFICATION FairSpec
CONSTANTS
  Transfers <- MCTransfers
  Columns = {"x", "y"}
  Runs = {1, 2}
  Parts = 2
  MaxClock = 2
  MaxFaults = 1
  None = None
INVARIANTS
  FinishedIsDelivered
  
  FinishedIsTransformed
PROPERTIES
  DeliveredStays
  
CHECK_DEADLOCK FALSE
