SPECIFICATION FairSpec
CONSTANTS
  Payments = {1}
  Contended = {}
  MaxAttempts = 2
  ScanLimit = 1
  MaxFaults = 1
CHECK_DEADLOCK FALSE
PROPERTIES
  MissedEventsCovered
