SPECIFICATION FairSpec
CONSTANTS
  Payments = {1,2}
  Contended = {}
  MaxAttempts = 2
  ScanLimit = 1
  MaxFaults = 0
CONSTRAINT LockOutlastsScan
CHECK_DEADLOCK FALSE
PROPERTIES
  CapturedIsFinalized
