SPECIFICATION Spec
CONSTANTS
  Payments = {1}
  Contended = {1}
  MaxAttempts = 2
  ScanLimit = 1
  MaxFaults = 1
CHECK_DEADLOCK FALSE
INVARIANTS
  OnlyCaptured
  ForgottenForACause
PROPERTIES
  EscrowKept
