SPECIFICATION Spec
CONSTANTS
  Requests = {a1, a2}
  Cancels = {c1, c2}
  Debited = {"advance"}
SYMMETRY CallSymmetry
CHECK_DEADLOCK FALSE
INVARIANTS
  DoneIsPaid
  FailureShows
PROPERTIES
  PaybackKept
