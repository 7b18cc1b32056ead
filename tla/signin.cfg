SPECIFICATION Spec
CONSTANTS
  Users = {u1}
  Admins = {a1}
  Calls = {c1, c2}
  Codes = {n1, n2}
  None = None
  CodeTTL = 1
  SessionTTL = 1
  CacheTTL = 1
  MaxAttempts = 2
  MaxTime = 3
SYMMETRY MCSymmetry
CONSTRAINTS
  OneAtATime
  BlocksApart
CHECK_DEADLOCK FALSE
INVARIANTS
  AttemptsCounted
  SpentIsVoided
  OutdatedForACause
PROPERTIES
  PasscodeKept
  OnlyOverlapsTakeAway
