SPECIFICATION Spec
CONSTANTS
  k1 = k1
  f1 = f1
  f2 = f2
  s1 = s1
  s2 = s2
  r1 = r1
  r2 = r2
  r3 = r3
  Requests = {r1, r2, r3}
  Farmers = {f1, f2}
  Slots = {s1, s2}
  Keys = {k1}
  None = None
  Plans <- MCPlans
SYMMETRY RequestSymmetry
CONSTRAINT FewMishaps
CHECK_DEADLOCK FALSE
INVARIANTS
  OncePerKey
  CreatedIsBooked
  CacheAgrees
  LocksExclude
PROPERTIES
  ReservationKept
  OnceOnlyKept
