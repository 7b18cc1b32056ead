SPECIFICATION MCSpec
CONSTANTS
  o1 = o1
  o2 = o2
  Operators = {o1, o2}
  Calls = {c1, c2, c3}
  Tractors = {t1}
  Services = {s1}
  Photo = {}
  Documents = {rc, insurance}
  Dated = {insurance}
  Dates = {next_year}
  Bookings = {b1}
  None = None
SYMMETRY CallSymmetry
CONSTRAINTS
  OneKindOfEdit
  OneAccount
CHECK_DEADLOCK FALSE
PROPERTIES
  OnlyOverlapsMisapprove
  OnlyOverlapsMisjudge
  OnlyOverlapsStripPapers
  DeletedStays
  BookedOnOffer
  DeletionSparesWork
