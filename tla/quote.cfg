SPECIFICATION MCSpec
CONSTANTS
  Calls = {c1, c2, c3}
  Workers = {w1, w2}
  Kinds <- MCKinds
  Mixes <- MCMixes
  Prices <- MCPrices
  Wanted <- MCWanted
  ProductDips <- MCProductDips
  QuotientDips <- MCQuotientDips
  Percentages = {10, 50}
  Discounts = {20, 100}
  Finals = {1, 20}
  Multipliers = {150}
  Windows <- MCWindows
  TTL = 1
  MaxTime = 1
  Land = 1
  Hours = 2
  None = None
SYMMETRY Symmetry
CHECK_DEADLOCK FALSE
INVARIANTS
  OneRate
  CommissionAge
  
PROPERTIES
  OnlyOverlapsSplitPrices
  OnlyOverlapsOutdate
  OnlyOverlapsConfuseDates
