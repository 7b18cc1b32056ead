SPECIFICATION Spec
CONSTANTS
  farmer = farmer
  op = op
  slot = slot
  Bookings = {b1, b2}
  Farmers = {b1, b2}
  Operators = {op}
  Slots = {b1, b2}
  FarmerOf <- Own
  OperatorOf <- SharedOperator
  SlotOf <- Own
  Requests = {r1, r2}
  RequestKinds <- AcceptKinds
  Outcomes = {"captured"}
  WalletStart = 1
SYMMETRY FullSymmetry
CHECK_DEADLOCK FALSE
INVARIANT OneOpenJob
