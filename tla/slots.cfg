SPECIFICATION Spec
CONSTANTS
  farmer = farmer
  b1 = b1
  b3 = b3
  op = op
  slot = slot
  Bookings = {b1, b2, b3}
  Farmers = {b1, farmer}
  Operators = {op, b3}
  Slots = {slot, b3}
  FarmerOf <- TwoFarmers
  OperatorOf <- TwoOperators
  SlotOf <- TwoSlots
  Requests = {r1}
  RequestKinds <- ContendKinds
  Outcomes = {"captured"}
  WalletStart = 2
CHECK_DEADLOCK FALSE
INVARIANTS
  WalletPaysOnce
PROPERTIES
  ReservationKept
