SPECIFICATION FairSpec
CONSTANTS
  farmer = farmer
  op = op
  slot = slot
  Bookings = {b1}
  Farmers = {b1}
  Operators = {op}
  Slots = {slot}
  FarmerOf <- Own
  OperatorOf <- SharedOperator
  SlotOf <- SharedSlot
  Requests = {r1, r2}
  RequestKinds <- Kinds
  Outcomes = {"captured", "failed"}
  WalletStart = 1
CHECK_DEADLOCK FALSE
INVARIANTS
  TypeOK
  WorkNeedsAdvance
  MoneyOrder
  AwaitedPayment
PROPERTIES
  SuccessIsFinal
  OnlyStaleSavesLeaveTheMap
  EscrowKept
  WaitingEnds
