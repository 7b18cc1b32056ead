------------------------------ MODULE MCSlots ------------------------------
(***************************************************************************)
(* An instance of BookingPayment in which bookings contend for a slot, an  *)
(* operator and a farmer: b1 and b2 want one slot, b2 and b3 are one       *)
(* farmer's, and b3 has a tractor of another operator.                     *)
(***************************************************************************)
EXTENDS MCBookingPayment

CONSTANTS b1, b3

TwoFarmers == [b \in Bookings |-> IF b = b1 THEN b1 ELSE farmer]
TwoOperators == [b \in Bookings |-> IF b = b3 THEN b3 ELSE op]
TwoSlots == [b \in Bookings |-> IF b = b3 THEN b3 ELSE slot]

=============================================================================
