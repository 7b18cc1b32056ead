-------------------------- MODULE MCBookingPayment --------------------------
(***************************************************************************)
(* Instances of BookingPayment for TLC.  The bookings of an instance share *)
(* a slot, a farmer or an operator, so that the indexes, the wallet and    *)
(* the operator's guard have something to decide.                          *)
(***************************************************************************)
EXTENDS BookingPaymentClaims, TLC

CONSTANTS farmer, op, slot

SharedFarmer == [b \in Bookings |-> farmer]
SharedOperator == [b \in Bookings |-> op]
SharedSlot == [b \in Bookings |-> slot]
\* A farmer, or a slot, of each booking's own.
Own == [b \in Bookings |-> b]

\* Which requests the clients issue in the instances with several bookings.
ContendKinds == {"accept", "payAdvance", "start", "cancelByFarmer"}
AcceptKinds == {"accept"}

\* Requests differ in nothing, nor do bookings that share slot and operator.
RequestSymmetry == Permutations(Requests)
FullSymmetry == Permutations(Requests) \cup Permutations(Bookings)

=============================================================================
