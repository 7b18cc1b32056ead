-------------------------- MODULE ReservationProofs --------------------------
(***************************************************************************)
(* What follows from the promise of module Reservation, proved once for    *)
(* every specification that implements it.                                 *)
(***************************************************************************)
EXTENDS Reservation, TLAPS

\* A booking becomes active only where what it needs is vacant.
LEMMA ApartStep == TypeOK /\ Apart /\ [Next]_vars => TypeOK' /\ Apart'
<1> SUFFICES ASSUME TypeOK, Apart, [Next]_vars PROVE TypeOK' /\ Apart'
  OBVIOUS
<1> USE DEF TypeOK, Apart, Vacant, Moves
<1>1. ASSUME NEW b \in Bookings, Make(b) \/ Return(b) PROVE TypeOK' /\ Apart'
  <2>1. state' = [state EXCEPT ![b] = "active"] /\ needs' = needs
    BY <1>1 DEF Make, Return
  <2>2. \A o \in Bookings \ {b} : state[o] = "active" => needs[o] \cap needs[b] = {}
    BY <1>1 DEF Make, Return
  <2>3. QED BY <2>1, <2>2
<1>2. ASSUME NEW b \in Bookings, SetAside(b) PROVE TypeOK' /\ Apart'
  BY <1>2 DEF SetAside
<1>3. CASE UNCHANGED vars
  BY <1>3 DEF vars
<1>4. QED BY <1>1, <1>2, <1>3 DEF Next

\* Whatever keeps the promise of module Reservation never has two active bookings
\* that need the same farmer or the same slot.
THEOREM ActiveApart == Spec => []Apart
<1>1. Init => TypeOK /\ Apart
  BY DEF Init, TypeOK, Apart
<1>2. QED BY <1>1, ApartStep, PTL DEF Spec

=============================================================================
