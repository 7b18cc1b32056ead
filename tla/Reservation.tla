----------------------------- MODULE Reservation -----------------------------
(***************************************************************************)
(* What the backend promises about the things that bookings occupy, a      *)
(* farmer and a tractor's slot each: while a booking is active it has them *)
(* to itself.  A booking may be set aside, above all while a payment is    *)
(* confirmed, and comes back only if what it needs is still vacant.        *)
(***************************************************************************)
CONSTANT Bookings

VARIABLES
  needs,   \* booking -> the things it occupies, which never change
  state    \* booking -> "none" before it is made, "active" or "aside"

vars == <<needs, state>>

TypeOK == state \in [Bookings -> {"none", "active", "aside"}]

Init == state = [b \in Bookings |-> "none"]

Vacant(b) ==
  \A o \in Bookings \ {b} : state[o] = "active" => needs[o] \cap needs[b] = {}

Moves(b, from, to) ==
  /\ state[b] = from
  /\ state' = [state EXCEPT ![b] = to]
  /\ UNCHANGED needs

Make(b) == Moves(b, "none", "active") /\ Vacant(b)
SetAside(b) == Moves(b, "active", "aside")
Return(b) == Moves(b, "aside", "active") /\ Vacant(b)

Next == \E b \in Bookings : Make(b) \/ SetAside(b) \/ Return(b)

Spec == Init /\ [][Next]_vars

\* Active bookings have nothing in common.
Apart ==
  \A b, o \in Bookings :
    (b # o /\ state[b] = "active" /\ state[o] = "active") => needs[b] \cap needs[o] = {}

=============================================================================
