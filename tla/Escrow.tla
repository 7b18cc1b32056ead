------------------------------- MODULE Escrow -------------------------------
(***************************************************************************)
(* What the backend promises about a booking's money, whatever handlers,   *)
(* crons and provider callbacks do to each other: no row is confirmed      *)
(* before the provider has captured it, no work starts before the advance  *)
(* is confirmed, the balance is asked for finished work only, the wallet   *)
(* pays once per advance, and the operator's share is booked after the     *)
(* balance.                                                                *)
(***************************************************************************)
EXTENDS Naturals

CONSTANTS Bookings, Farmers, FarmerOf, WalletStart

PaymentTypes == {"advance", "remaining"}

VARIABLES
  captured,   \* <<booking, type>> pairs whose money the provider holds
  row,        \* booking -> type -> status of the payment row
  began,      \* bookings whose work has begun
  finished,   \* bookings whose work is finished
  wallet,     \* farmer -> advances the wallet still covers
  earned      \* bookings whose operator share is booked

vars == <<captured, row, began, finished, wallet, earned>>

Init ==
  /\ captured = {}
  /\ row = [b \in Bookings |-> [t \in PaymentTypes |-> "none"]]
  /\ began = {}
  /\ finished = {}
  /\ wallet = [f \in Farmers |-> WalletStart]
  /\ earned = {}

Capture(b, t) ==
  /\ captured' = captured \cup {<<b, t>>}
  /\ UNCHANGED <<row, began, finished, wallet, earned>>

\* The advance is recorded once, and its wallet debit with it.
RecordAdvance(b) ==
  /\ row[b]["advance"] = "none"
  /\ wallet[FarmerOf[b]] > 0
  /\ row' = [row EXCEPT ![b]["advance"] = "PENDING"]
  /\ wallet' = [wallet EXCEPT ![FarmerOf[b]] = @ - 1]
  /\ UNCHANGED <<captured, began, finished, earned>>

RecordRemaining(b) ==
  /\ b \in finished
  /\ row[b]["remaining"] = "none"
  /\ row' = [row EXCEPT ![b]["remaining"] = "PENDING"]
  /\ UNCHANGED <<captured, began, finished, wallet, earned>>

Confirm(b, t) ==
  /\ <<b, t>> \in captured
  /\ row[b][t] \in {"PENDING", "FAILED"}
  /\ row' = [row EXCEPT ![b][t] = "SUCCESS"]
  /\ UNCHANGED <<captured, began, finished, wallet, earned>>

Decline(b, t) ==
  /\ row[b][t] = "PENDING"
  /\ row' = [row EXCEPT ![b][t] = "FAILED"]
  /\ UNCHANGED <<captured, began, finished, wallet, earned>>

BeginWork(b) ==
  /\ row[b]["advance"] = "SUCCESS"
  /\ began' = began \cup {b}
  /\ UNCHANGED <<captured, row, finished, wallet, earned>>

FinishWork(b) ==
  /\ b \in began
  /\ finished' = finished \cup {b}
  /\ UNCHANGED <<captured, row, began, wallet, earned>>

Earn(b) ==
  /\ row[b]["remaining"] = "SUCCESS"
  /\ earned' = earned \cup {b}
  /\ UNCHANGED <<captured, row, began, finished, wallet>>

Next ==
  \E b \in Bookings :
    \/ RecordAdvance(b)
    \/ RecordRemaining(b)
    \/ BeginWork(b)
    \/ FinishWork(b)
    \/ Earn(b)
    \/ \E t \in PaymentTypes : Capture(b, t) \/ Confirm(b, t) \/ Decline(b, t)

Spec == Init /\ [][Next]_vars

=============================================================================
