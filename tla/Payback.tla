------------------------------- MODULE Payback -------------------------------
(***************************************************************************)
(* What a refund promises about one booking's money, however many admins,  *)
(* cancellations and late captures race: only a confirmed payment is given *)
(* back, it stays confirmed or becomes refunded and never anything else, a *)
(* row says refunded only after the money went back, and a wallet that     *)
(* paid is credited at most once, after that.                              *)
(***************************************************************************)
CONSTANTS Payments, Debited

VARIABLES
  confirmed,   \* payments that were confirmed
  givenBack,   \* those the provider has given back
  refunded,    \* those whose row says so
  credited,    \* those credited to the wallet
  entered      \* those with a refund entry in the ledger

vars == <<confirmed, givenBack, refunded, credited, entered>>

Init ==
  /\ confirmed = {}
  /\ givenBack = {}
  /\ refunded = {}
  /\ credited = [p \in Payments |-> 0]
  /\ entered = {}

Confirm(p) ==
  /\ confirmed' = confirmed \cup {p}
  /\ UNCHANGED <<givenBack, refunded, credited, entered>>

GiveBack(p) ==
  /\ p \in confirmed
  /\ givenBack' = givenBack \cup {p}
  /\ UNCHANGED <<confirmed, refunded, credited, entered>>

Refund(p) ==
  /\ p \in givenBack
  /\ refunded' = refunded \cup {p}
  /\ UNCHANGED <<confirmed, givenBack, credited, entered>>

Credit(p) ==
  /\ p \in refunded \cap Debited
  /\ credited[p] = 0
  /\ credited' = [credited EXCEPT ![p] = 1]
  /\ UNCHANGED <<confirmed, givenBack, refunded, entered>>

Enter(p) ==
  /\ p \in refunded
  /\ entered' = entered \cup {p}
  /\ UNCHANGED <<confirmed, givenBack, refunded, credited>>

Next ==
  \E p \in Payments : Confirm(p) \/ GiveBack(p) \/ Refund(p) \/ Credit(p) \/ Enter(p)

Spec == Init /\ [][Next]_vars

=============================================================================
