-------------------------------- MODULE MCFleet --------------------------------
(***************************************************************************)
(* An instance of Fleet for TLC: o1 is on the way from a new account to an *)
(* approved operator with an approved tractor, and o2, approved already,   *)
(* may be given the tractor.                                               *)
(***************************************************************************)
EXTENDS Fleet, TLC

CONSTANTS o1, o2

MCInit ==
  /\ Init
  /\ account[o2] = ApprovedOperator
  /\ \A t \in Tractors :
       /\ tractor[t].owner = o1
       /\ account[o1] = ApprovedOperator <=> tractor[t].life = "live"
  /\ \A b \in Bookings : booking[b].operator = o1

MCSpec == MCInit /\ [][Next]_vars

\* A bound: handlers that save accounts and handlers that save tractors write different
\* documents, and are not played through both at once.
OneKindOfEdit == accountEdits = {} \/ tractorEdits = {}

\* A bound: what may happen to o1's account is not played through for o2's as well.
OneAccount ==
  /\ account[o2] = ApprovedOperator /\ seen[o2] = "operator"
  /\ \A e \in accountEdits : e.of = o1

CallSymmetry == Permutations(Calls)

=============================================================================
