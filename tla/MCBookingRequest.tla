--------------------------- MODULE MCBookingRequest ---------------------------
(***************************************************************************)
(* Instances of BookingRequest for TLC: requests that all bear one key, or *)
(* that bear none.                                                         *)
(***************************************************************************)
EXTENDS BookingRequest, TLC, FiniteSets

CONSTANTS k1, f1, f2, s1, s2, r1, r2, r3

\* r1 and r2 are alike, and r3 differs from them.
Pair(ask, other) == [r \in {r1, r2} |-> ask] @@ (r3 :> other)

\* One key: one farmer sends one body twice and another one once.  No key: one
\* slot, two farmers, one of them twice.
MCPlans ==
  {Pair([key |-> k1, farmer |-> f1, slot |-> s1], [key |-> k1, farmer |-> f1, slot |-> s2]),
   Pair([key |-> None, farmer |-> f1, slot |-> s1], [key |-> None, farmer |-> f2, slot |-> s1])}

\* How often things go wrong.  With a key at most two requests are cut short; one
\* alone takes the locks, so that they may as well not run out.  Without a key nobody
\* hears of another's answer: at most one request dies, or has a lock run out under
\* it, and one booking at a time is set aside.
CutOff == {r \in Requests : sent[r] \in {"lost", "timeout"} \/ stage[r] = "dead"}
Aside == {r \in Requests : booked[r] = "aside"}

FewMishaps ==
  IF \A r \in Requests : KeyOf(r) = k1
  THEN Cardinality(CutOff) <= 2 /\ lapsed = {}
  ELSE /\ \A r \in CutOff : stage[r] = "dead"
       /\ Cardinality(CutOff) + Cardinality(lapsed) <= 1
       /\ Cardinality(Aside) <= 1

RequestSymmetry == Permutations({r1, r2})

=============================================================================
