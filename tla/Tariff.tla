-------------------------------- MODULE Tariff ---------------------------------
(***************************************************************************)
(* The money of a booking: what it costs, what is paid when, how it is     *)
(* shared at the settlement and at a cancellation.  Amounts are integers   *)
(* of paise; round2 of the code rounds rupees, which are binary fractions, *)
(* to two places.                                                          *)
(***************************************************************************)
EXTENDS Integers

CONSTANTS
  Land,   \* acres of a booking
  Hours,  \* and the hours it asks for
  ProductDips,   \* <<n, p>>: n * (p / 100), as computed, lies below the half it should be,
  QuotientDips,  \* and n * p / 100 does
  None

ASSUME Extent == Land \in Nat \ {0} /\ Hours \in Nat \ {0}

ASSUME Dips ==
  \A d \in ProductDips \cup QuotientDips :
    d \in Nat \X Nat /\ (d[1] * d[2]) % 100 = 50

\* Math.round takes halves upwards, but not those that a binary fraction misses.
Nearest(n, p, dips) == (2 * n * p + IF <<n, p>> \in dips THEN 99 ELSE 100) \div 200

\* round2(n * (p / 100))
Percent(n, p) == Nearest(n, p, ProductDips)

Rest(n, m) == IF m < n THEN n - m ELSE 0

(***************************************************************************)
(* A quote is made of a service, the Pricing document of that service (or  *)
(* None), whether the farmer chose the service's type, and percentages.    *)
(***************************************************************************)
Free == [acre |-> 0, hour |-> 0]
Entry(card) == IF card = None THEN Free ELSE card

FirstPriced(a, b, c) == IF a > 0 THEN a ELSE IF b > 0 THEN b ELSE c

Acre(q) ==
  FirstPriced(IF q.typed THEN q.service.type.acre ELSE 0, q.service.acre, Entry(q.doc).acre)
Hour(q) ==
  FirstPriced(IF q.typed THEN q.service.type.hour ELSE 0, q.service.hour, Entry(q.doc).hour)

\* By the acre if there is such a price, by the hour otherwise; then the season.
Base(q) == Percent(IF Acre(q) > 0 THEN Acre(q) * Land ELSE Hour(q) * Hours, q.multiplier)

Gst(n) == Percent(n, 18)

Total(q) == Base(q) + Gst(Base(q)) + Percent(Base(q), q.percentage)

\* The discount alone is rounded as round2(n * p / 100).
Quoted(q) == Rest(Total(q), Nearest(Total(q), q.discount, QuotientDips))

\* Mutant: a tenth of the code's advance.
AdvanceTenth(q) == Percent(Quoted(q), 3)

Advance(q) == Percent(Quoted(q), 30)

\* The final amount is the one quoted, unless the operator has put down another when
\* he completed the job; nothing may be left of that to pay.
Final(q) == IF q.final = None THEN Quoted(q) ELSE q.final
Remaining(q) == Rest(Final(q), Advance(q))

(***************************************************************************)
(* The settlement divides the total, not what was paid, and takes the      *)
(* percentage of that day of it.                                           *)
(***************************************************************************)
SettledFee(q, percentage) == Percent(Total(q), percentage)
OperatorEarning(q, percentage) ==
  Rest(Rest(Total(q), SettledFee(q, percentage)), Gst(Total(q)))
Settled(q, percentage) ==
  SettledFee(q, percentage) + Gst(Total(q)) + OperatorEarning(q, percentage)

(***************************************************************************)
(* A cancellation divides the total into refund and penalty.               *)
(***************************************************************************)
Engaged == {"accepted", "confirmed", "en_route"}
Working == {"in_progress", "completed", "payment_pending"}
Cancellable == {"pending"} \cup Engaged \cup Working

\* early: more than two hours before the start
CalculateRefund(status, early, total) ==
  CASE status = "pending" -> [refund |-> total, penalty |-> 0]
    [] status \in Engaged /\ early ->
         [refund |-> Percent(total, 80), penalty |-> Percent(total, 20)]
    [] status \in Engaged /\ ~early ->
         [refund |-> Percent(total, 50), penalty |-> Percent(total, 50)]
    [] status \in Working -> [refund |-> 0, penalty |-> total]
    [] OTHER -> [refund |-> 0, penalty |-> 0]

\* resolveRefundSnapshot: a farmer who has paid the advance loses it.
RefundSnapshot(status, early, total, advancePaid, byFarmer) ==
  IF advancePaid /\ byFarmer THEN [refund |-> 0, penalty |-> total]
  ELSE CalculateRefund(status, early, total)
=============================================================================
