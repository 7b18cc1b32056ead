------------------------------ MODULE QuoteProofs ------------------------------
(***************************************************************************)
(* Proofs about Quote, for any prices, percentages, calls and workers.     *)
(***************************************************************************)
EXTENDS Quote, SequenceTheorems, TLAPS

(***************************************************************************)
(* The inductive invariant                                                 *)
(***************************************************************************)
TradeTypeOK ==
  /\ visits \subseteq Visits /\ booked \subseteq Quotes
  /\ completions \subseteq Completions /\ settlements \subseteq Settlements
RateTypeOK ==
  rates \in Seq(Rates) /\ cached \in Cached \cup {None} /\ asks \subseteq Asks /\ upserts \subseteq Upserts
CalendarTypeOK ==
  seasons \subseteq Seasons /\ plans \subseteq Plans /\ offers \subseteq Offers /\ offerEdits \subseteq OfferEdits

\* A handler under way belongs to a call that was made and is not lost.
Owned == lost \subseteq spent /\ UnderWay \subseteq spent \ lost

\* A farmer who was let through has seen a service, with a type if he chose one.
VisitOK(v) == v.step # "find" => v.service \in Services /\ (v.typed => v.service.type # None)
TypesFound ==
  /\ \A v \in visits : VisitOK(v)
  /\ \A q \in booked : q.typed => q.service.type # None

\* What was paid is more than the advance, and the final amount unless the booking was
\* completed again; it is what was quoted if the operator never put down an amount.
PaidFor(q) ==
  q.paid # None =>
    /\ 0 < Advance(q) /\ Advance(q) < q.paid
    /\ q.anew \/ q.paid = Final(q)
    /\ q.final = None => q.paid = Quoted(q)
PaidOK == \A q \in booked : PaidFor(q)

\* A replaced commission was replaced by now.
RatesOK == OneRate /\ \A i \in 1 .. Len(rates) : ~rates[i].active => rates[i].until <= clock

\* Redis holds a commission that exists, not for longer than it should.
CachedOK ==
  cached # None =>
    /\ cached.rate \in 1 .. Len(rates)
    /\ cached.until <= clock + TTL
    /\ ~cached.late /\ ~rates[cached.rate].active =>
         cached.until <= rates[cached.rate].until + TTL

AskOK(a) ==
  a.step # "get" =>
    /\ a.rate \in 1 .. Len(rates)
    /\ a.at <= clock
    /\ ~a.late /\ ~rates[a.rate].active => a.at < rates[a.rate].until + TTL

AsksOK == \A a \in asks : AskOK(a)

\* A new season is apart from those that were seen.
PlansOK == \A p \in plans : \A x \in p.saw : ~Overlap(x, p.season)

\* Offers have their own names, and dates are checked against the offer as read.
OffersNamed ==
  /\ \A o \in offers : o.by \in spent \cup {None}
  /\ \A o, n \in offers : o.by = n.by => o = n
DatesChecked == \A x \in offerEdits : Given(x.from, x.of.from) < Given(x.to, x.of.to)
OffersOK == OffersNamed /\ DatesChecked

IInv ==
  /\ QuoteTypeOK
  /\ Owned
  /\ TypesFound
  /\ PaidOK
  /\ RatesOK
  /\ CachedOK
  /\ AsksOK
  /\ PlansOK
  /\ OffersOK

-----------------------------------------------------------------------------
\* The money.
LEMMA Product ==
  ASSUME NEW n \in Nat, NEW p \in Nat
  PROVE  n * p \in Nat
OBVIOUS

\* What is rounded is half a paisa off at most, whichever halves are missed.
LEMMA NearestBounds ==
  ASSUME NEW n \in Nat, NEW p \in Nat, NEW dips
  PROVE  /\ Nearest(n, p, dips) \in Nat
         /\ 200 * Nearest(n, p, dips) <= 2 * (n * p) + 100
         /\ 2 * (n * p) <= 200 * Nearest(n, p, dips) + 100
<1> DEFINE m == n * p
           k == IF <<n, p>> \in dips THEN 99 ELSE 100
<1>1. m \in Nat /\ k \in {99, 100}
  BY Product
<1>2. 2 * n * p = 2 * m
  OBVIOUS
<1>3. Nearest(n, p, dips) = (2 * m + k) \div 200
  BY <1>2 DEF Nearest
<1> HIDE DEF m, k
<1>4. /\ (2 * m + k) \div 200 \in Nat
      /\ 200 * ((2 * m + k) \div 200) <= 2 * m + 100
      /\ 2 * m <= 200 * ((2 * m + k) \div 200) + 100
  BY <1>1
<1>5. QED BY <1>3, <1>4 DEF m

\* A percentage of nothing, and no per cent, are nothing.
LEMMA NearestNothing ==
  ASSUME NEW n \in Nat, NEW p \in Nat, NEW dips, n = 0 \/ p = 0
  PROVE  Nearest(n, p, dips) = 0
<1>1. n * p = 0
  OBVIOUS
<1>2. QED BY <1>1, NearestBounds

LEMMA PercentBounds ==
  ASSUME NEW n \in Nat, NEW p \in Nat
  PROVE  /\ Percent(n, p) \in Nat
         /\ 200 * Percent(n, p) <= 2 * (n * p) + 100
         /\ 2 * (n * p) <= 200 * Percent(n, p) + 100
BY NearestBounds DEF Percent

\* The fee, the tax and the operator's earning are the whole total.
LEMMA SharesAddUp ==
  ASSUME NEW n \in Nat, NEW p \in Nat, p <= 81
  PROVE  Percent(n, p) + Gst(n) + Rest(Rest(n, Percent(n, p)), Gst(n)) = n
<1> DEFINE fee == Percent(n, p)
           gst == Percent(n, 18)
           m == n * p
<1>1. fee \in Nat /\ gst \in Nat /\ m \in Nat
  BY PercentBounds, Product
<1>2. 200 * fee <= 2 * m + 100 /\ 200 * gst <= 36 * n + 100
  BY PercentBounds
<1>3. m <= 81 * n
  <2>1. n * (81 - p) \in Nat
    BY Product
  <2>2. n * (81 - p) = 81 * n - m
    OBVIOUS
  <2> HIDE DEF m
  <2>3. QED BY <1>1, <2>1, <2>2
<1>4. n = 0 => fee = 0 /\ gst = 0
  BY NearestNothing DEF Percent
<1> HIDE DEF fee, gst, m
<1>5. fee + gst <= n
  BY <1>1, <1>2, <1>3, <1>4
<1>6. fee + gst + Rest(Rest(n, fee), gst) = n
  BY <1>1, <1>5 DEF Rest
<1>7. QED BY <1>6 DEF Gst, fee, gst

\* An advance is less than what it is an advance of.
LEMMA AdvanceBounds ==
  ASSUME NEW n \in Nat, n >= 2
  PROVE  0 < Percent(n, 30) /\ Percent(n, 30) < n
<1>1. /\ Percent(n, 30) \in Nat
      /\ 200 * Percent(n, 30) <= 60 * n + 100
      /\ 60 * n <= 200 * Percent(n, 30) + 100
  BY PercentBounds
<1>2. QED BY <1>1

\* Refund and penalty are the total, or it is halved and a paisa is lost or gained.
Divides(r, n) ==
  \/ r.refund + r.penalty = n
  \/ r.refund = r.penalty /\ r.refund + r.penalty - n \in {-1, 1}

LEMMA RefundAddsUp ==
  ASSUME NEW n \in Nat, NEW status, NEW early \in BOOLEAN, status \in Cancellable
  PROVE  Divides(CalculateRefund(status, early, n), n)
<1> DEFINE r == CalculateRefund(status, early, n)
<1>1. Percent(n, 80) + Percent(n, 20) = n
  <2> DEFINE a == Percent(n, 80)
             b == Percent(n, 20)
  <2>1. /\ a \in Nat /\ 200 * a <= 160 * n + 100 /\ 160 * n <= 200 * a + 100
        /\ b \in Nat /\ 200 * b <= 40 * n + 100 /\ 40 * n <= 200 * b + 100
    <3>1. 2 * (n * 80) = 160 * n /\ 2 * (n * 20) = 40 * n
      OBVIOUS
    <3>2. /\ a \in Nat /\ 200 * a <= 2 * (n * 80) + 100 /\ 2 * (n * 80) <= 200 * a + 100
      BY PercentBounds
    <3>3. /\ b \in Nat /\ 200 * b <= 2 * (n * 20) + 100 /\ 2 * (n * 20) <= 200 * b + 100
      BY PercentBounds
    <3>4. QED BY <3>1, <3>2, <3>3
  <2> HIDE DEF a, b
  <2>2. 200 * a # 160 * n + 100 /\ 160 * n # 200 * a + 100
    <3>1. \A i \in Int : 2 * i # 5 /\ 2 * i # -5
      OBVIOUS
    <3>2. 5 * a - 4 * n \in Int
      BY <2>1
    <3>3. 200 * a - 160 * n = 40 * (5 * a - 4 * n)
      BY <2>1
    <3> DEFINE i == 5 * a - 4 * n
    <3>4. 40 * i # 100 /\ 40 * i # -100
      <4>1. i \in Int /\ 2 * i # 5 /\ 2 * i # -5
        BY <3>1, <3>2
      <4> HIDE DEF i
      <4>2. QED BY <4>1
    <3>5. QED BY <2>1, <3>3, <3>4
  <2>3. a + b = n
    BY <2>1, <2>2
  <2>4. QED BY <2>3 DEF a, b
<1>2. Percent(n, 50) + Percent(n, 50) - n \in {-1, 0, 1}
  <2>1. /\ Percent(n, 50) \in Nat
        /\ 200 * Percent(n, 50) <= 100 * n + 100
        /\ 100 * n <= 200 * Percent(n, 50) + 100
    BY PercentBounds
  <2>2. QED BY <2>1
<1>3. Percent(n, 80) \in Nat /\ Percent(n, 20) \in Nat /\ Percent(n, 50) \in Nat
  BY PercentBounds
<1>4. CASE status = "pending"
  <2>1. r = [refund |-> n, penalty |-> 0]
    BY <1>4 DEF CalculateRefund, Engaged, Working
  <2> HIDE DEF r
  <2>2. QED BY <2>1 DEF Divides, r
<1>5. CASE status \in Engaged /\ early
  <2>1. r = [refund |-> Percent(n, 80), penalty |-> Percent(n, 20)]
    BY <1>5 DEF CalculateRefund, Engaged, Working
  <2> HIDE DEF r
  <2>2. QED BY <1>1, <2>1 DEF Divides, r
<1>6. CASE status \in Engaged /\ ~early
  <2>1. r = [refund |-> Percent(n, 50), penalty |-> Percent(n, 50)]
    BY <1>6 DEF CalculateRefund, Engaged, Working
  <2> HIDE DEF r
  <2>2. QED BY <1>2, <1>3, <2>1 DEF Divides, r
<1>7. CASE status \in Working
  <2>1. r = [refund |-> 0, penalty |-> n]
    BY <1>7 DEF CalculateRefund, Engaged, Working
  <2> HIDE DEF r
  <2>2. QED BY <2>1 DEF Divides, r
<1>8. QED BY <1>4, <1>5, <1>6, <1>7 DEF Cancellable

LEMMA Scales ==
  /\ \A m \in Multipliers \cup {100} : m \in Nat
  /\ \A p \in Percentages : p \in 0 .. 100
  /\ \A d \in Discounts \cup {0} : d \in Nat
  /\ \A f \in Finals : f \in Nat
BY Rules

\* Prices are amounts, and so is what is made of them.
LEMMA QuoteMoney ==
  ASSUME NEW q \in Quotes, q.typed => q.service.type # None
  PROVE  /\ Total(q) \in Nat /\ Quoted(q) \in Nat /\ Advance(q) \in Nat
         /\ Final(q) \in Nat /\ Remaining(q) \in Nat
         /\ q.discount = 0 => Quoted(q) = Total(q)
<1>1. /\ q.service \in Services /\ q.doc \in Cards \cup {None} /\ q.typed \in BOOLEAN
      /\ q.multiplier \in Nat /\ q.percentage \in Nat /\ q.discount \in Nat
  <2>1. /\ q.service \in Services /\ q.doc \in Cards \cup {None} /\ q.typed \in BOOLEAN
        /\ q.multiplier \in Multipliers \cup {100} /\ q.percentage \in Percentages
        /\ q.discount \in Discounts \cup {0}
    BY DEF Quotes
  <2>2. QED BY <2>1, Scales
<1>2. /\ q.service.acre \in Nat /\ q.service.hour \in Nat
      /\ q.service.type # None => q.service.type.acre \in Nat /\ q.service.type.hour \in Nat
  BY <1>1, Inputs DEF Services, Cards
<1>3. Entry(q.doc).acre \in Nat /\ Entry(q.doc).hour \in Nat
  BY <1>1, Inputs DEF Cards, Entry, Free
<1>4. Acre(q) \in Nat /\ Hour(q) \in Nat
  BY <1>1, <1>2, <1>3 DEF Acre, Hour, FirstPriced
<1>5. Acre(q) * Land \in Nat /\ Hour(q) * Hours \in Nat
  BY <1>4, Product, Extent
<1>6. Base(q) \in Nat
  <2> DEFINE n == IF Acre(q) > 0 THEN Acre(q) * Land ELSE Hour(q) * Hours
  <2>1. n \in Nat
    BY <1>5
  <2> HIDE DEF n
  <2>2. Percent(n, q.multiplier) \in Nat
    BY <1>1, <2>1, PercentBounds
  <2>3. QED BY <2>2 DEF Base, n
<1>7. Total(q) \in Nat
  <2>1. Gst(Base(q)) \in Nat /\ Percent(Base(q), q.percentage) \in Nat
    BY <1>1, <1>6, PercentBounds DEF Gst
  <2>2. QED BY <1>6, <2>1 DEF Total
<1>8. Quoted(q) \in Nat /\ (q.discount = 0 => Quoted(q) = Total(q))
  <2>1. /\ Nearest(Total(q), q.discount, QuotientDips) \in Nat
        /\ q.discount = 0 => Nearest(Total(q), q.discount, QuotientDips) = 0
    BY <1>1, <1>7, NearestBounds, NearestNothing
  <2>2. QED BY <1>7, <2>1 DEF Quoted, Rest
<1>9. Advance(q) \in Nat
  BY <1>8, PercentBounds DEF Advance
<1>10. Final(q) \in Nat
  <2>1. q.final \in Finals \cup {None}
    BY DEF Quotes
  <2>2. QED BY <1>8, <2>1, Scales DEF Final
<1>11. QED BY <1>7, <1>8, <1>9, <1>10 DEF Remaining, Rest

\* Nothing that is done to a booking changes its price.
LEMMA SamePrice ==
  ASSUME NEW q, NEW n, n.typed = q.typed, n.service = q.service, n.doc = q.doc,
         n.multiplier = q.multiplier, n.percentage = q.percentage, n.discount = q.discount
  PROVE  Quoted(n) = Quoted(q) /\ Advance(n) = Advance(q)
<1>1. Base(n) = Base(q)
  BY DEF Base, Acre, Hour
<1>2. Total(n) = Total(q)
  BY <1>1 DEF Total
<1>3. Quoted(n) = Quoted(q)
  BY <1>2 DEF Quoted
<1>4. QED BY <1>3 DEF Advance

LEMMA PaidFields ==
  ASSUME NEW q \in Quotes, NEW p
  PROVE  LET n == [q EXCEPT !.paid = p]
         IN /\ n.paid = p /\ n.final = q.final /\ n.anew = q.anew
            /\ Quoted(n) = Quoted(q) /\ Advance(n) = Advance(q) /\ Final(n) = Final(q)
<1> DEFINE n == [q EXCEPT !.paid = p]
<1>1. /\ n.paid = p /\ n.final = q.final /\ n.anew = q.anew
      /\ n.typed = q.typed /\ n.service = q.service /\ n.doc = q.doc
      /\ n.multiplier = q.multiplier /\ n.percentage = q.percentage /\ n.discount = q.discount
  BY DEF Quotes
<1> HIDE DEF n
<1>2. Quoted(n) = Quoted(q) /\ Advance(n) = Advance(q)
  BY <1>1, SamePrice
<1>3. QED BY <1>1, <1>2 DEF Final, n

LEMMA SettledFields ==
  ASSUME NEW q \in Quotes, NEW p
  PROVE  LET n == [q EXCEPT !.settled = p]
         IN /\ n.paid = q.paid /\ n.final = q.final /\ n.anew = q.anew
            /\ Quoted(n) = Quoted(q) /\ Advance(n) = Advance(q) /\ Final(n) = Final(q)
<1> DEFINE n == [q EXCEPT !.settled = p]
<1>1. /\ n.paid = q.paid /\ n.final = q.final /\ n.anew = q.anew
      /\ n.typed = q.typed /\ n.service = q.service /\ n.doc = q.doc
      /\ n.multiplier = q.multiplier /\ n.percentage = q.percentage /\ n.discount = q.discount
  BY DEF Quotes
<1> HIDE DEF n
<1>2. Quoted(n) = Quoted(q) /\ Advance(n) = Advance(q)
  BY <1>1, SamePrice
<1>3. QED BY <1>1, <1>2 DEF Final, n

\* A completion leaves what was paid, and never takes an operator's final amount away.
LEMMA CompletedFields ==
  ASSUME NEW q \in Quotes, NEW f \in Finals \cup {None}
  PROVE  LET n == Completed(q, f)
         IN /\ n \in Quotes /\ n.typed = q.typed /\ n.service = q.service
            /\ n.paid = q.paid /\ n.anew = (q.paid # None)
            /\ n.final = None => q.final = None
            /\ Quoted(n) = Quoted(q) /\ Advance(n) = Advance(q)
<1> DEFINE g == IF f \in {None, Quoted(q)} THEN q.final ELSE f
           a == q.paid # None
           n == [q EXCEPT !.final = g, !.anew = a]
<1>1. g \in Finals \cup {None} /\ a \in BOOLEAN /\ (g = None => q.final = None)
  BY DEF Quotes
<1>2. Completed(q, f) = n
  BY DEF Completed, Quotes
<1> HIDE DEF g, a
<1>3. /\ n \in Quotes /\ n.paid = q.paid /\ n.anew = a /\ n.final = g
      /\ n.typed = q.typed /\ n.service = q.service /\ n.doc = q.doc
      /\ n.multiplier = q.multiplier /\ n.percentage = q.percentage /\ n.discount = q.discount
  <2>1. n \in Quotes
    BY <1>1 DEF Quotes
  <2>2. /\ n.paid = q.paid /\ n.final = g
        /\ n.typed = q.typed /\ n.service = q.service /\ n.doc = q.doc
        /\ n.multiplier = q.multiplier /\ n.percentage = q.percentage /\ n.discount = q.discount
    BY <1>1 DEF Quotes
  <2>3. n.anew = a
    BY <1>1, Zenon DEF Quotes
  <2>4. QED BY <2>1, <2>2, <2>3
<1> HIDE DEF n
<1>4. Quoted(n) = Quoted(q) /\ Advance(n) = Advance(q)
  BY <1>3, SamePrice
<1>5. QED BY <1>1, <1>2, <1>3, <1>4 DEF a

\* What a booking's money adds up to.
LEMMA BookedMoney ==
  ASSUME booked \subseteq Quotes, \A q \in booked : q.typed => q.service.type # None, PaidOK
  PROVE  MoneyAddsUp
<1> SUFFICES
      ASSUME NEW q \in booked
      PROVE  LET total == Total(q)
                 quoted == Quoted(q)
                 advance == Advance(q)
             IN /\ quoted >= 2 => 0 < advance /\ advance < quoted
                /\ q.paid # None =>
                     /\ 0 < advance /\ advance < q.paid
                     /\ q.anew \/ q.paid = Final(q)
                     /\ total > q.paid => q.discount > 0 \/ q.final # None
                /\ q.settled # None /\ q.settled <= 81 => Settled(q, q.settled) = total
                /\ \A status \in Cancellable, early, advancePaid, byFarmer \in BOOLEAN :
                     LET r == RefundSnapshot(status, early, total, advancePaid, byFarmer)
                     IN \/ r.refund + r.penalty = total
                        \/ r.refund = r.penalty /\ r.refund + r.penalty - total \in {-1, 1}
  BY DEF MoneyAddsUp
<1>1. /\ Total(q) \in Nat /\ Quoted(q) \in Nat /\ (q.discount = 0 => Quoted(q) = Total(q))
      /\ q.discount \in Nat /\ q.settled \in (0 .. 100) \cup {None}
  <2>1. q \in Quotes /\ (q.typed => q.service.type # None)
    OBVIOUS
  <2>2. q.discount \in Discounts \cup {0} /\ q.settled \in Percentages \cup {None}
    BY <2>1 DEF Quotes
  <2>3. QED BY <2>1, <2>2, QuoteMoney, Scales
<1>2. Quoted(q) >= 2 => 0 < Advance(q) /\ Advance(q) < Quoted(q)
  BY <1>1, AdvanceBounds DEF Advance
<1>3. ASSUME q.paid # None
      PROVE  /\ 0 < Advance(q) /\ Advance(q) < q.paid
             /\ q.anew \/ q.paid = Final(q)
             /\ Total(q) > q.paid => q.discount > 0 \/ q.final # None
  <2>1. /\ 0 < Advance(q) /\ Advance(q) < q.paid
        /\ q.anew \/ q.paid = Final(q)
        /\ q.final = None => q.paid = Quoted(q)
    BY <1>3 DEF PaidOK, PaidFor
  <2>2. q.final = None /\ q.discount = 0 => q.paid = Total(q)
    BY <1>1, <2>1
  <2>3. QED BY <1>1, <2>1, <2>2
<1>4. ASSUME q.settled # None, q.settled <= 81 PROVE Settled(q, q.settled) = Total(q)
  <2>1. q.settled \in Nat
    BY <1>1, <1>4
  <2>2. Settled(q, q.settled) = Percent(Total(q), q.settled) + Gst(Total(q))
                 + Rest(Rest(Total(q), Percent(Total(q), q.settled)), Gst(Total(q)))
    BY DEF Settled, OperatorEarning, SettledFee
  <2>3. QED BY <1>1, <1>4, <2>1, <2>2, SharesAddUp
<1>5. ASSUME NEW status \in Cancellable, NEW early \in BOOLEAN, NEW advancePaid \in BOOLEAN,
             NEW byFarmer \in BOOLEAN
      PROVE  LET r == RefundSnapshot(status, early, Total(q), advancePaid, byFarmer)
             IN \/ r.refund + r.penalty = Total(q)
                \/ r.refund = r.penalty /\ r.refund + r.penalty - Total(q) \in {-1, 1}
  <2>1. CASE advancePaid /\ byFarmer
    BY <1>1, <2>1 DEF RefundSnapshot
  <2>2. CASE ~(advancePaid /\ byFarmer)
    BY <1>1, <2>2, RefundAddsUp DEF RefundSnapshot, Divides
  <2>3. QED BY <2>1, <2>2
<1>6. QED BY <1>2, <1>3, <1>4, <1>5
-----------------------------------------------------------------------------
\* Types.
LEMMA TypeParts ==
  QuoteTypeOK <=> CatalogueTypeOK /\ clock \in 0 .. MaxTime /\ TradeTypeOK /\ RateTypeOK
                  /\ CalendarTypeOK
BY DEF QuoteTypeOK, TradeTypeOK, RateTypeOK, CalendarTypeOK

LEMMA CardType ==
  /\ \A s \in Services : CardOf(s) \in Cards
  /\ Wanted \subseteq Services
  /\ \A c \in Cards \cup {None} : Entry(c).acre \in Prices /\ Entry(c).hour \in Prices
BY Inputs DEF Cards, CardOf, Services, Entry, Free

LEMMA ServiceUpdates ==
  ASSUME NEW s \in Services, NEW acre \in Prices, NEW hour \in Prices,
         NEW type \in Cards \cup {None}, NEW active \in BOOLEAN
  PROVE  [s EXCEPT !.acre = acre, !.hour = hour, !.type = type, !.active = active] \in Services
BY DEF Services

\* What a handler saves of the service is one, whichever it is.
LEMMA SavedIsService ==
  ASSUME CatalogueTypeOK, NEW c \in Calls,
         CreateService(c) \/ UpdateService(c) \/ ToggleServiceStatus(c)
  PROVE  \E s \in Services, step \in {"mirror", "forget"} :
           /\ SaveService(c, s, step)
           /\ step = "forget" => CardOf(s) = CardOf(service) /\ s.live = service.live
<1>1. service \in Services
  BY DEF CatalogueTypeOK
<1>2. CASE CreateService(c)
  BY <1>2, CardType DEF CreateService
<1>3. CASE UpdateService(c)
  <2>1. PICK w \in Wanted, acre \in BOOLEAN, hour \in BOOLEAN, type \in BOOLEAN,
             active \in BOOLEAN :
          SaveService(c,
            [service EXCEPT !.acre = Set(acre, w.acre, @), !.hour = Set(hour, w.hour, @),
                            !.type = Set(type, w.type, @), !.active = Set(active, w.active, @)],
            "mirror")
    BY <1>3 DEF UpdateService
  <2>2. w \in Services
    BY CardType
  <2>3. /\ Set(acre, w.acre, service.acre) \in Prices /\ Set(hour, w.hour, service.hour) \in Prices
        /\ Set(type, w.type, service.type) \in Cards \cup {None}
        /\ Set(active, w.active, service.active) \in BOOLEAN
    BY <1>1, <2>2 DEF Services, Set
  <2>4. [service EXCEPT !.acre = Set(acre, w.acre, @), !.hour = Set(hour, w.hour, @),
                        !.type = Set(type, w.type, @), !.active = Set(active, w.active, @)]
          \in Services
    BY <1>1, <2>3, ServiceUpdates
  <2>5. QED BY <2>1, <2>4
<1>4. CASE ToggleServiceStatus(c)
  <2>1. PICK a \in BOOLEAN : SaveService(c, [service EXCEPT !.active = a], "forget")
    BY <1>4 DEF ToggleServiceStatus
  <2> DEFINE s == [service EXCEPT !.active = a]
  <2>2. s \in Services
    BY <1>1 DEF Services
  <2>3. CardOf(s) = CardOf(service) /\ s.live = service.live
    BY <1>1 DEF CardOf, Services
  <2>4. QED BY <2>1, <2>2, <2>3
<1>5. QED BY <1>2, <1>3, <1>4

LEMMA SaveServiceType ==
  ASSUME CatalogueTypeOK, NEW c \in Calls, NEW s \in Services, NEW step \in {"mirror", "forget"},
         SaveService(c, s, step)
  PROVE  CatalogueTypeOK'
<1>1. [call |-> c, saved |-> s, step |-> step] \in Edits
  BY DEF Edits
<1>2. QED BY <1>1 DEF CatalogueTypeOK, SaveService, Spend

LEMMA EditType ==
  ASSUME CatalogueTypeOK, NEW e \in edits, MirrorPrices(e) \/ ForgetServices(e)
  PROVE  CatalogueTypeOK'
<1>1. e \in Edits /\ e.saved \in Services /\ e.call \in Calls
  BY DEF CatalogueTypeOK, Edits
<1>2. CASE MirrorPrices(e)
  <2>1. [e EXCEPT !.step = "forget"] \in Edits
    BY <1>1 DEF Edits
  <2>2. CardOf(e.saved) \in Cards
    BY <1>1, CardType
  <2>3. QED BY <1>2, <2>1, <2>2 DEF CatalogueTypeOK, MirrorPrices, callVars
<1>3. CASE ForgetServices(e)
  <2>1. [call |-> e.call, read |-> None] \in Refreshes
    BY <1>1 DEF Refreshes
  <2>2. copy' \in [Workers -> Services \cup {None}]
    BY <1>3 DEF CatalogueTypeOK, ForgetServices
  <2>3. QED BY <1>3, <2>1, <2>2 DEF CatalogueTypeOK, ForgetServices, callVars
<1>4. QED BY <1>2, <1>3

LEMMA RefreshType ==
  ASSUME CatalogueTypeOK, NEW r \in refreshes, FindServices(r) \/ KeepServices(r)
  PROVE  CatalogueTypeOK'
<1>1. r \in Refreshes /\ r.read \in Services \cup {None} /\ r.call \in Calls
  BY DEF CatalogueTypeOK, Refreshes
<1>2. CASE FindServices(r)
  <2>1. [r EXCEPT !.read = service] \in Refreshes
    BY <1>1 DEF Refreshes, CatalogueTypeOK
  <2>2. QED BY <1>2, <2>1 DEF CatalogueTypeOK, FindServices, callVars
<1>3. CASE KeepServices(r)
  <2>1. copy' \in [Workers -> Services \cup {None}]
    BY <1>1, <1>3 DEF CatalogueTypeOK, KeepServices
  <2>2. QED BY <1>3, <2>1 DEF CatalogueTypeOK, KeepServices, callVars
<1>4. QED BY <1>2, <1>3

LEMMA CardEditType ==
  ASSUME CatalogueTypeOK
  PROVE  /\ \A c \in Calls : ReadPricing(c) => CatalogueTypeOK'
         /\ \A x \in cardEdits : SavePricing(x) => CatalogueTypeOK'
<1>1. ASSUME NEW c \in Calls, ReadPricing(c) PROVE CatalogueTypeOK'
  <2>1. PICK s \in Wanted, acre \in BOOLEAN, hour \in BOOLEAN :
          cardEdits' = cardEdits \cup
            {[call |-> c,
              new |-> [acre |-> Set(acre, s.acre, Entry(pricing).acre),
                       hour |-> Set(hour, s.hour, Entry(pricing).hour)]]}
    BY <1>1 DEF ReadPricing
  <2>2. s \in Services /\ pricing \in Cards \cup {None}
    BY CardType DEF CatalogueTypeOK
  <2>3. /\ Set(acre, s.acre, Entry(pricing).acre) \in Prices
        /\ Set(hour, s.hour, Entry(pricing).hour) \in Prices
    BY <2>2, CardType DEF Set, Services
  <2>4. cardEdits' \subseteq CardEdits
    BY <2>1, <2>3 DEF CatalogueTypeOK, CardEdits, Cards
  <2>5. QED BY <1>1, <2>4 DEF CatalogueTypeOK, ReadPricing, Spend
<1>2. ASSUME NEW x \in cardEdits, SavePricing(x) PROVE CatalogueTypeOK'
  <2>1. x.new \in Cards
    BY DEF CatalogueTypeOK, CardEdits
  <2>2. QED BY <1>2, <2>1 DEF CatalogueTypeOK, SavePricing, callVars
<1>3. QED BY <1>1, <1>2

LEMMA CatalogueNextType == CatalogueTypeOK /\ CatalogueNext => CatalogueTypeOK'
<1> SUFFICES ASSUME CatalogueTypeOK, CatalogueNext PROVE CatalogueTypeOK'
  OBVIOUS
<1>1. CASE \E c \in Calls : CreateService(c) \/ UpdateService(c) \/ ToggleServiceStatus(c)
  BY <1>1, SavedIsService, SaveServiceType
<1>2. QED BY <1>1, EditType, RefreshType, CardEditType DEF CatalogueNext

LEMMA SpendType ==
  ASSUME CatalogueTypeOK, NEW c \in Calls, NEW kind, Spend(c, kind), UNCHANGED shelfVars
  PROVE  CatalogueTypeOK'
BY DEF CatalogueTypeOK, Spend, shelfVars

LEMMA CatalogueFrame ==
  ASSUME CatalogueTypeOK, UNCHANGED callVars, UNCHANGED shelfVars
  PROVE  CatalogueTypeOK'
BY DEF CatalogueTypeOK, callVars, shelfVars

\* The commission.
LEMMA ActiveIsLast ==
  ASSUME RateTypeOK, OneRate
  PROVE  /\ Len(rates) \in Nat /\ Active = Len(rates)
         /\ \A i \in 1 .. Len(rates) : rates[i] \in Rates
<1>1. Len(rates) \in Nat /\ \A i \in 1 .. Len(rates) : rates[i] \in Rates
  BY DEF RateTypeOK
<1>2. CASE Len(rates) = 0
  BY <1>2 DEF ActiveRates, Active
<1>3. CASE Len(rates) # 0
  <2>1. ActiveRates = {Len(rates)}
    BY <1>1, <1>3 DEF ActiveRates, OneRate
  <2>2. QED BY <1>1, <2>1 DEF Active
<1>4. QED BY <1>1, <1>2, <1>3

\* What an upsert that commits makes of the commissions.
LEMMA Swapped ==
  ASSUME RateTypeOK, clock \in Nat, OneRate, NEW u \in upserts, CommitCommission(u)
  PROVE  /\ rates' \in Seq(Rates) /\ Len(rates') = Len(rates) + 1
         /\ rates'[Len(rates) + 1] = Rate(u.percentage)
         /\ \A i \in 1 .. Len(rates) :
              rates'[i] = IF i = Len(rates) THEN Ended(rates[i]) ELSE rates[i]
<1> DEFINE n == Len(rates)
           f == [i \in 1 .. n |-> IF i = u.saw THEN Ended(rates[i]) ELSE rates[i]]
<1>1. n \in Nat /\ u.saw = n /\ \A i \in 1 .. n : rates[i] \in Rates
  BY ActiveIsLast DEF CommitCommission
<1>2. \A r \in Rates : Ended(r) \in Rates
  BY DEF Ended, Rates
<1>3. f \in [1 .. n -> Rates]
  BY <1>1, <1>2
<1>4. Rate(u.percentage) \in Rates
  BY DEF RateTypeOK, Upserts, Rate, Rates
<1>5. rates' = Append(f, Rate(u.percentage))
  BY DEF CommitCommission
<1>6. \A i \in 1 .. n : f[i] = IF i = n THEN Ended(rates[i]) ELSE rates[i]
  BY <1>1
<1> HIDE DEF f, n
<1>7. f \in Seq(Rates) /\ Len(f) = n
  BY <1>1, <1>3, SeqDef
<1>8. /\ rates' \in Seq(Rates) /\ Len(rates') = n + 1
      /\ rates'[n + 1] = Rate(u.percentage)
      /\ \A i \in 1 .. n : rates'[i] = f[i]
  BY <1>4, <1>5, <1>7, AppendProperties
<1>9. QED BY <1>6, <1>8 DEF n

LEMMA AskUpdates ==
  ASSUME NEW a \in Asks, NEW step \in {"get", "fill", "got"}, NEW rate \in Nat, NEW at \in Nat,
         NEW late \in BOOLEAN
  PROVE  /\ [a EXCEPT !.step = step, !.rate = rate, !.at = at, !.late = late] \in Asks
         /\ [a EXCEPT !.step = step, !.rate = rate, !.at = at] \in Asks
         /\ [a EXCEPT !.step = step] \in Asks
BY DEF Asks

LEMMA NewAskType == \A c \in Calls : NewAsk(c) \in Asks
BY DEF NewAsk, Asks

LEMMA CommissionType ==
  ASSUME QuoteTypeOK, OneRate, AsksOK, CommissionNext
  PROVE  QuoteTypeOK'
<1>1. CatalogueTypeOK /\ clock \in Nat /\ RateTypeOK
  BY TypeParts, Rules
<1>2. Active \in Nat
  BY <1>1, ActiveIsLast
<1>3. ASSUME NEW c \in Calls, UpsertCommission(c) PROVE QuoteTypeOK'
  <2>1. CatalogueTypeOK'
    BY <1>1, <1>3, SpendType DEF UpsertCommission
  <2>2. upserts' \subseteq Upserts
    BY <1>1, <1>2, <1>3 DEF UpsertCommission, RateTypeOK, Upserts
  <2>3. QED BY <1>3, <2>1, <2>2 DEF QuoteTypeOK, UpsertCommission, tradeVars, calendarVars
<1>4. ASSUME NEW u \in upserts, CommitCommission(u) \/ RetryCommission(u) \/ AdoptCommission(u)
      PROVE  QuoteTypeOK'
  <2>1. CatalogueTypeOK'
    BY <1>1, <1>4, CatalogueFrame DEF CommitCommission, RetryCommission, AdoptCommission
  <2>2. [u EXCEPT !.saw = Active] \in Upserts
    BY <1>1, <1>2 DEF RateTypeOK, Upserts
  <2>3. upserts' \subseteq Upserts
    BY <1>1, <1>4, <2>2 DEF RateTypeOK, CommitCommission, RetryCommission, AdoptCommission
  <2>4. rates' \in Seq(Rates)
    <3>1. CommitCommission(u) => rates' \in Seq(Rates)
      BY <1>1, Swapped
    <3>2. QED BY <1>1, <1>4, <3>1 DEF RateTypeOK, RetryCommission, AdoptCommission
  <2>5. UNCHANGED <<clock, tradeVars, cached, asks, calendarVars>>
    BY <1>4 DEF CommitCommission, RetryCommission, AdoptCommission
  <2>6. QED BY <2>1, <2>3, <2>4, <2>5 DEF QuoteTypeOK, tradeVars, calendarVars
<1>5. ASSUME NEW a \in asks, HitRate(a) \/ LoadRate(a) \/ FillRate(a) PROVE QuoteTypeOK'
  <2>1. a \in Asks
    BY <1>1 DEF RateTypeOK
  <2>2. PICK b : Asked(a, b) /\ b \in Asks
    <3>1. CASE HitRate(a)
      <4>1. cached \in Cached
        BY <1>1, <3>1 DEF HitRate, RateTypeOK
      <4>2. QED BY <1>1, <2>1, <3>1, <4>1, AskUpdates DEF HitRate, Cached
    <3>2. CASE LoadRate(a)
      <4>1. [a EXCEPT !.step = "fill", !.rate = Active, !.at = clock] \in Asks
        BY <1>1, <1>2, <2>1 DEF Asks
      <4>2. QED BY <3>2, <4>1 DEF LoadRate
    <3>3. CASE FillRate(a)
      <4>1. [a EXCEPT !.step = "got"] \in Asks
        BY <2>1 DEF Asks
      <4>2. QED BY <3>3, <4>1 DEF FillRate
    <3>4. QED BY <1>5, <3>1, <3>2, <3>3
  <2>3. cached' \in Cached \cup {None}
    <3>1. CASE FillRate(a)
      <4>1. a.rate \in 1 .. Len(rates)
        BY <3>1 DEF FillRate, AsksOK, AskOK
      <4>2. rates[a.rate].active \in BOOLEAN
        BY <1>1, <4>1, ActiveIsLast DEF Rates
      <4>3. [rate |-> a.rate, until |-> clock + TTL, late |-> ~rates[a.rate].active] \in Cached
        BY <1>1, <2>1, Rules DEF Asks, Cached
      <4>4. QED BY <1>1, <3>1, <4>3 DEF FillRate, RateTypeOK
    <3>2. QED BY <1>1, <1>5, <3>1 DEF HitRate, LoadRate, RateTypeOK
  <2>4. CatalogueTypeOK'
    BY <1>1, <2>2, CatalogueFrame DEF Asked
  <2>5. asks' \subseteq Asks
    BY <1>1, <2>2 DEF RateTypeOK, Asked
  <2>6. QED BY <2>2, <2>3, <2>4, <2>5 DEF QuoteTypeOK, Asked, tradeVars, calendarVars
<1>6. QED BY <1>3, <1>4, <1>5, CommissionNext DEF CommissionNext

-----------------------------------------------------------------------------
\* Seasons and offers.
LEMMA WindowType ==
  \A w \in Windows : w.from \in Nat /\ w.to \in Nat /\ w.from < w.to
BY Rules

LEMMA GivenType ==
  \A new \in Nat \cup {None}, old \in Nat : Given(new, old) \in Nat
BY DEF Given

LEMMA OfferUpdates ==
  ASSUME NEW o \in Offers, NEW d \in Discounts, NEW a \in BOOLEAN, NEW from \in Nat, NEW to \in Nat
  PROVE  /\ o.by \in Calls \cup {None} /\ o.from \in Nat /\ o.to \in Nat
         /\ [o EXCEPT !.discount = d, !.active = a] \in Offers
         /\ [o EXCEPT !.from = from, !.to = to] \in Offers
BY DEF Offers

LEMMA ChangeOffersType ==
  ASSUME QuoteTypeOK, NEW c \in Calls, NEW new \in SUBSET Offers, ChangeOffers(c, new)
  PROVE  QuoteTypeOK'
<1>1. CatalogueTypeOK'
  BY SpendType DEF QuoteTypeOK, ChangeOffers
<1>2. QED BY <1>1 DEF QuoteTypeOK, ChangeOffers, tradeVars, rateVars

LEMMA CalendarType ==
  ASSUME QuoteTypeOK, CalendarNext
  PROVE  QuoteTypeOK'
<1>1. CatalogueTypeOK /\ CalendarTypeOK
  BY TypeParts
<1>2. ASSUME NEW c \in Calls, UpsertSeasonalPricing(c) \/ DeleteSeasonalPricing(c)
      PROVE  QuoteTypeOK'
  <2>1. CatalogueTypeOK'
    BY <1>1, <1>2, SpendType DEF UpsertSeasonalPricing, DeleteSeasonalPricing
  <2>2. plans' \subseteq Plans /\ seasons' \subseteq Seasons
    <3>1. CASE UpsertSeasonalPricing(c)
      <4>1. PICK w \in Windows, m \in Multipliers :
              plans' = plans \cup
                {[call |-> c,
                  season |-> [by |-> c, from |-> w.from, to |-> w.to, multiplier |-> m],
                  saw |-> seasons]}
        BY <3>1 DEF UpsertSeasonalPricing
      <4>2. [by |-> c, from |-> w.from, to |-> w.to, multiplier |-> m] \in Seasons
        BY WindowType DEF Seasons
      <4> DEFINE s == [by |-> c, from |-> w.from, to |-> w.to, multiplier |-> m]
      <4>3. [call |-> c, season |-> s, saw |-> seasons] \in Plans
        <5> HIDE DEF s
        <5>1. s \in Seasons
          BY <4>2 DEF s
        <5>2. QED BY <1>1, <5>1 DEF Plans, CalendarTypeOK
      <4>4. QED BY <1>1, <3>1, <4>1, <4>3 DEF CalendarTypeOK, UpsertSeasonalPricing
    <3>2. CASE DeleteSeasonalPricing(c)
      BY <1>1, <3>2 DEF DeleteSeasonalPricing, CalendarTypeOK
    <3>3. QED BY <1>2, <3>1, <3>2
  <2>3. UNCHANGED <<clock, tradeVars, rateVars, offers, offerEdits>>
    BY <1>2 DEF UpsertSeasonalPricing, DeleteSeasonalPricing
  <2>4. QED BY <2>1, <2>2, <2>3 DEF QuoteTypeOK, tradeVars, rateVars
<1>3. ASSUME NEW p \in plans, CreateSeason(p) PROVE QuoteTypeOK'
  <2>1. CatalogueTypeOK'
    BY <1>1, <1>3, CatalogueFrame DEF CreateSeason
  <2>2. p.season \in Seasons
    BY <1>1 DEF CalendarTypeOK, Plans
  <2>3. QED BY <1>3, <2>1, <2>2 DEF QuoteTypeOK, CreateSeason, tradeVars, rateVars
<1>4. ASSUME NEW c \in Calls, CreateOffer(c) \/ UpdateOffer(c) \/ DeleteOffer(c)
      PROVE  QuoteTypeOK'
  <2>1. \E new \in SUBSET Offers : ChangeOffers(c, new)
    <3>1. CASE CreateOffer(c)
      <4>1. PICK w \in Windows, d \in Discounts, a \in BOOLEAN :
              ChangeOffers(c, offers \cup
                {[by |-> c, from |-> w.from, to |-> w.to, discount |-> d, active |-> a]})
        BY <3>1 DEF CreateOffer
      <4>2. [by |-> c, from |-> w.from, to |-> w.to, discount |-> d, active |-> a] \in Offers
        BY WindowType DEF Offers
      <4>3. QED BY <1>1, <4>1, <4>2 DEF CalendarTypeOK
    <3>2. CASE UpdateOffer(c)
      <4>1. PICK o \in offers, d \in Discounts, a \in BOOLEAN :
              ChangeOffers(c, (offers \ {o}) \cup {[o EXCEPT !.discount = d, !.active = a]})
        BY <3>2 DEF UpdateOffer
      <4>2. [o EXCEPT !.discount = d, !.active = a] \in Offers
        BY <1>1 DEF CalendarTypeOK, Offers
      <4>3. QED BY <1>1, <4>1, <4>2 DEF CalendarTypeOK
    <3>3. CASE DeleteOffer(c)
      BY <1>1, <3>3 DEF DeleteOffer, CalendarTypeOK
    <3>4. QED BY <1>4, <3>1, <3>2, <3>3
  <2>2. QED BY <2>1, ChangeOffersType
<1>5. ASSUME NEW c \in Calls, ReadOfferDates(c) PROVE QuoteTypeOK'
  <2>1. CatalogueTypeOK'
    BY <1>1, <1>5, SpendType DEF ReadOfferDates
  <2>2. PICK o \in offers, from \in {None} \cup UNION {{w.from, w.to} : w \in Windows},
             to \in {None} \cup UNION {{w.from, w.to} : w \in Windows} :
          offerEdits' = offerEdits \cup {[call |-> c, of |-> o, from |-> from, to |-> to]}
    BY <1>5 DEF ReadOfferDates
  <2>3. from \in Nat \cup {None} /\ to \in Nat \cup {None}
    BY WindowType
  <2>4. [call |-> c, of |-> o, from |-> from, to |-> to] \in OfferEdits
    BY <1>1, <2>3 DEF OfferEdits, CalendarTypeOK
  <2>5. QED BY <1>5, <2>1, <2>2, <2>4 DEF QuoteTypeOK, ReadOfferDates, tradeVars, rateVars
<1>6. ASSUME NEW x \in offerEdits, SaveOfferDates(x) PROVE QuoteTypeOK'
  <2>1. CatalogueTypeOK'
    BY <1>1, <1>6, CatalogueFrame DEF SaveOfferDates
  <2>2. x.from \in Nat \cup {None} /\ x.to \in Nat \cup {None}
    BY <1>1 DEF CalendarTypeOK, OfferEdits
  <2>3. PICK d \in Discounts, a \in BOOLEAN :
          offers' = {IF o.by = x.of.by
                     THEN [o EXCEPT !.from = Given(x.from, @), !.to = Given(x.to, @),
                                    !.discount = d, !.active = a]
                     ELSE o : o \in offers}
    BY <1>6 DEF SaveOfferDates
  <2>4. offers' \subseteq Offers
    <3>1. \A o \in Offers :
            [o EXCEPT !.from = Given(x.from, @), !.to = Given(x.to, @),
                      !.discount = d, !.active = a] \in Offers
      BY <2>2, GivenType DEF Offers
    <3>2. QED BY <1>1, <2>3, <3>1 DEF CalendarTypeOK
  <2>5. QED BY <1>6, <2>1, <2>4 DEF QuoteTypeOK, SaveOfferDates, tradeVars, rateVars
<1>7. QED BY <1>2, <1>3, <1>4, <1>5, <1>6 DEF CalendarNext

-----------------------------------------------------------------------------
\* Visits and bookings.
LEMMA VisitFields ==
  ASSUME NEW v \in Visits
  PROVE  /\ v.call \in Calls /\ v.typed \in BOOLEAN
         /\ v.service \in Services \cup {None} /\ v.doc \in Cards \cup {None}
         /\ v.multiplier \in Multipliers \cup {100}
BY DEF Visits

LEMMA ToldType ==
  ASSUME NEW v \in Visits, NEW s \in Services
  PROVE  Told(v, s) \subseteq Visits /\ \A n \in Told(v, s) : VisitOK(n)
<1>1. [v EXCEPT !.step = "card", !.service = s] \in Visits
  BY DEF Visits
<1>2. QED BY <1>1 DEF Told, VisitOK, Admits, Visits

LEMMA NewVisitType ==
  ASSUME NEW c \in Calls, NEW typed \in BOOLEAN
  PROVE  NewVisit(c, typed) \in Visits /\ VisitOK(NewVisit(c, typed))
BY DEF NewVisit, Visits, VisitOK

LEMMA ArriveType ==
  ASSUME QuoteTypeOK, TypesFound, NEW c \in Calls, Arrive(c)
  PROVE  QuoteTypeOK' /\ TypesFound'
<1>1. PICK kind \in {"book", "estimate"}, typed \in BOOLEAN :
        LET v == NewVisit(c, typed)
            s == copy[host[c]]
        IN /\ Spend(c, kind)
           /\ IF s = None
              THEN /\ visits' = visits \cup {v}
                   /\ refreshes' = refreshes \cup {[call |-> c, read |-> None]}
              ELSE /\ Admits(s, typed)
                   /\ visits' = visits \cup Told(v, s)
                   /\ UNCHANGED refreshes
  BY DEF Arrive
<1> DEFINE v == NewVisit(c, typed)
           s == copy[host[c]]
<1>2. v \in Visits /\ VisitOK(v)
  BY NewVisitType
<1>3. s \in Services \cup {None}
  BY DEF QuoteTypeOK, CatalogueTypeOK
<1>4. [call |-> c, read |-> None] \in Refreshes
  BY DEF Refreshes
<1> HIDE DEF v, s
<1>5. s # None => Told(v, s) \subseteq Visits /\ \A n \in Told(v, s) : VisitOK(n)
  BY <1>2, <1>3, ToldType
<1>6. \/ visits' = visits \cup {v}
      \/ s # None /\ visits' = visits \cup Told(v, s)
  BY <1>1 DEF v, s
<1>7. visits' \subseteq Visits /\ \A n \in visits' : VisitOK(n)
  BY <1>2, <1>5, <1>6 DEF QuoteTypeOK, TypesFound
<1>8. CatalogueTypeOK'
  <2>1. refreshes' \subseteq Refreshes
    BY <1>1, <1>4 DEF QuoteTypeOK, CatalogueTypeOK
  <2>2. QED BY <1>1, <2>1 DEF QuoteTypeOK, CatalogueTypeOK, Arrive, Spend
<1>9. booked' = booked /\ (\A n \in visits' : VisitOK(n)')
  BY <1>7 DEF Arrive, VisitOK
<1>10. QED
  <2>1. QuoteTypeOK'
    BY <1>7, <1>8 DEF QuoteTypeOK, Arrive, rateVars, calendarVars
  <2>2. QED BY <1>9, <2>1 DEF TypesFound

LEMMA MovedType ==
  ASSUME QuoteTypeOK, TypesFound, NEW v \in visits, NEW new \in SUBSET Visits, Move(v, new),
         \A n \in new : VisitOK(n), asks' \subseteq Asks
  PROVE  QuoteTypeOK' /\ TypesFound'
<1>1. CatalogueTypeOK'
  BY CatalogueFrame DEF Move, QuoteTypeOK
<1>2. QuoteTypeOK'
  BY <1>1 DEF QuoteTypeOK, Move, calendarVars
<1>3. TypesFound'
  BY DEF TypesFound, Move, VisitOK
<1>4. QED BY <1>2, <1>3

LEMMA PaidUpType ==
  ASSUME NEW q \in Quotes, q.typed => q.service.type # None
  PROVE  /\ PaidUp(q) \in Quotes
         /\ PaidUp(q).typed = q.typed /\ PaidUp(q).service = q.service
<1> DEFINE p == IF q.paid = None THEN Advance(q) + Remaining(q) ELSE q.paid
<1>1. p \in Nat \cup {None}
  <2>1. Advance(q) \in Nat /\ Remaining(q) \in Nat
    BY QuoteMoney
  <2>2. Advance(q) + Remaining(q) \in Nat
    BY <2>1
  <2>3. q.paid \in Nat \cup {None}
    BY DEF Quotes
  <2>4. QED BY <2>2, <2>3
<1>2. PaidUp(q) = [q EXCEPT !.paid = p]
  BY DEF PaidUp, Quotes
<1> HIDE DEF p
<1>3. QED BY <1>1, <1>2 DEF Quotes

LEMMA TradeType ==
  ASSUME QuoteTypeOK, OneRate, AsksOK, TypesFound, TradeNext
  PROVE  QuoteTypeOK' /\ TypesFound'
<1>1. CatalogueTypeOK /\ TradeTypeOK /\ RateTypeOK /\ CalendarTypeOK
  BY TypeParts
<1>2. ASSUME NEW c \in Calls, Arrive(c) PROVE QuoteTypeOK' /\ TypesFound'
  BY <1>2, ArriveType
<1>3. ASSUME NEW c \in Calls, Settle(c) PROVE QuoteTypeOK' /\ TypesFound'
  <2>1. CatalogueTypeOK'
    BY <1>1, <1>3, SpendType DEF Settle
  <2>2. PICK q \in booked :
          /\ booked' = (booked \ {q}) \cup {PaidUp(q)}
          /\ settlements' = settlements \cup {[call |-> c, of |-> q.call]}
    BY <1>3 DEF Settle
  <2>3. q \in Quotes /\ (q.typed => q.service.type # None)
    BY <1>1 DEF TradeTypeOK, TypesFound
  <2>4. settlements' \subseteq Settlements
    BY <1>1, <2>2, <2>3 DEF TradeTypeOK, Settlements, Quotes
  <2>5. asks' \subseteq Asks
    BY <1>1, <1>3, NewAskType DEF Settle, RateTypeOK
  <2>6. PaidUp(q) \in Quotes /\ PaidUp(q).typed = q.typed /\ PaidUp(q).service = q.service
    BY <2>3, PaidUpType
  <2>7. \A n \in booked' : n \in Quotes /\ (n.typed => n.service.type # None)
    BY <1>1, <2>2, <2>3, <2>6 DEF TradeTypeOK, TypesFound
  <2>8. QuoteTypeOK'
    BY <1>3, <2>1, <2>4, <2>5, <2>7 DEF Settle, QuoteTypeOK, calendarVars
  <2>9. QED BY <1>3, <2>7, <2>8 DEF Settle, TypesFound, VisitOK
<1>4. ASSUME NEW v \in visits, FindAndKeep(v) PROVE QuoteTypeOK' /\ TypesFound'
  <2>1. PICK r \in refreshes : KeepServices(r) /\ visits' = (visits \ {v}) \cup Told(v, r.read)
    BY <1>4 DEF FindAndKeep
  <2>2. CatalogueTypeOK'
    BY <1>1, <2>1, RefreshType
  <2>3. r.read \in Services /\ v \in Visits
    BY <1>1, <2>1 DEF KeepServices, CatalogueTypeOK, Refreshes, TradeTypeOK
  <2>4. Told(v, r.read) \subseteq Visits /\ \A n \in Told(v, r.read) : VisitOK(n)
    BY <2>3, ToldType
  <2>5. visits' \subseteq Visits
    BY <1>1, <2>1, <2>4 DEF TradeTypeOK
  <2>6. QuoteTypeOK'
    BY <1>4, <2>2, <2>5 DEF QuoteTypeOK, FindAndKeep, rateVars, calendarVars
  <2>7. QED BY <1>4, <2>1, <2>4, <2>6 DEF FindAndKeep, TypesFound, VisitOK
<1>5. ASSUME NEW v \in visits, ReadCard(v) PROVE QuoteTypeOK' /\ TypesFound'
  <2> DEFINE q == [v EXCEPT !.doc = pricing, !.step = "season"]
  <2>1. v \in Visits /\ VisitOK(v) /\ v.step = "card" /\ pricing \in Cards \cup {None}
    BY <1>1, <1>5 DEF TradeTypeOK, TypesFound, ReadCard, CatalogueTypeOK
  <2>2. q \in Visits /\ VisitOK(q)
    BY <2>1 DEF Visits, VisitOK
  <2>3. asks' \subseteq Asks
    BY <1>1, <1>5, <2>1, NewAskType DEF ReadCard, RateTypeOK, Visits
  <2>4. \E new \in {{}, {q}} : Move(v, new)
    BY <1>5 DEF ReadCard
  <2> HIDE DEF q
  <2>5. PICK new \in {{}, {q}} : Move(v, new)
    BY <2>4
  <2>6. QED BY <2>2, <2>3, <2>5, MovedType
<1>6. ASSUME NEW v \in visits, ReadSeason(v) PROVE QuoteTypeOK' /\ TypesFound'
  <2>1. PICK m \in Multipliers \cup {100} :
          Move(v, {[v EXCEPT !.step = "offer", !.multiplier = m,
                             !.doc = IF @ = None THEN pricing ELSE @]})
    BY <1>1, <1>6 DEF ReadSeason, Latest, CalendarTypeOK, Seasons
  <2> DEFINE q == [v EXCEPT !.step = "offer", !.multiplier = m,
                            !.doc = IF @ = None THEN pricing ELSE @]
  <2>2. v \in Visits /\ VisitOK(v) /\ v.step = "season" /\ pricing \in Cards \cup {None}
    BY <1>1, <1>6 DEF TradeTypeOK, TypesFound, ReadSeason, CatalogueTypeOK
  <2>3. q \in Visits /\ VisitOK(q)
    BY <2>2 DEF Visits, VisitOK
  <2>4. asks' \subseteq Asks
    BY <1>1, <1>6 DEF ReadSeason, RateTypeOK
  <2>5. Move(v, {q})
    BY <2>1
  <2> HIDE DEF q
  <2>6. QED BY <2>3, <2>4, <2>5, MovedType
<1>7. ASSUME NEW v \in visits, Book(v) PROVE QuoteTypeOK' /\ TypesFound'
  <2>1. PICK a \in asks, d \in Discounts \cup {0} :
          /\ a.step = "got" /\ asks' = asks \ {a}
          /\ booked' = booked \cup {Quote(v, rates[a.rate].percentage, d)}
    BY <1>1, <1>7 DEF Book, OffersNow, Latest, CalendarTypeOK, Offers
  <2>2. rates[a.rate].percentage \in Percentages
    BY <1>1, <2>1, ActiveIsLast DEF AsksOK, AskOK, Rates
  <2>3. v \in Visits /\ v.service \in Services /\ (v.typed => v.service.type # None)
    BY <1>1, <1>7 DEF TradeTypeOK, TypesFound, VisitOK, Book
  <2> DEFINE q == Quote(v, rates[a.rate].percentage, d)
  <2>4. q \in Quotes /\ (q.typed => q.service.type # None)
    BY <2>2, <2>3, VisitFields DEF Quote, Quotes
  <2>5. booked' = booked \cup {q} /\ asks' \subseteq asks /\ visits' = visits \ {v}
    BY <1>7, <2>1 DEF Book
  <2> HIDE DEF q
  <2>6. CatalogueTypeOK'
    BY <1>1, <1>7, CatalogueFrame DEF Book
  <2>7. QuoteTypeOK'
    BY <1>7, <2>4, <2>5, <2>6 DEF Book, QuoteTypeOK, calendarVars
  <2>8. QED BY <2>4, <2>5, <2>7 DEF TypesFound, VisitOK
<1>8. ASSUME NEW x \in settlements, SaveSettlement(x) PROVE QuoteTypeOK' /\ TypesFound'
  <2>1. PICK a \in asks :
          /\ a.step = "got" /\ asks' = asks \ {a}
          /\ booked' = {IF q.call = x.of
                        THEN [q EXCEPT !.settled = rates[a.rate].percentage] ELSE q : q \in booked}
    BY <1>8 DEF SaveSettlement
  <2>2. rates[a.rate].percentage \in Percentages
    BY <1>1, <2>1, ActiveIsLast DEF AsksOK, AskOK, Rates
  <2>3. \A n \in booked' : n \in Quotes /\ (n.typed => n.service.type # None)
    <3>1. SUFFICES ASSUME NEW n \in booked' PROVE n \in Quotes /\ (n.typed => n.service.type # None)
      OBVIOUS
    <3> DEFINE p == rates[a.rate].percentage
    <3>2. PICK q \in booked : n = IF q.call = x.of THEN [q EXCEPT !.settled = p] ELSE q
      BY <2>1
    <3>3. q \in Quotes /\ (q.typed => q.service.type # None) /\ p \in Percentages
      BY <1>1, <2>2 DEF TradeTypeOK, TypesFound
    <3> HIDE DEF p
    <3>4. [q EXCEPT !.settled = p] \in Quotes
      BY <3>3 DEF Quotes
    <3>5. [q EXCEPT !.settled = p].typed = q.typed /\ [q EXCEPT !.settled = p].service = q.service
      BY <3>3 DEF Quotes
    <3>6. QED BY <3>2, <3>3, <3>4, <3>5
  <2>4. CatalogueTypeOK'
    BY <1>1, <1>8, CatalogueFrame DEF SaveSettlement
  <2>5. QuoteTypeOK'
    BY <1>8, <2>1, <2>3, <2>4 DEF SaveSettlement, QuoteTypeOK, calendarVars
  <2>6. QED BY <1>8, <2>3, <2>5 DEF TypesFound, VisitOK, SaveSettlement
<1>9. ASSUME NEW c \in Calls, ReadCompletion(c) PROVE QuoteTypeOK' /\ TypesFound'
  <2>1. CatalogueTypeOK'
    BY <1>1, <1>9, SpendType DEF ReadCompletion
  <2>2. completions' \subseteq Completions
    BY <1>1, <1>9 DEF ReadCompletion, TradeTypeOK, Completions, Quotes
  <2>3. QuoteTypeOK'
    BY <1>9, <2>1, <2>2 DEF ReadCompletion, QuoteTypeOK, rateVars, calendarVars
  <2>4. QED BY <1>9, <2>3 DEF ReadCompletion, TypesFound, VisitOK
<1>10. ASSUME NEW x \in completions, SaveCompletion(x) PROVE QuoteTypeOK' /\ TypesFound'
  <2>1. x.final \in Finals \cup {None}
    BY <1>1 DEF TradeTypeOK, Completions
  <2>2. \A n \in booked' : n \in Quotes /\ (n.typed => n.service.type # None)
    <3>1. SUFFICES ASSUME NEW n \in booked' PROVE n \in Quotes /\ (n.typed => n.service.type # None)
      OBVIOUS
    <3>2. PICK q \in booked :
            n = IF q.call = x.of THEN Completed(q, x.final) ELSE q
      BY <1>10 DEF SaveCompletion
    <3>3. q \in Quotes /\ (q.typed => q.service.type # None)
      BY <1>1 DEF TradeTypeOK, TypesFound
    <3>4. QED BY <2>1, <3>2, <3>3, CompletedFields
  <2>3. CatalogueTypeOK'
    BY <1>1, <1>10, CatalogueFrame DEF SaveCompletion
  <2>4. QuoteTypeOK'
    BY <1>10, <2>2, <2>3 DEF SaveCompletion, QuoteTypeOK, rateVars, calendarVars
  <2>5. QED BY <1>10, <2>2, <2>4 DEF TypesFound, VisitOK, SaveCompletion
<1>11. QED BY <1>2, <1>3, <1>4, <1>5, <1>6, <1>7, <1>8, <1>9, <1>10 DEF TradeNext

-----------------------------------------------------------------------------
\* Failures, time, and every step together.
LEMMA DropType ==
  ASSUME QuoteTypeOK, TypesFound, NEW gone \in SUBSET Calls, Drop(gone),
         copy' \in [Workers -> Services \cup {None}]
  PROVE  QuoteTypeOK' /\ TypesFound'
<1>1. \A hs : Without(hs, gone) \subseteq hs
  BY DEF Without
<1>2. CatalogueTypeOK'
  BY <1>1 DEF QuoteTypeOK, CatalogueTypeOK, Drop, Lose
<1>3. QuoteTypeOK'
  BY <1>1, <1>2 DEF QuoteTypeOK, Drop
<1>4. TypesFound'
  BY <1>1 DEF TypesFound, Drop, VisitOK
<1>5. QED BY <1>3, <1>4

\* A handler is one of a call.
LEMMA UnderWayCalls == QuoteTypeOK => UnderWay \subseteq Calls
<1> SUFFICES ASSUME QuoteTypeOK PROVE UnderWay \subseteq Calls
  OBVIOUS
<1>1. CatalogueTypeOK /\ TradeTypeOK /\ RateTypeOK /\ CalendarTypeOK
  BY TypeParts
<1>2. \A h \in edits \cup cardEdits \cup refreshes : h.call \in Calls
  BY <1>1 DEF CatalogueTypeOK, Edits, CardEdits, Refreshes
<1>3. \A h \in visits \cup completions \cup settlements \cup asks : h.call \in Calls
  BY <1>1 DEF TradeTypeOK, RateTypeOK, Visits, Completions, Settlements, Asks
<1>4. \A h \in upserts \cup plans \cup offerEdits : h.call \in Calls
  BY <1>1 DEF RateTypeOK, CalendarTypeOK, Upserts, Plans, OfferEdits
<1>5. QED BY <1>2, <1>3, <1>4 DEF UnderWay

LEMMA FailureType ==
  ASSUME QuoteTypeOK, TypesFound, (\E c \in Calls : Fail(c)) \/ (\E w \in Workers : Die(w))
  PROVE  /\ QuoteTypeOK' /\ TypesFound'
         /\ \E gone \in SUBSET UnderWay :
              Drop(gone) /\ \A w \in Workers : copy'[w] \in {None, copy[w]}
<1>1. copy \in [Workers -> Services \cup {None}]
  BY DEF QuoteTypeOK, CatalogueTypeOK
<1>2. PICK gone \in SUBSET UnderWay :
        /\ Drop(gone)
        /\ copy' \in [Workers -> Services \cup {None}]
        /\ \A w \in Workers : copy'[w] \in {None, copy[w]}
  BY <1>1 DEF Fail, Die
<1>3. gone \in SUBSET Calls
  BY UnderWayCalls
<1>4. QED BY <1>2, <1>3, DropType

LEMMA NextType ==
  ASSUME QuoteTypeOK, OneRate, AsksOK, TypesFound, [Next]_vars
  PROVE  QuoteTypeOK' /\ TypesFound'
<1>1. CatalogueTypeOK /\ clock \in 0 .. MaxTime
  BY TypeParts
<1>2. CASE CatalogueNext /\ UNCHANGED <<clock, tradeVars, rateVars, calendarVars>>
  <2>1. CatalogueTypeOK'
    BY <1>1, <1>2, CatalogueNextType
  <2>2. QuoteTypeOK'
    BY <1>2, <2>1 DEF QuoteTypeOK, tradeVars, rateVars, calendarVars
  <2>3. QED BY <1>2, <2>2 DEF TypesFound, VisitOK, tradeVars
<1>3. ASSUME UNCHANGED tradeVars PROVE TypesFound'
  BY <1>3 DEF TypesFound, VisitOK, tradeVars
<1>4. CASE CommissionNext
  <2>1. UNCHANGED tradeVars
    BY <1>4 DEF CommissionNext, UpsertCommission, CommitCommission, RetryCommission,
                AdoptCommission, HitRate, LoadRate, FillRate, Asked
  <2>2. QED BY <1>3, <1>4, <2>1, CommissionType
<1>5. CASE CalendarNext
  <2>1. UNCHANGED tradeVars
    BY <1>5 DEF CalendarNext, UpsertSeasonalPricing, DeleteSeasonalPricing, CreateSeason,
                CreateOffer, UpdateOffer, DeleteOffer, ChangeOffers, ReadOfferDates,
                SaveOfferDates
  <2>2. QED BY <1>3, <1>5, <2>1, CalendarType
<1>6. CASE TradeNext
  BY <1>6, TradeType
<1>7. CASE Tick
  <2>1. CatalogueTypeOK'
    BY <1>1, <1>7, CatalogueFrame DEF Tick
  <2>2. clock' \in 0 .. MaxTime
    BY <1>1, <1>7, Rules DEF Tick
  <2>3. QuoteTypeOK'
    BY <1>7, <2>1, <2>2 DEF Tick, QuoteTypeOK, tradeVars, rateVars, calendarVars
  <2>4. QED BY <1>3, <1>7, <2>3 DEF Tick
<1>8. CASE (\E c \in Calls : Fail(c)) \/ (\E w \in Workers : Die(w))
  BY <1>8, FailureType
<1>9. CASE UNCHANGED vars
  <2>1. CatalogueTypeOK'
    BY <1>1, <1>9, CatalogueFrame DEF vars
  <2>2. QuoteTypeOK'
    BY <1>9, <2>1 DEF vars, QuoteTypeOK, tradeVars, rateVars, calendarVars
  <2>3. QED BY <1>3, <1>9, <2>2 DEF vars
<1>10. QED BY <1>2, <1>4, <1>5, <1>6, <1>7, <1>8, <1>9 DEF Next

LEMMA InitType == Init => QuoteTypeOK
<1> SUFFICES ASSUME Init PROVE QuoteTypeOK
  OBVIOUS
<1>1. CatalogueTypeOK
  <2>1. service \in Services /\ pricing \in Cards \cup {None}
    <3>1. Unborn \in Services
      BY Inputs DEF Unborn, Services
    <3>2. QED BY <3>1, CardType DEF Init, CatalogueInit
  <2>2. copy \in [Workers -> Services \cup {None}]
    BY <2>1 DEF Init, CatalogueInit
  <2>3. duty \in [Calls -> Kinds]
    BY Inputs DEF Init, CatalogueInit
  <2>4. QED BY <2>1, <2>2, <2>3 DEF Init, CatalogueInit, CatalogueTypeOK
<1>2. rates \in Seq(Rates)
  <2>1. \A p \in Percentages : Rate(p) \in Rates
    BY DEF Rate, Rates
  <2>2. \A r \in Rates : <<r>> \in Seq(Rates)
    OBVIOUS
  <2>3. \A p \in Percentages : <<Rate(p)>> \in Seq(Rates)
    BY <2>1, <2>2
  <2>4. rates = <<>> \/ \E p \in Percentages : rates = <<Rate(p)>>
    BY DEF Init
  <2>5. <<>> \in Seq(Rates)
    OBVIOUS
  <2>6. QED BY <2>3, <2>4, <2>5
<1>3. cached \in Cached \cup {None}
  <2>1. clock + TTL \in Nat
    BY Rules DEF Init
  <2>2. [rate |-> 1, until |-> clock + TTL, late |-> FALSE] \in Cached
    BY <2>1 DEF Cached
  <2>3. cached = None \/ cached = [rate |-> 1, until |-> clock + TTL, late |-> FALSE]
    BY DEF Init
  <2>4. QED BY <2>2, <2>3
<1>4. offers \subseteq Offers
  <2>1. \A w \in Windows, d \in Discounts :
          [by |-> None, from |-> w.from, to |-> w.to, discount |-> d, active |-> TRUE] \in Offers
    BY WindowType DEF Offers
  <2>2. \/ offers = {}
        \/ \E w \in Windows, d \in Discounts :
             offers = {[by |-> None, from |-> w.from, to |-> w.to, discount |-> d, active |-> TRUE]}
    BY DEF Init
  <2>3. QED BY <2>1, <2>2
<1>5. QED BY <1>1, <1>2, <1>3, <1>4 DEF Init, QuoteTypeOK

-----------------------------------------------------------------------------
\* The commission: its invariants.
LEMMA RateFrame ==
  ASSUME RateTypeOK, clock \in Nat, RatesOK, CachedOK, AsksOK, UNCHANGED <<rates, cached>>,
         clock' \in {clock, clock + 1}, \A a \in asks' : a \in asks \/ a.step = "get"
  PROVE  RatesOK' /\ CachedOK' /\ AsksOK'
<1>1. Len(rates) \in Nat /\ \A i \in 1 .. Len(rates) : rates[i] \in Rates /\ rates[i].until \in Nat
  BY ActiveIsLast DEF RatesOK, Rates
<1>2. RatesOK'
  BY <1>1 DEF RatesOK, OneRate
<1>3. CachedOK'
  <2>1. cached # None => cached.until \in Nat
    BY DEF RateTypeOK, Cached
  <2>2. QED BY <1>1, <2>1, Rules DEF CachedOK
<1>4. AsksOK'
  <2>1. \A a \in asks : a.at \in Nat
    BY DEF RateTypeOK, Asks
  <2>2. \A a \in asks' : AskOK(a)'
    BY <1>1, <2>1 DEF AskOK, AsksOK
  <2>3. QED BY <2>2 DEF AsksOK
<1>5. QED BY <1>2, <1>3, <1>4

LEMMA CommitKeepsRates ==
  ASSUME RateTypeOK, clock \in Nat, RatesOK, CachedOK, AsksOK, NEW u \in upserts,
         CommitCommission(u)
  PROVE  RatesOK' /\ CachedOK' /\ AsksOK'
<1> DEFINE n == Len(rates)
<1>1. /\ rates' \in Seq(Rates) /\ Len(rates') = n + 1
      /\ rates'[n + 1] = Rate(u.percentage)
      /\ \A i \in 1 .. n : rates'[i] = IF i = n THEN Ended(rates[i]) ELSE rates[i]
  BY Swapped DEF RatesOK
<1>2. n \in Nat /\ \A i \in 1 .. n : rates[i] \in Rates
  BY ActiveIsLast DEF RatesOK
<1>3. \A i \in 1 .. n : i < n => rates'[i] = rates[i] /\ rates[i].until \in Nat
  BY <1>1, <1>2 DEF Rates
<1>4. n > 0 => ~rates'[n].active /\ rates'[n].until = clock
  <2>1. \A r \in Rates : Ended(r).active = FALSE /\ Ended(r).until = clock
    BY DEF Ended, Rates
  <2>2. n > 0 => n \in 1 .. n
    BY <1>2
  <2> HIDE DEF n
  <2>3. n > 0 => rates'[n] = Ended(rates[n]) /\ rates[n] \in Rates
    BY <1>1, <1>2, <2>2
  <2>4. QED BY <2>1, <2>3
<1>5. rates'[n + 1].active = TRUE
  BY <1>1 DEF Rate
<1>6. UNCHANGED <<clock, cached, asks>>
  BY DEF CommitCommission
<1>7. OneRate
  BY DEF RatesOK
<1> HIDE DEF n
<1>8. RatesOK'
  <2>1. \A i \in 1 .. n + 1 : (rates'[i].active <=> i = n + 1)
    <3>1. \A i \in 1 .. n + 1 : i = n + 1 \/ (i \in 1 .. n /\ (i < n \/ (i = n /\ n > 0)))
      BY <1>2
    <3>2. QED BY <1>2, <1>3, <1>4, <1>5, <1>7, <3>1 DEF OneRate, n
  <2>2. \A i \in 1 .. n : ~rates'[i].active => rates'[i].until <= clock
    BY <1>2, <1>3, <1>4 DEF RatesOK, n
  <2>3. \A i \in 1 .. n + 1 : ~rates'[i].active => rates'[i].until <= clock'
    BY <1>2, <1>5, <1>6, <2>2
  <2>4. QED BY <1>1, <2>1, <2>3 DEF RatesOK, OneRate
<1>9. \A i \in 1 .. n : i \in 1 .. n + 1
  BY <1>2
<1>10. CachedOK'
  <2> SUFFICES ASSUME cached # None PROVE CachedOK'
    BY <1>6 DEF CachedOK
  <2>1. cached.rate \in 1 .. n /\ cached.until <= clock + TTL
    BY DEF CachedOK, n
  <2>2. ~cached.late /\ ~rates'[cached.rate].active => cached.until <= rates'[cached.rate].until + TTL
    <3>1. CASE cached.rate = n
      BY <1>2, <1>4, <2>1, <3>1
    <3>2. CASE cached.rate < n
      BY <1>3, <2>1, <3>2 DEF CachedOK
    <3>3. QED BY <1>2, <2>1, <3>1, <3>2
  <2>3. QED BY <1>1, <1>6, <1>9, <2>1, <2>2 DEF CachedOK
<1>11. AsksOK'
  <2> SUFFICES ASSUME NEW a \in asks, a.step # "get" PROVE AskOK(a)'
    BY <1>6 DEF AsksOK, AskOK
  <2>1. a.rate \in 1 .. n /\ a.at <= clock /\ a.at \in Nat
    BY DEF AsksOK, AskOK, RateTypeOK, Asks, n
  <2>2. ~a.late /\ ~rates'[a.rate].active => a.at < rates'[a.rate].until + TTL
    <3>1. CASE a.rate = n
      BY <1>2, <1>4, <2>1, <3>1, Rules
    <3>2. CASE a.rate < n
      BY <1>3, <2>1, <3>2 DEF AsksOK, AskOK
    <3>3. QED BY <1>2, <2>1, <3>1, <3>2
  <2>3. QED BY <1>1, <1>6, <1>9, <2>1, <2>2 DEF AskOK
<1>12. QED BY <1>8, <1>10, <1>11

LEMMA AskKeepsRates ==
  ASSUME RateTypeOK, clock \in Nat, RatesOK, CachedOK, AsksOK, NEW a \in asks,
         HitRate(a) \/ LoadRate(a) \/ FillRate(a)
  PROVE  RatesOK' /\ CachedOK' /\ AsksOK'
<1>1. Len(rates) \in Nat /\ Active = Len(rates)
      /\ \A i \in 1 .. Len(rates) : rates[i] \in Rates /\ rates[i].until \in Nat
  BY ActiveIsLast DEF RatesOK, Rates
<1>2. a \in Asks
  BY DEF RateTypeOK
<1>3. UNCHANGED <<rates, clock>>
  BY DEF HitRate, LoadRate, FillRate, Asked
<1>4. RatesOK'
  BY <1>3 DEF RatesOK, OneRate
<1>5. CachedOK'
  <2>1. CASE FillRate(a)
    <3>1. a.rate \in 1 .. Len(rates)
      BY <2>1 DEF FillRate, AsksOK, AskOK
    <3> DEFINE new == [rate |-> a.rate, until |-> clock + TTL, late |-> ~rates[a.rate].active]
    <3>2. /\ new.rate \in 1 .. Len(rates) /\ new.until <= clock + TTL
          /\ ~new.late => rates[new.rate].active
      <4>1. rates[a.rate].active \in BOOLEAN
        BY <1>1, <3>1 DEF Rates
      <4>2. clock + TTL <= clock + TTL
        BY Rules
      <4>3. new.rate = a.rate /\ new.until = clock + TTL /\ new.late = ~rates[a.rate].active
        OBVIOUS
      <4> HIDE DEF new
      <4>4. QED BY <3>1, <4>1, <4>2, <4>3
    <3>3. cached' = new \/ cached' = cached
      BY <2>1 DEF FillRate
    <3> HIDE DEF new
    <3>4. QED BY <1>3, <3>2, <3>3 DEF CachedOK
  <2>2. CASE UNCHANGED cached
    BY <1>3, <2>2 DEF CachedOK
  <2>3. QED BY <2>1, <2>2 DEF HitRate, LoadRate
<1>6. PICK b : Asked(a, b) /\ AskOK(b)
  <2>1. CASE HitRate(a)
    <3> DEFINE b == [a EXCEPT !.step = "got", !.rate = cached.rate, !.at = clock,
                              !.late = cached.late]
    <3>1. b.rate = cached.rate /\ b.at = clock /\ b.late = cached.late
      BY <1>2 DEF Asks
    <3>2. cached # None /\ clock < cached.until /\ Asked(a, b)
      BY <2>1 DEF HitRate
    <3>3. cached \in Cached
      BY <3>2 DEF RateTypeOK
    <3> HIDE DEF b
    <3>4. AskOK(b)
      BY <1>1, <3>1, <3>2, <3>3, Rules DEF CachedOK, AskOK, Cached
    <3>5. QED BY <3>2, <3>4
  <2>2. CASE LoadRate(a)
    <3> DEFINE b == [a EXCEPT !.step = "fill", !.rate = Active, !.at = clock]
    <3>1. b.rate = Active /\ b.at = clock
      BY <1>2 DEF Asks
    <3>2. Asked(a, b) /\ Active # 0
      BY <2>2 DEF LoadRate
    <3> HIDE DEF b
    <3>3. b.rate \in 1 .. Len(rates) /\ rates[b.rate].active
      BY <1>1, <3>1, <3>2 DEF RatesOK, OneRate
    <3>4. QED BY <3>1, <3>2, <3>3 DEF AskOK
  <2>3. CASE FillRate(a)
    <3> DEFINE b == [a EXCEPT !.step = "got"]
    <3>1. b.rate = a.rate /\ b.at = a.at /\ b.late = a.late
      BY <1>2 DEF Asks
    <3>2. Asked(a, b) /\ a.step = "fill"
      BY <2>3 DEF FillRate
    <3> HIDE DEF b
    <3>3. QED BY <3>1, <3>2 DEF AsksOK, AskOK
  <2>4. QED BY <2>1, <2>2, <2>3
<1>7. AsksOK'
  <2>1. \A x \in asks' : AskOK(x)
    BY <1>6 DEF Asked, AsksOK
  <2>2. \A x \in asks' : AskOK(x)'
    BY <1>3, <2>1 DEF AskOK
  <2>3. QED BY <2>2 DEF AsksOK
<1>8. QED BY <1>4, <1>5, <1>7

LEMMA RatesKept ==
  ASSUME QuoteTypeOK, RatesOK, CachedOK, AsksOK, [Next]_vars
  PROVE  RatesOK' /\ CachedOK' /\ AsksOK'
<1>1. RateTypeOK /\ clock \in Nat
  BY TypeParts, Rules
<1>2. CASE CommissionNext
  <2>1. ASSUME NEW c \in Calls, UpsertCommission(c) PROVE RatesOK' /\ CachedOK' /\ AsksOK'
    BY <1>1, <2>1, RateFrame DEF UpsertCommission
  <2>2. ASSUME NEW u \in upserts, RetryCommission(u) \/ AdoptCommission(u)
        PROVE  RatesOK' /\ CachedOK' /\ AsksOK'
    BY <1>1, <2>2, RateFrame DEF RetryCommission, AdoptCommission
  <2>3. QED BY <1>1, <1>2, <2>1, <2>2, CommitKeepsRates, AskKeepsRates DEF CommissionNext
<1>3. ASSUME UNCHANGED <<rates, cached, asks>>, clock' \in {clock, clock + 1}
      PROVE  RatesOK' /\ CachedOK' /\ AsksOK'
  BY <1>1, <1>3, RateFrame
<1>4. CASE CatalogueNext /\ UNCHANGED <<clock, tradeVars, rateVars, calendarVars>>
  BY <1>3, <1>4 DEF rateVars
<1>5. CASE CalendarNext
  BY <1>3, <1>5 DEF CalendarNext, UpsertSeasonalPricing, DeleteSeasonalPricing, CreateSeason,
                CreateOffer, UpdateOffer, DeleteOffer, ChangeOffers, ReadOfferDates,
                SaveOfferDates, rateVars
<1>6. CASE TradeNext
  <2>1. \A c : NewAsk(c).step = "get"
    BY DEF NewAsk
  <2>2. ASSUME NEW c \in Calls, Arrive(c) \/ ReadCompletion(c) \/ Settle(c)
        PROVE  /\ UNCHANGED <<rates, cached, clock>>
               /\ \A a \in asks' : a \in asks \/ a.step = "get"
    BY <2>1, <2>2 DEF Arrive, ReadCompletion, Settle, rateVars
  <2>3. ASSUME NEW v \in visits, FindAndKeep(v) \/ ReadCard(v) \/ ReadSeason(v) \/ Book(v)
        PROVE  /\ UNCHANGED <<rates, cached, clock>>
               /\ \A a \in asks' : a \in asks \/ a.step = "get"
    BY <2>1, <2>3 DEF FindAndKeep, ReadCard, ReadSeason, Book, Move, rateVars
  <2>4. ASSUME NEW x \in settlements, SaveSettlement(x)
        PROVE  /\ UNCHANGED <<rates, cached, clock>>
               /\ \A a \in asks' : a \in asks \/ a.step = "get"
    BY <2>4 DEF SaveSettlement
  <2>5. ASSUME NEW x \in completions, SaveCompletion(x)
        PROVE  UNCHANGED <<rates, cached, clock, asks>>
    BY <2>5 DEF SaveCompletion, rateVars
  <2>6. /\ UNCHANGED <<rates, cached, clock>>
        /\ \A a \in asks' : a \in asks \/ a.step = "get"
    BY <1>6, <2>2, <2>3, <2>4, <2>5 DEF TradeNext
  <2>7. QED BY <1>1, <2>6, RateFrame
<1>7. CASE Tick
  BY <1>3, <1>7 DEF Tick, rateVars
<1>8. CASE (\E c \in Calls : Fail(c)) \/ (\E w \in Workers : Die(w))
  <2>1. UNCHANGED <<rates, cached, clock>> /\ asks' \subseteq asks
    BY <1>8 DEF Fail, Die, Drop, Without
  <2>2. QED BY <1>1, <2>1, RateFrame
<1>9. CASE UNCHANGED vars
  BY <1>3, <1>9 DEF vars, rateVars
<1>10. QED BY <1>2, <1>4, <1>5, <1>6, <1>7, <1>8, <1>9 DEF Next

-----------------------------------------------------------------------------
\* Handlers and their calls.

\* Every handler there is now belongs to a call that had one, or is new.
Follows(new, old) == \A h \in new : h.call \in spent' \ spent \/ \E g \in old : g.call = h.call

LEMMA OwnedKept ==
  ASSUME Owned, lost' = lost, spent \subseteq spent',
         Follows(edits', edits), Follows(cardEdits', cardEdits), Follows(refreshes', refreshes),
         Follows(visits', visits), Follows(completions', completions),
         Follows(settlements', settlements), Follows(asks', asks \cup visits \cup settlements),
         Follows(upserts', upserts), Follows(plans', plans), Follows(offerEdits', offerEdits)
  PROVE  Owned'
<1>1. UnderWay' \subseteq UnderWay \cup (spent' \ spent)
  BY DEF Follows, UnderWay
<1>2. QED BY <1>1 DEF Owned

LEMMA FollowsSame == \A hs : Follows(hs, hs)
BY DEF Follows

LEMMA FollowsFewer == \A new, old : new \subseteq old => Follows(new, old)
BY DEF Follows

LEMMA FollowsMore ==
  ASSUME NEW new, NEW old, NEW h, new \subseteq old \cup {h},
         h.call \in spent' \ spent \/ \E g \in old : g.call = h.call
  PROVE  Follows(new, old)
BY DEF Follows

LEMMA SpendNew ==
  ASSUME NEW c, NEW kind, Spend(c, kind)
  PROVE  c \in spent' \ spent /\ spent \subseteq spent' /\ lost' = lost
BY DEF Spend

LEMMA CatalogueSpends ==
  ASSUME CatalogueTypeOK, CatalogueNext
  PROVE  lost' = lost /\ host' = host /\ spent \subseteq spent'
<1>1. ASSUME NEW c, NEW s, NEW step, SaveService(c, s, step)
      PROVE  lost' = lost /\ host' = host /\ spent \subseteq spent'
  BY <1>1 DEF SaveService, Spend
<1>2. ASSUME NEW c \in Calls, CreateService(c) \/ UpdateService(c) \/ ToggleServiceStatus(c)
      PROVE  lost' = lost /\ host' = host /\ spent \subseteq spent'
  BY <1>1, <1>2, SavedIsService
<1>3. QED BY <1>2 DEF CatalogueNext, ReadPricing, Spend, MirrorPrices, ForgetServices,
              FindServices, KeepServices, SavePricing, callVars

LEMMA CatalogueOwned ==
  ASSUME QuoteTypeOK, Owned, CatalogueNext, UNCHANGED <<clock, tradeVars, rateVars, calendarVars>>
  PROVE  Owned'
<1>1. CatalogueTypeOK
  BY TypeParts
<1>2. lost' = lost /\ spent \subseteq spent'
  BY <1>1, CatalogueSpends
<1>3. /\ Follows(edits', edits) /\ Follows(cardEdits', cardEdits)
      /\ Follows(refreshes', refreshes) \/ \E e \in edits : ForgetServices(e)
  <2>1. ASSUME NEW c \in Calls, CreateService(c) \/ UpdateService(c) \/ ToggleServiceStatus(c)
        PROVE  /\ Follows(edits', edits) /\ Follows(cardEdits', cardEdits)
               /\ Follows(refreshes', refreshes)
    <3>1. PICK s \in Services, step \in {"mirror", "forget"} : SaveService(c, s, step)
      BY <1>1, <2>1, SavedIsService
    <3>2. QED BY <3>1, FollowsSame DEF SaveService, Spend, Follows
  <2>2. ASSUME NEW c \in Calls, ReadPricing(c)
        PROVE  /\ Follows(edits', edits) /\ Follows(cardEdits', cardEdits)
               /\ Follows(refreshes', refreshes)
    BY <2>2, FollowsSame DEF ReadPricing, Spend, Follows
  <2>3. ASSUME NEW e \in edits, MirrorPrices(e) \/ ForgetServices(e)
        PROVE  /\ Follows(edits', edits) /\ Follows(cardEdits', cardEdits)
               /\ Follows(refreshes', refreshes) \/ ForgetServices(e)
    <3>1. [e EXCEPT !.step = "forget"].call = e.call
      BY <1>1 DEF CatalogueTypeOK, Edits
    <3>2. QED BY <2>3, <3>1, FollowsSame DEF MirrorPrices, ForgetServices, Follows
  <2>4. ASSUME NEW r \in refreshes, FindServices(r) \/ KeepServices(r)
        PROVE  /\ Follows(edits', edits) /\ Follows(cardEdits', cardEdits)
               /\ Follows(refreshes', refreshes)
    <3>1. [r EXCEPT !.read = service].call = r.call
      BY <1>1 DEF CatalogueTypeOK, Refreshes
    <3>2. QED BY <2>4, <3>1, FollowsSame DEF FindServices, KeepServices, Follows
  <2>5. ASSUME NEW x \in cardEdits, SavePricing(x)
        PROVE  /\ Follows(edits', edits) /\ Follows(cardEdits', cardEdits)
               /\ Follows(refreshes', refreshes)
    BY <2>5, FollowsSame DEF SavePricing, Follows
  <2>6. QED BY <2>1, <2>2, <2>3, <2>4, <2>5 DEF CatalogueNext
<1>4. UnderWay' \subseteq UnderWay \cup (spent' \ spent)
  <2>1. \A h \in refreshes' : h.call \in UnderWay \cup (spent' \ spent)
    <3>1. CASE Follows(refreshes', refreshes)
      BY <3>1 DEF Follows, UnderWay
    <3>2. ASSUME NEW e \in edits, ForgetServices(e)
          PROVE  \A h \in refreshes' : h.call \in UnderWay \cup (spent' \ spent)
      BY <3>2 DEF ForgetServices, UnderWay
    <3>3. QED BY <1>3, <3>1, <3>2
  <2>2. \A h \in edits' \cup cardEdits' : h.call \in UnderWay \cup (spent' \ spent)
    BY <1>3 DEF Follows, UnderWay
  <2>3. \A h \in visits' \cup completions' \cup settlements' \cup asks' \cup upserts' \cup plans'
                  \cup offerEdits' :
          h.call \in UnderWay
    BY DEF UnderWay, tradeVars, rateVars, calendarVars
  <2>4. QED BY <2>1, <2>2, <2>3 DEF UnderWay
<1>5. QED BY <1>2, <1>4 DEF Owned

LEMMA CommissionOwned ==
  ASSUME QuoteTypeOK, Owned, CommissionNext
  PROVE  Owned'
<1>1. RateTypeOK
  BY TypeParts
<1>2. UNCHANGED <<edits, cardEdits, refreshes, visits, completions, settlements, plans, offerEdits>>
  BY DEF CommissionNext, UpsertCommission, CommitCommission, RetryCommission, AdoptCommission,
         HitRate, LoadRate, FillRate, Asked, shelfVars, tradeVars, calendarVars
<1>3. /\ lost' = lost /\ spent \subseteq spent'
      /\ Follows(upserts', upserts) /\ Follows(asks', asks)
  <2>1. ASSUME NEW c \in Calls, UpsertCommission(c)
        PROVE  /\ lost' = lost /\ spent \subseteq spent'
               /\ Follows(upserts', upserts) /\ Follows(asks', asks)
    BY <2>1, FollowsSame DEF UpsertCommission, Spend, Follows
  <2>2. ASSUME NEW u \in upserts, CommitCommission(u) \/ RetryCommission(u) \/ AdoptCommission(u)
        PROVE  /\ lost' = lost /\ spent \subseteq spent'
               /\ Follows(upserts', upserts) /\ Follows(asks', asks)
    <3>1. [u EXCEPT !.saw = Active].call = u.call
      BY <1>1 DEF RateTypeOK, Upserts
    <3>2. upserts' \subseteq upserts \cup {[u EXCEPT !.saw = Active]}
      BY <2>2 DEF CommitCommission, RetryCommission, AdoptCommission
    <3>3. QED BY <2>2, <3>1, <3>2, FollowsSame
              DEF CommitCommission, RetryCommission, AdoptCommission, callVars, Follows
  <2>3. ASSUME NEW a \in asks, HitRate(a) \/ LoadRate(a) \/ FillRate(a)
        PROVE  /\ lost' = lost /\ spent \subseteq spent'
               /\ Follows(upserts', upserts) /\ Follows(asks', asks)
    <3>1. PICK b : Asked(a, b) /\ b.call = a.call
      <4>1. a \in Asks
        BY <1>1 DEF RateTypeOK
      <4>2. /\ \A r, t : [a EXCEPT !.step = "fill", !.rate = r, !.at = t].call = a.call
            /\ [a EXCEPT !.step = "got"].call = a.call
        BY <4>1 DEF Asks
      <4>3. CASE HitRate(a)
        <5> DEFINE b == [a EXCEPT !.step = "got", !.rate = cached.rate, !.at = clock,
                                  !.late = cached.late]
        <5>1. Asked(a, b)
          BY <4>3 DEF HitRate
        <5>2. b.call = a.call
          BY <4>1 DEF Asks
        <5> HIDE DEF b
        <5>3. QED BY <5>1, <5>2
      <4>4. CASE LoadRate(a)
        BY <4>2, <4>4 DEF LoadRate
      <4>5. CASE FillRate(a)
        BY <4>2, <4>5 DEF FillRate
      <4>6. QED BY <2>3, <4>3, <4>4, <4>5
    <3>2. QED BY <3>1, FollowsSame DEF Asked, callVars, Follows
  <2>4. QED BY <2>1, <2>2, <2>3 DEF CommissionNext
<1>4. Follows(asks', asks \cup visits \cup settlements)
  BY <1>3 DEF Follows
<1>5. QED BY <1>2, <1>3, <1>4, FollowsSame, OwnedKept

LEMMA CalendarOwned ==
  ASSUME QuoteTypeOK, Owned, CalendarNext
  PROVE  Owned'
<1>1. UNCHANGED <<edits, cardEdits, refreshes, visits, completions, settlements, asks, upserts>>
  BY DEF CalendarNext, UpsertSeasonalPricing, DeleteSeasonalPricing, CreateSeason,
         CreateOffer, UpdateOffer, DeleteOffer, ChangeOffers, ReadOfferDates, SaveOfferDates,
         shelfVars, tradeVars, rateVars
<1>2. lost' = lost /\ spent \subseteq spent'
  BY DEF CalendarNext, UpsertSeasonalPricing, DeleteSeasonalPricing, CreateSeason,
         CreateOffer, UpdateOffer, DeleteOffer, ChangeOffers, ReadOfferDates, SaveOfferDates,
         Spend, callVars
<1>3. Follows(plans', plans) /\ Follows(offerEdits', offerEdits)
  <2>1. ASSUME NEW c \in Calls, UpsertSeasonalPricing(c)
        PROVE  Follows(plans', plans) /\ Follows(offerEdits', offerEdits)
    BY <2>1, FollowsSame, SpendNew DEF UpsertSeasonalPricing, Follows
  <2>2. ASSUME NEW c \in Calls, ReadOfferDates(c)
        PROVE  Follows(plans', plans) /\ Follows(offerEdits', offerEdits)
    BY <2>2, FollowsSame, SpendNew DEF ReadOfferDates, Follows
  <2>3. ASSUME plans' \subseteq plans, offerEdits' \subseteq offerEdits
        PROVE  Follows(plans', plans) /\ Follows(offerEdits', offerEdits)
    BY <2>3, FollowsFewer
  <2>4. QED BY <2>1, <2>2, <2>3 DEF CalendarNext, DeleteSeasonalPricing, CreateSeason,
                CreateOffer, UpdateOffer, DeleteOffer, ChangeOffers, SaveOfferDates
<1>4. Follows(asks', asks \cup visits \cup settlements)
  BY <1>1 DEF Follows
<1>5. QED BY <1>1, <1>2, <1>3, <1>4, FollowsSame, OwnedKept

LEMMA TradeOwned ==
  ASSUME QuoteTypeOK, Owned, TradeNext
  PROVE  Owned'
<1>1. CatalogueTypeOK /\ TradeTypeOK /\ RateTypeOK
  BY TypeParts
<1>2. UNCHANGED <<edits, cardEdits, upserts, plans, offerEdits>>
  BY DEF TradeNext, Arrive, ReadCompletion, SaveCompletion, Settle, FindAndKeep, KeepServices,
         ReadCard, ReadSeason, Book, SaveSettlement, Move, shelfVars, rateVars, calendarVars
<1>3. lost' = lost /\ spent \subseteq spent'
  BY DEF TradeNext, Arrive, ReadCompletion, SaveCompletion, Settle, FindAndKeep, KeepServices,
         ReadCard, ReadSeason, Book, SaveSettlement, Move, Spend, callVars
<1>4. \A c \in Calls : NewAsk(c).call = c /\ \A typed : NewVisit(c, typed).call = c
  BY DEF NewAsk, NewVisit
<1>5. \A v \in Visits : \A s : \A n \in Told(v, s) : n.call = v.call
  BY DEF Told, Visits
<1> DEFINE Grown == /\ Follows(refreshes', refreshes) /\ Follows(visits', visits)
                    /\ Follows(completions', completions) /\ Follows(settlements', settlements)
                    /\ Follows(asks', asks \cup visits \cup settlements)
<1>6. ASSUME NEW c \in Calls, Arrive(c) PROVE Grown
  <2>1. PICK typed \in BOOLEAN :
          \/ /\ visits' = visits \cup {NewVisit(c, typed)}
             /\ refreshes' = refreshes \cup {[call |-> c, read |-> None]}
          \/ /\ visits' = visits \cup Told(NewVisit(c, typed), copy[host[c]])
             /\ UNCHANGED refreshes
    BY <1>6 DEF Arrive
  <2>2. c \in spent' \ spent
    BY <1>6 DEF Arrive, Spend
  <2>3. \A n \in Told(NewVisit(c, typed), copy[host[c]]) : n.call = c
    BY <1>4, <1>5, NewVisitType
  <2>4. Follows(visits', visits)
    BY <1>4, <2>1, <2>2, <2>3 DEF Follows
  <2>5. Follows(refreshes', refreshes)
    BY <2>1, <2>2 DEF Follows
  <2>6. completions' = completions /\ settlements' = settlements /\ asks' = asks
    BY <1>6 DEF Arrive, rateVars
  <2>7. QED BY <2>4, <2>5, <2>6 DEF Follows
<1>7. ASSUME NEW c \in Calls, Settle(c) PROVE Grown
  <2>1. c \in spent' \ spent
    BY <1>7 DEF Settle, Spend
  <2>2. UNCHANGED <<refreshes, visits, completions>>
    BY <1>7 DEF Settle, shelfVars
  <2>3. Follows(settlements', settlements) /\ Follows(asks', asks \cup visits \cup settlements)
    BY <1>4, <1>7, <2>1 DEF Settle, Follows
  <2>4. QED BY <2>2, <2>3 DEF Follows
<1>8. ASSUME NEW v \in visits, FindAndKeep(v) PROVE Grown
  <2>1. PICK r \in refreshes : KeepServices(r) /\ visits' = (visits \ {v}) \cup Told(v, r.read)
    BY <1>8 DEF FindAndKeep
  <2>2. v \in Visits
    BY <1>1 DEF TradeTypeOK
  <2>3. Follows(visits', visits)
    BY <1>5, <2>1, <2>2 DEF Follows
  <2>4. refreshes' \subseteq refreshes
    BY <2>1 DEF KeepServices
  <2>5. completions' = completions /\ settlements' = settlements /\ asks' = asks
    BY <1>8 DEF FindAndKeep, rateVars
  <2>6. QED BY <2>3, <2>4, <2>5 DEF Follows
<1>9. ASSUME NEW v \in visits, ReadCard(v) \/ ReadSeason(v) \/ Book(v) PROVE Grown
  <2>1. v \in Visits /\ v.call \in Calls
    BY <1>1 DEF TradeTypeOK, Visits
  <2>2. UNCHANGED <<refreshes, completions, settlements>>
    BY <1>9 DEF ReadCard, ReadSeason, Book, Move, shelfVars
  <2>3. Follows(visits', visits)
    <3>1. CASE ReadCard(v)
      <4>1. [v EXCEPT !.doc = pricing, !.step = "season"].call = v.call
        BY <2>1 DEF Visits
      <4>2. QED BY <3>1, <4>1 DEF ReadCard, Move, Follows
    <3>2. CASE ReadSeason(v)
      <4>1. PICK m : Move(v, {[v EXCEPT !.step = "offer", !.multiplier = m,
                                        !.doc = IF @ = None THEN pricing ELSE @]})
        BY <3>2 DEF ReadSeason
      <4> DEFINE q == [v EXCEPT !.step = "offer", !.multiplier = m,
                                !.doc = IF @ = None THEN pricing ELSE @]
      <4>2. q.call = v.call
        BY <2>1 DEF Visits
      <4>3. visits' = (visits \ {v}) \cup {q}
        BY <4>1 DEF Move
      <4> HIDE DEF q
      <4>4. QED BY <4>2, <4>3 DEF Follows
    <3>3. CASE Book(v)
      BY <3>3 DEF Book, Follows
    <3>4. QED BY <1>9, <3>1, <3>2, <3>3
  <2>4. Follows(asks', asks \cup visits \cup settlements)
    <3>1. asks' \subseteq asks \cup {NewAsk(v.call)}
      BY <1>9 DEF ReadCard, ReadSeason, Book
    <3>2. QED BY <1>4, <2>1, <3>1 DEF Follows
  <2>5. QED BY <2>2, <2>3, <2>4 DEF Follows
<1>10. ASSUME NEW x \in settlements, SaveSettlement(x) PROVE Grown
  BY <1>10 DEF SaveSettlement, Follows, shelfVars
<1>11. ASSUME NEW c \in Calls, ReadCompletion(c) PROVE Grown
  <2>1. c \in spent' \ spent
    BY <1>11 DEF ReadCompletion, Spend
  <2>2. UNCHANGED <<refreshes, visits, settlements, asks>>
    BY <1>11 DEF ReadCompletion, shelfVars, rateVars
  <2>3. Follows(completions', completions)
    BY <1>11, <2>1 DEF ReadCompletion, Follows
  <2>4. QED BY <2>2, <2>3 DEF Follows
<1>12. ASSUME NEW x \in completions, SaveCompletion(x) PROVE Grown
  BY <1>12 DEF SaveCompletion, Follows, shelfVars, rateVars
<1>13. Grown
  BY <1>6, <1>7, <1>8, <1>9, <1>10, <1>11, <1>12 DEF TradeNext
<1> HIDE DEF Grown
<1>14. QED BY <1>2, <1>3, <1>13, FollowsSame, OwnedKept DEF Grown

LEMMA OwnedStays ==
  ASSUME QuoteTypeOK, TypesFound, Owned, [Next]_vars
  PROVE  Owned'
<1>1. CASE Tick \/ UNCHANGED vars
  BY <1>1 DEF Owned, UnderWay, Tick, vars, callVars, shelfVars, tradeVars, rateVars, calendarVars
<1>2. CASE (\E c \in Calls : Fail(c)) \/ (\E w \in Workers : Die(w))
  <2>1. PICK gone \in SUBSET UnderWay : Drop(gone)
    BY <1>2, FailureType
  <2>2. lost' = lost \cup gone /\ spent' = spent
    BY <2>1 DEF Drop, Lose
  <2>3. UnderWay' \subseteq UnderWay \ gone
    <3>1. \A hs : \A h \in Without(hs, gone) : h \in hs /\ h.call \notin gone
      BY DEF Without
    <3>2. QED BY <2>1, <3>1 DEF Drop, Lose, UnderWay
  <2>4. QED BY <2>2, <2>3 DEF Owned
<1>3. QED BY <1>1, <1>2, CatalogueOwned, CommissionOwned, CalendarOwned, TradeOwned DEF Next

-----------------------------------------------------------------------------
\* Seasons and offers: their invariants.
LEMMA SpentGrows == [Next]_vars /\ QuoteTypeOK => spent \subseteq spent' /\ host' = host
<1> SUFFICES ASSUME [Next]_vars, QuoteTypeOK PROVE spent \subseteq spent' /\ host' = host
  OBVIOUS
<1>1. CASE CatalogueNext
  BY <1>1, CatalogueSpends DEF QuoteTypeOK
<1>2. CASE CommissionNext
  BY <1>2 DEF CommissionNext, UpsertCommission, CommitCommission, RetryCommission,
              AdoptCommission, HitRate, LoadRate, FillRate, Asked, Spend, callVars
<1>3. CASE CalendarNext
  BY <1>3 DEF CalendarNext, UpsertSeasonalPricing, DeleteSeasonalPricing, CreateSeason,
         CreateOffer, UpdateOffer, DeleteOffer, ChangeOffers, ReadOfferDates, SaveOfferDates,
         Spend, callVars
<1>4. CASE TradeNext
  BY <1>4 DEF TradeNext, Arrive, ReadCompletion, SaveCompletion, Settle, FindAndKeep,
         KeepServices, ReadCard, ReadSeason, Book, SaveSettlement, Move, Spend, callVars
<1>5. QED BY <1>1, <1>2, <1>3, <1>4 DEF Next, Tick, Fail, Die, Drop, Lose, vars, callVars

\* Only these steps touch seasons and offers.
LEMMA CalendarFrame ==
  ASSUME [Next]_vars, ~CalendarNext
  PROVE  /\ UNCHANGED <<seasons, offers>>
         /\ plans' \subseteq plans /\ offerEdits' \subseteq offerEdits
<1>1. CASE CommissionNext
  BY <1>1 DEF CommissionNext, UpsertCommission, CommitCommission, RetryCommission,
              AdoptCommission, HitRate, LoadRate, FillRate, Asked, calendarVars
<1>2. CASE TradeNext
  BY <1>2 DEF TradeNext, Arrive, ReadCompletion, SaveCompletion, Settle, FindAndKeep, ReadCard,
         ReadSeason, Book, SaveSettlement, Move, calendarVars
<1>3. CASE (\E c \in Calls : Fail(c)) \/ (\E w \in Workers : Die(w))
  BY <1>3 DEF Fail, Die, Drop, Without
<1>4. QED BY <1>1, <1>2, <1>3 DEF Next, Tick, vars, calendarVars

LEMMA PlansKept ==
  ASSUME QuoteTypeOK, PlansOK, [Next]_vars
  PROVE  PlansOK'
<1>1. CASE \E c \in Calls : UpsertSeasonalPricing(c)
  <2>1. PICK c \in Calls, w \in Windows, m \in Multipliers :
          LET s == [by |-> c, from |-> w.from, to |-> w.to, multiplier |-> m]
          IN /\ \A x \in seasons : ~Overlap(x, s)
             /\ plans' = plans \cup {[call |-> c, season |-> s, saw |-> seasons]}
    BY <1>1 DEF UpsertSeasonalPricing
  <2> DEFINE s == [by |-> c, from |-> w.from, to |-> w.to, multiplier |-> m]
             p == [call |-> c, season |-> s, saw |-> seasons]
  <2>2. p.season = s /\ p.saw = seasons
    OBVIOUS
  <2>3. plans' = plans \cup {p} /\ \A x \in seasons : ~Overlap(x, s)
    BY <2>1
  <2> HIDE DEF s, p
  <2>4. QED BY <2>2, <2>3 DEF PlansOK
<1>2. CASE plans' \subseteq plans
  BY <1>2 DEF PlansOK
<1>3. CASE CalendarNext /\ ~\E c \in Calls : UpsertSeasonalPricing(c)
  BY <1>2, <1>3 DEF CalendarNext, DeleteSeasonalPricing, CreateSeason, CreateOffer, UpdateOffer,
                DeleteOffer, ChangeOffers, ReadOfferDates, SaveOfferDates
<1>4. QED BY <1>1, <1>2, <1>3, CalendarFrame

LEMMA NamesFrame ==
  ASSUME OffersNamed, offers' = offers, spent \subseteq spent'
  PROVE  OffersNamed'
BY DEF OffersNamed

\* What a call does to the offers.
LEMMA ChangeKeepsNames ==
  ASSUME QuoteTypeOK, OffersNamed, NEW c \in Calls,
         CreateOffer(c) \/ UpdateOffer(c) \/ DeleteOffer(c)
  PROVE  OffersNamed'
<1>1. c \notin spent /\ spent' = spent \cup {c}
  BY DEF CreateOffer, UpdateOffer, DeleteOffer, ChangeOffers, Spend
<1>2. CASE CreateOffer(c)
  <2>1. PICK w \in Windows, d \in Discounts, a \in BOOLEAN :
          offers' = offers \cup
            {[by |-> c, from |-> w.from, to |-> w.to, discount |-> d, active |-> a]}
    BY <1>2 DEF CreateOffer, ChangeOffers
  <2> DEFINE new == [by |-> c, from |-> w.from, to |-> w.to, discount |-> d, active |-> a]
  <2>2. new.by = c /\ offers' = offers \cup {new}
    BY <2>1
  <2>3. c # None
    BY Inputs
  <2> HIDE DEF new
  <2>4. QED BY <1>1, <2>2, <2>3 DEF OffersNamed
<1>3. CASE UpdateOffer(c)
  <2>1. PICK o \in offers, d \in Discounts, a \in BOOLEAN :
          offers' = (offers \ {o}) \cup {[o EXCEPT !.discount = d, !.active = a]}
    BY <1>3 DEF UpdateOffer, ChangeOffers
  <2> DEFINE new == [o EXCEPT !.discount = d, !.active = a]
  <2>2. o \in Offers
    BY DEF QuoteTypeOK
  <2>3. new.by = o.by /\ offers' = (offers \ {o}) \cup {new}
    BY <2>1, <2>2 DEF Offers
  <2> HIDE DEF new
  <2>4. QED BY <1>1, <2>3 DEF OffersNamed
<1>4. CASE DeleteOffer(c)
  BY <1>1, <1>4 DEF DeleteOffer, ChangeOffers, OffersNamed
<1>5. QED BY <1>2, <1>3, <1>4

\* What the save of an update with dates makes of an offer.
Redated(o, x, d, active) ==
  IF o.by = x.of.by
  THEN [o EXCEPT !.from = Given(x.from, @), !.to = Given(x.to, @),
                 !.discount = d, !.active = active]
  ELSE o

LEMMA RedatedFields ==
  ASSUME NEW o \in Offers, NEW x, NEW d, NEW active
  PROVE  /\ Redated(o, x, d, active).by = o.by
         /\ o.by # x.of.by => Redated(o, x, d, active) = o
         /\ o.by = x.of.by =>
              /\ Redated(o, x, d, active).from = Given(x.from, o.from)
              /\ Redated(o, x, d, active).to = Given(x.to, o.to)
<1> DEFINE a == Given(x.from, o.from)
           b == Given(x.to, o.to)
           n == [o EXCEPT !.from = a, !.to = b, !.discount = d, !.active = active]
<1>1. n.by = o.by /\ n.from = a /\ n.to = b
  BY DEF Offers
<1>2. Redated(o, x, d, active) = IF o.by = x.of.by THEN n ELSE o
  BY DEF Redated
<1> HIDE DEF a, b, n
<1>3. QED BY <1>1, <1>2 DEF a, b

LEMMA SaveRedates ==
  ASSUME QuoteTypeOK, NEW x \in offerEdits, SaveOfferDates(x)
  PROVE  /\ offers \subseteq Offers
         /\ \E d \in Discounts, a \in BOOLEAN :
              \A n \in offers' : \E o \in offers : n = Redated(o, x, d, a)
BY DEF SaveOfferDates, Redated, QuoteTypeOK

LEMMA OffersKept ==
  ASSUME QuoteTypeOK, OffersOK, [Next]_vars
  PROVE  OffersOK'
<1>1. OffersNamed /\ DatesChecked /\ spent \subseteq spent'
  BY SpentGrows DEF OffersOK
<1>2. OffersNamed'
  <2>1. CASE offers' = offers
    BY <1>1, <2>1, NamesFrame
  <2>2. ASSUME NEW c \in Calls, CreateOffer(c) \/ UpdateOffer(c) \/ DeleteOffer(c)
        PROVE  OffersNamed'
    BY <1>1, <2>2, ChangeKeepsNames
  <2>3. ASSUME NEW x \in offerEdits, SaveOfferDates(x) PROVE OffersNamed'
    <3>1. PICK d \in Discounts, a \in BOOLEAN :
            \A n \in offers' : \E o \in offers : n = Redated(o, x, d, a)
      BY <2>3, SaveRedates
    <3>2. \A o \in offers : Redated(o, x, d, a).by = o.by
      BY <2>3, SaveRedates, RedatedFields
    <3>3. QED BY <1>1, <3>1, <3>2 DEF OffersNamed
  <2>4. CASE CalendarNext
    BY <2>1, <2>2, <2>3, <2>4 DEF CalendarNext, UpsertSeasonalPricing, DeleteSeasonalPricing,
                CreateSeason, ReadOfferDates
  <2>5. QED BY <2>1, <2>4, CalendarFrame
<1>3. DatesChecked'
  <2>1. CASE offerEdits' \subseteq offerEdits
    BY <1>1, <2>1 DEF DatesChecked
  <2>2. ASSUME NEW c \in Calls, ReadOfferDates(c) PROVE DatesChecked'
    <3>1. PICK o \in offers, from \in {None} \cup UNION {{w.from, w.to} : w \in Windows},
               to \in {None} \cup UNION {{w.from, w.to} : w \in Windows} :
            /\ Given(from, o.from) < Given(to, o.to)
            /\ offerEdits' = offerEdits \cup {[call |-> c, of |-> o, from |-> from, to |-> to]}
      BY <2>2 DEF ReadOfferDates
    <3>2. QED BY <1>1, <3>1 DEF DatesChecked
  <2>3. CASE CalendarNext
    BY <2>1, <2>2, <2>3 DEF CalendarNext, UpsertSeasonalPricing, DeleteSeasonalPricing,
                CreateSeason, CreateOffer, UpdateOffer, DeleteOffer, ChangeOffers, SaveOfferDates
  <2>4. QED BY <2>1, <2>3, CalendarFrame
<1>4. QED BY <1>2, <1>3 DEF OffersOK

-----------------------------------------------------------------------------
\* Payments: a balance is taken with the advance to make the final amount; a completion
\* that comes after it is marked.
LEMMA PaidUpOK ==
  ASSUME NEW q \in Quotes, q.typed => q.service.type # None, PaidFor(q), ~q.anew,
         q.paid = None => Advance(q) > 0 /\ Remaining(q) > 0
  PROVE  PaidFor(PaidUp(q))
<1>1. Advance(q) \in Nat /\ Final(q) \in Nat
  BY QuoteMoney
<1> DEFINE p == IF q.paid = None THEN Advance(q) + Remaining(q) ELSE q.paid
<1>2. PaidUp(q) = [q EXCEPT !.paid = p]
  BY DEF PaidUp, Quotes
<1>3. CASE q.paid = None
  <2>1. Remaining(q) = Final(q) - Advance(q) /\ Advance(q) < Final(q) /\ 0 < Advance(q)
    BY <1>1, <1>3 DEF Remaining, Rest
  <2>2. p = Final(q)
    BY <1>1, <1>3, <2>1
  <2>3. q.final = None => p = Quoted(q)
    BY <2>2 DEF Final
  <2>4. QED BY <2>1, <2>2, <2>3, PaidFields DEF PaidFor, PaidUp
<1>4. CASE q.paid # None
  <2>1. p = q.paid
    BY <1>4
  <2>2. QED BY <1>4, <2>1, PaidFields DEF PaidFor, PaidUp
<1>5. QED BY <1>3, <1>4

LEMMA PaidStays ==
  ASSUME QuoteTypeOK, TypesFound, PaidOK, [Next]_vars
  PROVE  PaidOK'
<1> SUFFICES ASSUME NEW n \in booked' PROVE PaidFor(n)
  BY DEF PaidOK, PaidFor
<1>1. \A q \in booked : q \in Quotes /\ (q.typed => q.service.type # None) /\ PaidFor(q)
  BY DEF QuoteTypeOK, TypesFound, PaidOK
<1>2. CASE n \in booked
  BY <1>1, <1>2
<1>3. ASSUME NEW c \in Calls, Settle(c) PROVE PaidFor(n)
  <2>1. PICK q \in booked :
          /\ ~q.anew
          /\ q.paid = None => Advance(q) > 0 /\ Remaining(q) > 0
          /\ booked' = (booked \ {q}) \cup {PaidUp(q)}
    BY <1>3 DEF Settle
  <2>2. QED BY <1>1, <2>1, PaidUpOK
<1>4. ASSUME NEW v \in visits, Book(v) PROVE PaidFor(n)
  <2>1. n \in booked \/ \E p, d : n = Quote(v, p, d)
    BY <1>4 DEF Book
  <2>2. QED BY <1>1, <2>1 DEF Quote, PaidFor
<1>5. ASSUME NEW x \in completions, SaveCompletion(x) PROVE PaidFor(n)
  <2>1. PICK q \in booked : n = IF q.call = x.of THEN Completed(q, x.final) ELSE q
    BY <1>5 DEF SaveCompletion
  <2>2. x.final \in Finals \cup {None}
    BY DEF QuoteTypeOK, Completions
  <2>3. PaidFor(Completed(q, x.final))
    <3> DEFINE m == Completed(q, x.final)
    <3>1. /\ m.paid = q.paid /\ (q.paid # None => m.anew)
          /\ m.final = None => q.final = None
          /\ Quoted(m) = Quoted(q) /\ Advance(m) = Advance(q)
      BY <1>1, <2>2, CompletedFields, Zenon
    <3> HIDE DEF m
    <3>2. PaidFor(m)
      BY <1>1, <3>1 DEF PaidFor
    <3>3. QED BY <3>2 DEF m
  <2>4. QED BY <1>1, <2>1, <2>3
<1>6. ASSUME NEW x \in settlements, SaveSettlement(x) PROVE PaidFor(n)
  <2>1. PICK a \in asks :
          booked' = {IF q.call = x.of
                     THEN [q EXCEPT !.settled = rates[a.rate].percentage] ELSE q : q \in booked}
    BY <1>6 DEF SaveSettlement
  <2> DEFINE p == rates[a.rate].percentage
  <2>2. PICK q \in booked : n = IF q.call = x.of THEN [q EXCEPT !.settled = p] ELSE q
    BY <2>1
  <2> HIDE DEF p
  <2>3. PaidFor([q EXCEPT !.settled = p])
    BY <1>1, SettledFields DEF PaidFor
  <2>4. QED BY <1>1, <2>2, <2>3
<1>7. CASE TradeNext
  BY <1>2, <1>3, <1>4, <1>5, <1>6, <1>7
     DEF TradeNext, Arrive, ReadCompletion, FindAndKeep, ReadCard, ReadSeason, Move
<1>8. CASE CommissionNext
  BY <1>2, <1>8 DEF CommissionNext, UpsertCommission, CommitCommission, RetryCommission,
              AdoptCommission, HitRate, LoadRate, FillRate, Asked, tradeVars
<1>9. CASE CalendarNext
  BY <1>2, <1>9 DEF CalendarNext, UpsertSeasonalPricing, DeleteSeasonalPricing, CreateSeason,
         CreateOffer, UpdateOffer, DeleteOffer, ChangeOffers, ReadOfferDates, SaveOfferDates,
         tradeVars
<1>10. QED BY <1>2, <1>7, <1>8, <1>9 DEF Next, Tick, Fail, Die, Drop, vars, tradeVars

-----------------------------------------------------------------------------
\* The invariant.
LEMMA InitInvariant == Init => IInv
<1> SUFFICES ASSUME Init PROVE IInv
  OBVIOUS
<1>1. QuoteTypeOK
  BY InitType
<1>2. Owned
  BY DEF Init, CatalogueInit, Owned, UnderWay
<1>3. TypesFound /\ PaidOK /\ PlansOK /\ AsksOK /\ DatesChecked
  BY DEF Init, TypesFound, PaidOK, PlansOK, AsksOK, DatesChecked
<1>4. rates = <<>> \/ \E p \in Percentages : rates = <<Rate(p)>>
  BY DEF Init
<1>5. rates = <<>> \/ (Len(rates) = 1 /\ rates[1].active = TRUE)
  BY <1>4 DEF Rate
<1>6. RatesOK
  <2>1. CASE rates = <<>>
    BY <2>1 DEF RatesOK, OneRate
  <2>2. CASE Len(rates) = 1 /\ rates[1].active = TRUE
    BY <2>2 DEF RatesOK, OneRate
  <2>3. QED BY <1>5, <2>1, <2>2
<1>7. CachedOK
  <2>1. CASE cached = None
    BY <2>1 DEF CachedOK
  <2>2. CASE cached # None
    <3>1. cached = [rate |-> 1, until |-> clock + TTL, late |-> FALSE] /\ rates # <<>>
      BY <2>2 DEF Init
    <3>2. clock + TTL <= clock + TTL
      BY Rules DEF Init
    <3>3. QED BY <1>5, <3>1, <3>2 DEF CachedOK
  <2>3. QED BY <2>1, <2>2
<1>8. OffersNamed
  <2>1. \/ offers = {}
        \/ \E w \in Windows, d \in Discounts :
             offers = {[by |-> None, from |-> w.from, to |-> w.to, discount |-> d, active |-> TRUE]}
    BY DEF Init
  <2>2. CASE offers = {}
    BY <2>2 DEF OffersNamed
  <2>3. ASSUME NEW w \in Windows, NEW d \in Discounts,
               offers = {[by |-> None, from |-> w.from, to |-> w.to, discount |-> d, active |-> TRUE]}
        PROVE  OffersNamed
    BY <2>3 DEF OffersNamed
  <2>4. QED BY <2>1, <2>2, <2>3
<1>9. QED BY <1>1, <1>2, <1>3, <1>6, <1>7, <1>8 DEF IInv, OffersOK

LEMMA NextInvariant == IInv /\ [Next]_vars => IInv'
<1> SUFFICES ASSUME IInv, [Next]_vars PROVE IInv'
  OBVIOUS
<1>1. QuoteTypeOK' /\ TypesFound'
  BY NextType DEF IInv, RatesOK
<1>2. RatesOK' /\ CachedOK' /\ AsksOK'
  BY RatesKept DEF IInv
<1>3. Owned'
  BY OwnedStays DEF IInv
<1>4. PlansOK' /\ OffersOK'
  BY PlansKept, OffersKept DEF IInv
<1>5. PaidOK'
  BY PaidStays DEF IInv
<1>6. QED BY <1>1, <1>2, <1>3, <1>4, <1>5 DEF IInv

\* The invariant holds in every state of every instance.
THEOREM Invariant == Spec => []IInv
BY InitInvariant, NextInvariant, PTL DEF Spec

-----------------------------------------------------------------------------
\* QuoteTypeOK: prices, commissions, seasons, offers and bookings keep their types.
THEOREM Types == Spec => []QuoteTypeOK
<1>1. IInv => QuoteTypeOK
  BY DEF IInv
<1>2. QED BY Invariant, <1>1, PTL

\* OneRate: the last commission is in force, and no other, whoever swaps it.
THEOREM Rated == Spec => []OneRate
<1>1. IInv => OneRate
  BY DEF IInv, RatesOK
<1>2. QED BY Invariant, <1>1, PTL

\* CommissionAge: Redis makes a commission outlive its replacement by TTL at most.
THEOREM Aged == Spec => []CommissionAge
<1>1. IInv => CommissionAge
  BY DEF IInv, AsksOK, AskOK, CommissionAge
<1>2. QED BY Invariant, <1>1, PTL

\* MoneyAddsUp: whatever the prices and percentages, the operators' final amounts and the
\* halves that round2 misses, an advance and a balance make the final amount, the shares
\* the total, and refund and penalty the total but for the paisa of two rounded halves.
THEOREM Money == Spec => []MoneyAddsUp
<1>1. IInv => MoneyAddsUp
  <2> SUFFICES ASSUME IInv PROVE MoneyAddsUp
    OBVIOUS
  <2>1. booked \subseteq Quotes /\ (\A q \in booked : q.typed => q.service.type # None) /\ PaidOK
    BY DEF IInv, QuoteTypeOK, TypesFound
  <2>2. QED BY <2>1, BookedMoney
<1>2. QED BY Invariant, <1>1, PTL

\* Only these steps touch what the catalogue keeps.
LEMMA ShelfFrame ==
  ASSUME [Next]_vars, ~CatalogueNext
  PROVE  \/ UNCHANGED <<service, pricing, copy, edits, refreshes>>
         \/ /\ UNCHANGED <<service, pricing, copy, edits>>
            /\ refreshes \subseteq refreshes'
            /\ \E c \in Calls : Arrive(c)
         \/ \E r \in refreshes : KeepServices(r)
         \/ (\E c \in Calls : Fail(c)) \/ (\E w \in Workers : Die(w))
<1>1. CASE CommissionNext
  BY <1>1 DEF CommissionNext, UpsertCommission, CommitCommission, RetryCommission,
              AdoptCommission, HitRate, LoadRate, FillRate, Asked, shelfVars
<1>2. CASE CalendarNext
  BY <1>2 DEF CalendarNext, UpsertSeasonalPricing, DeleteSeasonalPricing, CreateSeason,
         CreateOffer, UpdateOffer, DeleteOffer, ChangeOffers, ReadOfferDates, SaveOfferDates,
         shelfVars
<1>3. ASSUME NEW c \in Calls, Arrive(c)
      PROVE  UNCHANGED <<service, pricing, copy, edits>> /\ refreshes \subseteq refreshes'
  BY <1>3 DEF Arrive
<1>4. ASSUME NEW v \in visits, FindAndKeep(v) PROVE \E r \in refreshes : KeepServices(r)
  BY <1>4 DEF FindAndKeep
<1>5. CASE TradeNext
  BY <1>3, <1>4, <1>5 DEF TradeNext, ReadCompletion, SaveCompletion, Settle, ReadCard, ReadSeason,
                Book, SaveSettlement, Move, shelfVars
<1>6. QED BY <1>1, <1>2, <1>5 DEF Next, Tick, vars, shelfVars

\* OnlyOverlapsSplitPrices: the prices part only by the overlaps it lists.
THEOREM PricesTogether == Spec => OnlyOverlapsSplitPrices
<1> DEFINE Excused ==
      \/ \E e \in edits : CardOf(e.saved) # CardOf(service) /\ MirrorPrices(e)
      \/ \E e \in edits : e.step = "mirror" /\ e.call \in lost' \ lost
      \/ \E x \in cardEdits : SavePricing(x)
<1>1. IInv /\ [Next]_vars =>
        [PricesAgree => PricesAgree' \/ Excused]_<<callVars, shelfVars>>
  <2> SUFFICES ASSUME IInv, [Next]_vars, PricesAgree, ~Excused PROVE PricesAgree'
    OBVIOUS
  <2>1. CatalogueTypeOK /\ Owned /\ TypesFound /\ QuoteTypeOK
    BY DEF IInv, QuoteTypeOK
  <2>2. ASSUME UNCHANGED <<service, pricing>>, \A e \in edits : e.step = "mirror" => e \in edits'
        PROVE  PricesAgree'
    BY <2>2 DEF PricesAgree
  <2>3. ASSUME NEW c \in Calls, CreateService(c) \/ UpdateService(c) \/ ToggleServiceStatus(c)
        PROVE  PricesAgree'
    <3>1. PICK s \in Services, step \in {"mirror", "forget"} :
            /\ SaveService(c, s, step)
            /\ step = "forget" => CardOf(s) = CardOf(service) /\ s.live = service.live
      BY <2>1, <2>3, SavedIsService
    <3> DEFINE e == [call |-> c, saved |-> s, step |-> step]
    <3>2. e.saved = s /\ e.step = step /\ edits' = edits \cup {e}
          /\ service' = s /\ pricing' = pricing
      BY <3>1 DEF SaveService
    <3> HIDE DEF e
    <3>3. CASE step = "mirror"
      BY <3>2, <3>3 DEF PricesAgree
    <3>4. CASE step = "forget"
      BY <3>1, <3>2, <3>4 DEF PricesAgree
    <3>5. QED BY <3>3, <3>4
  <2>4. ASSUME NEW e \in edits, MirrorPrices(e) PROVE PricesAgree'
    BY <2>4 DEF MirrorPrices, PricesAgree
  <2>5. ASSUME NEW e \in edits, ForgetServices(e) PROVE PricesAgree'
    BY <2>2, <2>5 DEF ForgetServices
  <2>6. ASSUME NEW r \in refreshes, FindServices(r) \/ KeepServices(r) PROVE PricesAgree'
    BY <2>2, <2>6 DEF FindServices, KeepServices
  <2>7. ASSUME NEW c \in Calls, ReadPricing(c) PROVE PricesAgree'
    BY <2>2, <2>7 DEF ReadPricing
  <2>8. CASE CatalogueNext
    BY <2>3, <2>4, <2>5, <2>6, <2>7, <2>8 DEF CatalogueNext
  <2>9. ASSUME NEW gone \in SUBSET UnderWay, Drop(gone) PROVE PricesAgree'
    <3>1. /\ lost' = lost \cup gone /\ edits' = {e \in edits : e.call \notin gone}
          /\ UNCHANGED <<service, pricing>>
      BY <2>9 DEF Drop, Lose, Without
    <3>2. \A e \in edits : e.call \notin lost
      BY <2>1 DEF Owned, UnderWay
    <3>3. \A e \in edits : e.step = "mirror" => e.call \notin gone
      BY <3>1, <3>2
    <3>4. QED BY <2>2, <3>1, <3>3
  <2>10. CASE (\E c \in Calls : Fail(c)) \/ (\E w \in Workers : Die(w))
    BY <2>1, <2>9, <2>10, FailureType
  <2>11. CASE ~CatalogueNext
    BY <2>2, <2>6, <2>10, <2>11, ShelfFrame
  <2>12. QED BY <2>8, <2>11
<1>2. QED BY Invariant, <1>1, PTL DEF Spec, OnlyOverlapsSplitPrices

\* OnlyOverlapsOutdate: a copy goes out of date only in the ways it lists.
THEOREM CopiesRenewed == Spec => OnlyOverlapsOutdate
<1> DEFINE Excused(w) ==
      \/ service' # service /\ \E c \in spent' \ spent : host[c] # w
      \/ \E r \in refreshes : host[r.call] = w /\ r.read # service /\ copy'[w] = r.read
      \/ \E h \in edits \cup refreshes : host[h.call] = w /\ h.call \in lost' \ lost
<1>1. IInv /\ [Next]_vars =>
        [\A w \in Workers :
           CopyCurrent(w) =>
             \/ CopyCurrent(w)'
             \/ service' # service /\ \E c \in spent' \ spent : host[c] # w
             \/ \E r \in refreshes : host[r.call] = w /\ r.read # service /\ copy'[w] = r.read
             \/ \E h \in edits \cup refreshes : host[h.call] = w /\ h.call \in lost' \ lost
           ]_<<callVars, shelfVars>>
  <2> SUFFICES ASSUME IInv, [Next]_vars, NEW w \in Workers, CopyCurrent(w), ~Excused(w)
               PROVE  CopyCurrent(w)'
    OBVIOUS
  <2>1. CatalogueTypeOK /\ Owned /\ TypesFound /\ QuoteTypeOK
    BY DEF IInv, QuoteTypeOK
  <2>2. host' = host
    BY <2>1, SpentGrows
  <2>3. ASSUME copy'[w] = copy[w], service' = service,
               \A e \in edits : host[e.call] = w => \E d \in edits' : d.call = e.call,
               \A r \in refreshes : host[r.call] = w /\ r.read \in {None, service} =>
                 \E q \in refreshes' : q.call = r.call /\ q.read \in {None, service}
        PROVE  CopyCurrent(w)'
    BY <2>2, <2>3 DEF CopyCurrent
  <2>4. ASSUME NEW c \in Calls, CreateService(c) \/ UpdateService(c) \/ ToggleServiceStatus(c)
        PROVE  CopyCurrent(w)'
    <3>1. PICK s \in Services, step \in {"mirror", "forget"} : SaveService(c, s, step)
      BY <2>1, <2>4, SavedIsService
    <3> DEFINE e == [call |-> c, saved |-> s, step |-> step]
    <3>2. /\ e.call = c /\ edits' = edits \cup {e} /\ c \in spent' \ spent
          /\ UNCHANGED <<copy, refreshes>>
      BY <3>1 DEF SaveService, Spend
    <3> HIDE DEF e
    <3>3. CASE host[c] = w
      BY <2>2, <3>2, <3>3 DEF CopyCurrent
    <3>4. CASE host[c] # w
      BY <2>3, <3>2, <3>4
    <3>5. QED BY <3>3, <3>4
  <2>5. ASSUME NEW e \in edits, MirrorPrices(e) PROVE CopyCurrent(w)'
    <3>1. [e EXCEPT !.step = "forget"].call = e.call
      BY <2>1 DEF CatalogueTypeOK, Edits
    <3>2. QED BY <2>3, <2>5, <3>1 DEF MirrorPrices
  <2>6. ASSUME NEW e \in edits, ForgetServices(e) PROVE CopyCurrent(w)'
    <3>1. copy' = [copy EXCEPT ![host[e.call]] = None]
      BY <2>6 DEF ForgetServices
    <3>2. CASE host[e.call] = w
      <4>1. copy'[w] = None
        BY <2>1, <3>1, <3>2 DEF CatalogueTypeOK
      <4>2. QED BY <4>1 DEF CopyCurrent
    <3>3. CASE host[e.call] # w
      <4>1. copy'[w] = copy[w]
        BY <2>1, <3>1, <3>3 DEF CatalogueTypeOK
      <4>2. QED BY <2>3, <2>6, <3>3, <4>1 DEF ForgetServices
    <3>4. QED BY <3>2, <3>3
  <2>7. ASSUME NEW r \in refreshes, FindServices(r) PROVE CopyCurrent(w)'
    <3> DEFINE q == [r EXCEPT !.read = service]
    <3>1. q.call = r.call /\ q.read = service
      BY <2>1 DEF CatalogueTypeOK, Refreshes
    <3>2. refreshes' = (refreshes \ {r}) \cup {q} /\ UNCHANGED <<service, copy, edits>>
      BY <2>7 DEF FindServices
    <3> HIDE DEF q
    <3>3. QED BY <2>3, <3>1, <3>2
  <2>8. ASSUME NEW r \in refreshes, KeepServices(r) PROVE CopyCurrent(w)'
    <3>1. /\ copy' = [copy EXCEPT ![host[r.call]] = r.read] /\ refreshes' = refreshes \ {r}
          /\ UNCHANGED <<service, edits>>
      BY <2>8 DEF KeepServices
    <3>2. CASE host[r.call] = w
      <4>1. copy'[w] = r.read
        BY <2>1, <3>1, <3>2 DEF CatalogueTypeOK
      <4>2. r.read = service
        BY <3>2, <4>1
      <4>3. QED BY <3>1, <4>1, <4>2 DEF CopyCurrent
    <3>3. CASE host[r.call] # w
      <4>1. copy'[w] = copy[w]
        BY <2>1, <3>1, <3>3 DEF CatalogueTypeOK
      <4>2. QED BY <2>3, <3>1, <3>3, <4>1
    <3>4. QED BY <3>2, <3>3
  <2>9. ASSUME UNCHANGED <<service, copy, edits, refreshes>> PROVE CopyCurrent(w)'
    BY <2>3, <2>9
  <2>10. CASE CatalogueNext
    BY <2>4, <2>5, <2>6, <2>7, <2>8, <2>9, <2>10 DEF CatalogueNext, ReadPricing, SavePricing
  <2>11. ASSUME NEW gone \in SUBSET UnderWay, Drop(gone), copy'[w] \in {None, copy[w]}
         PROVE  CopyCurrent(w)'
    <3>1. /\ lost' = lost \cup gone /\ service' = service
          /\ edits' = {e \in edits : e.call \notin gone}
          /\ refreshes' = {r \in refreshes : r.call \notin gone}
      BY <2>11 DEF Drop, Lose, Without
    <3>2. \A h \in edits \cup refreshes : h.call \notin lost
      BY <2>1 DEF Owned, UnderWay
    <3>3. \A h \in edits \cup refreshes : host[h.call] = w => h.call \notin gone
      BY <3>1, <3>2
    <3>4. CASE copy'[w] = None
      BY <3>4 DEF CopyCurrent
    <3>5. CASE copy'[w] = copy[w]
      BY <2>3, <3>1, <3>3, <3>5
    <3>6. QED BY <2>11, <3>4, <3>5
  <2>12. CASE (\E c \in Calls : Fail(c)) \/ (\E v \in Workers : Die(v))
    BY <2>1, <2>11, <2>12, FailureType
  <2>13. ASSUME UNCHANGED <<service, pricing, copy, edits>>, refreshes \subseteq refreshes'
         PROVE  CopyCurrent(w)'
    BY <2>3, <2>13
  <2>14. CASE ~CatalogueNext
    BY <2>8, <2>9, <2>12, <2>13, <2>14, ShelfFrame
  <2>15. QED BY <2>10, <2>14
<1>2. QED BY Invariant, <1>1, PTL DEF Spec, OnlyOverlapsOutdate

LEMMA OverlapMutual == \A x, y : Overlap(x, y) <=> Overlap(y, x)
BY DEF Overlap

\* OnlyOverlapsConfuseDates: what is checked before a season is made or an offer is
\* dated anew holds afterwards, unless the handler was overtaken.
THEOREM DatesInOrder == Spec => OnlyOverlapsConfuseDates
<1> DEFINE Late == \E p \in plans : CreateSeason(p) /\ p.saw # seasons
           Gone == \E x \in offerEdits : SaveOfferDates(x) /\ x.of \notin offers
<1>1. IInv /\ [Next]_vars =>
        [/\ SeasonsApart => SeasonsApart' \/ Late
         /\ OffersRun => OffersRun' \/ Gone]_vars
  <2> SUFFICES ASSUME IInv, [Next]_vars
               PROVE  /\ SeasonsApart => SeasonsApart' \/ Late
                      /\ OffersRun => OffersRun' \/ Gone
    OBVIOUS
  <2>1. QuoteTypeOK /\ PlansOK /\ OffersNamed /\ DatesChecked
    BY DEF IInv, OffersOK
  <2>2. ASSUME SeasonsApart, ~Late PROVE SeasonsApart'
    <3>1. ASSUME NEW p \in plans, CreateSeason(p) PROVE SeasonsApart'
      <4>1. p.saw = seasons /\ seasons' = seasons \cup {p.season}
        BY <2>2, <3>1 DEF CreateSeason
      <4>2. \A x \in seasons : ~Overlap(x, p.season) /\ ~Overlap(p.season, x)
        BY <2>1, <4>1, OverlapMutual DEF PlansOK
      <4>3. QED BY <2>2, <4>1, <4>2 DEF SeasonsApart
    <3>2. ASSUME seasons' \subseteq seasons PROVE SeasonsApart'
      BY <2>2, <3>2 DEF SeasonsApart
    <3>3. CASE CalendarNext
      BY <3>1, <3>2, <3>3 DEF CalendarNext, UpsertSeasonalPricing, DeleteSeasonalPricing,
                  CreateOffer, UpdateOffer, DeleteOffer, ChangeOffers, ReadOfferDates,
                  SaveOfferDates
    <3>4. QED BY <3>2, <3>3, CalendarFrame
  <2>3. ASSUME OffersRun, ~Gone PROVE OffersRun'
    <3>1. ASSUME NEW x \in offerEdits, SaveOfferDates(x) PROVE OffersRun'
      <4>1. x.of \in offers /\ Given(x.from, x.of.from) < Given(x.to, x.of.to)
        BY <2>1, <2>3, <3>1 DEF DatesChecked
      <4>2. PICK d \in Discounts, a \in BOOLEAN :
              \A n \in offers' : \E o \in offers : n = Redated(o, x, d, a)
        BY <2>1, <3>1, SaveRedates
      <4>3. ASSUME NEW o \in offers PROVE Redated(o, x, d, a).from < Redated(o, x, d, a).to
        <5> o \in Offers
          BY <2>1, <3>1, SaveRedates
        <5>1. CASE o.by = x.of.by
          <6>1. o = x.of
            BY <2>1, <4>1, <5>1 DEF OffersNamed
          <6>2. QED BY <4>1, <5>1, <6>1, RedatedFields
        <5>2. CASE o.by # x.of.by
          BY <2>3, <5>2, RedatedFields DEF OffersRun
        <5>3. QED BY <5>1, <5>2
      <4>4. QED BY <4>2, <4>3 DEF OffersRun
    <3>2. ASSUME NEW c \in Calls, CreateOffer(c) PROVE OffersRun'
      BY <2>3, <3>2, WindowType DEF CreateOffer, ChangeOffers, OffersRun
    <3>3. ASSUME NEW c \in Calls, UpdateOffer(c) PROVE OffersRun'
      <4>1. PICK o \in offers, d \in Discounts, a \in BOOLEAN :
              offers' = (offers \ {o}) \cup {[o EXCEPT !.discount = d, !.active = a]}
        BY <3>3 DEF UpdateOffer, ChangeOffers
      <4> DEFINE n == [o EXCEPT !.discount = d, !.active = a]
      <4>2. o \in Offers
        BY <2>1 DEF QuoteTypeOK
      <4>3. n.from = o.from /\ n.to = o.to
        BY <4>2 DEF Offers
      <4>4. offers' = (offers \ {o}) \cup {n}
        BY <4>1
      <4> HIDE DEF n
      <4>5. QED BY <2>3, <4>3, <4>4 DEF OffersRun
    <3>4. ASSUME offers' \subseteq offers PROVE OffersRun'
      BY <2>3, <3>4 DEF OffersRun
    <3>5. CASE CalendarNext
      BY <3>1, <3>2, <3>3, <3>4, <3>5 DEF CalendarNext, UpsertSeasonalPricing,
                  DeleteSeasonalPricing, CreateSeason, DeleteOffer, ChangeOffers, ReadOfferDates
    <3>6. QED BY <3>4, <3>5, CalendarFrame
  <2>4. QED BY <2>2, <2>3
<1>2. QED BY Invariant, <1>1, PTL DEF Spec, OnlyOverlapsConfuseDates

=============================================================================
