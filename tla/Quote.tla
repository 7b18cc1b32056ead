--------------------------------- MODULE Quote ---------------------------------
(***************************************************************************)
(* How a booking gets its price: the service and its prices, the season,   *)
(* the offer, and the commission, which Redis caches for a while; what is  *)
(* paid of it; and how the settlement takes its commission.                *)
(***************************************************************************)
EXTENDS Catalogue, Sequences

CONSTANTS
  Percentages,  \* of the commission
  Discounts,    \* of an offer, in per cent
  Multipliers,  \* of a season, in per cent
  Finals,       \* amounts an operator may put down at the end of a job
  Windows,      \* [from, to]: times at which a season or an offer may run
  TTL,          \* how long Redis keeps the commission
  MaxTime

ASSUME Rules ==
  /\ Percentages \subseteq 0 .. 100 /\ Discounts \subseteq 0 .. 100
  /\ Multipliers \subseteq Nat \ {0} /\ Finals \subseteq Nat \ {0} /\ None \notin Nat
  /\ \A w \in Windows : w \in [from : Nat, to : Nat] /\ w.from < w.to
  /\ TTL \in Nat \ {0} /\ MaxTime \in Nat

VARIABLES
  clock,
  visits,       \* createBooking and estimateBooking calls under way
  booked,       \* the quotes of the bookings that were made
  completions,  \* completeJob calls with a final amount that have read the booking
  settlements,  \* settlements under way
  rates,        \* the commissions in the order of their creation
  cached,       \* the commission as Redis holds it, or None
  asks,         \* getActiveCommissionCached calls under way, or answered
  upserts,      \* transactions of upsertCommission under way
  seasons,
  plans,        \* upsertSeasonalPricing calls that have looked for an overlap
  offers,
  offerEdits    \* updateOffer calls that have looked at the offer's dates

rateVars == <<rates, cached, asks, upserts>>
calendarVars == <<seasons, plans, offers, offerEdits>>
tradeVars == <<visits, booked, completions, settlements>>
vars == <<callVars, shelfVars, clock, tradeVars, rateVars, calendarVars>>

Rates == [percentage : Percentages, active : BOOLEAN, until : Nat]
Cached == [rate : Nat, until : Nat, late : BOOLEAN]

\* Where a call for the commission is, the rate it has come to, when it had that
\* from Redis or the database, and whether Redis was filled too late.
Asks == [call : Calls, step : {"get", "fill", "got"}, rate : Nat, at : Nat, late : BOOLEAN]

Upserts == [call : Calls, percentage : Percentages, saw : Nat]

Seasons == [by : Calls, from : Nat, to : Nat, multiplier : Multipliers]
Plans == [call : Calls, season : Seasons, saw : SUBSET Seasons]

Offers == [by : Calls \cup {None}, from : Nat, to : Nat, discount : Discounts, active : BOOLEAN]
OfferEdits == [call : Calls, of : Offers, from : Nat \cup {None}, to : Nat \cup {None}]

Visits ==
  [call : Calls, typed : BOOLEAN, step : {"find", "card", "season", "offer"},
   service : Services \cup {None}, doc : Cards \cup {None}, multiplier : Multipliers \cup {100}]

Quotes ==
  [call : Calls, typed : BOOLEAN, service : Services, doc : Cards \cup {None},
   multiplier : Multipliers \cup {100}, percentage : Percentages, discount : Discounts \cup {0},
   final : Finals \cup {None},         \* the operator's final amount
   paid : Nat \cup {None},             \* advance and balance, None before the balance is paid
   anew : BOOLEAN,                     \* the booking was completed after that
   settled : Percentages \cup {None}]

Completions == [call : Calls, of : Calls, final : Finals \cup {None}]
Settlements == [call : Calls, of : Calls]

QuoteTypeOK ==
  /\ CatalogueTypeOK
  /\ clock \in 0 .. MaxTime
  /\ visits \subseteq Visits
  /\ booked \subseteq Quotes
  /\ completions \subseteq Completions
  /\ settlements \subseteq Settlements
  /\ rates \in Seq(Rates)
  /\ cached \in Cached \cup {None}
  /\ asks \subseteq Asks
  /\ upserts \subseteq Upserts
  /\ seasons \subseteq Seasons
  /\ plans \subseteq Plans
  /\ offers \subseteq Offers
  /\ offerEdits \subseteq OfferEdits

Rate(p) == [percentage |-> p, active |-> TRUE, until |-> 0]

\* The runs find a commission, perhaps in Redis, or none; an offer, or none.
Init ==
  /\ CatalogueInit
  /\ clock \in 0 .. MaxTime
  /\ visits = {} /\ booked = {} /\ completions = {} /\ settlements = {}
  /\ \/ rates = <<>> /\ cached = None
     \/ /\ rates \in {<<Rate(p)>> : p \in Percentages}
        /\ cached \in {None, [rate |-> 1, until |-> clock + TTL, late |-> FALSE]}
  /\ asks = {} /\ upserts = {}
  /\ seasons = {} /\ plans = {}
  /\ offers \in {{}} \cup
       {{[by |-> None, from |-> w.from, to |-> w.to, discount |-> d, active |-> TRUE]} :
          w \in Windows, d \in Discounts}
  /\ offerEdits = {}

Tick ==
  /\ clock < MaxTime
  /\ clock' = clock + 1
  /\ UNCHANGED <<callVars, shelfVars, tradeVars, rateVars, calendarVars>>

(***************************************************************************)
(* The commission, its swap in a transaction, and the cache in front of it *)
(***************************************************************************)
ActiveRates == {i \in 1 .. Len(rates) : rates[i].active}

\* The place of the active commission, zero if there is none.
Active == IF ActiveRates = {} THEN 0 ELSE CHOOSE i \in ActiveRates : \A j \in ActiveRates : j <= i

\* The transaction of an upsert takes its snapshot.
UpsertCommission(c) ==
  /\ Spend(c, "commission")
  /\ \E p \in Percentages :
       upserts' = upserts \cup {[call |-> c, percentage |-> p, saw |-> Active]}
  /\ UNCHANGED <<shelfVars, clock, tradeVars, rates, cached, asks, calendarVars>>

Ended(r) == [r EXCEPT !.active = FALSE, !.until = clock]

\* Mutant: the commission seen is put out of force, whichever is in force now.
CommitUnchecked(u) ==
  /\ u \in upserts
  /\ upserts' = upserts \ {u}
  /\ rates' = Append([i \in 1 .. Len(rates) |-> IF i = u.saw THEN Ended(rates[i]) ELSE rates[i]],
                     Rate(u.percentage))
  /\ UNCHANGED <<callVars, shelfVars, clock, tradeVars, cached, asks, calendarVars>>

\* MongoDB lets it commit if nobody else has swapped the commission since.
CommitCommission(u) ==
  /\ u \in upserts /\ u.saw = Active
  /\ upserts' = upserts \ {u}
  /\ rates' = Append([i \in 1 .. Len(rates) |-> IF i = u.saw THEN Ended(rates[i]) ELSE rates[i]],
                     Rate(u.percentage))
  /\ UNCHANGED <<callVars, shelfVars, clock, tradeVars, cached, asks, calendarVars>>

\* Otherwise withTransaction tries again,
RetryCommission(u) ==
  /\ u \in upserts /\ u.saw # Active
  /\ upserts' = (upserts \ {u}) \cup {[u EXCEPT !.saw = Active]}
  /\ UNCHANGED <<callVars, shelfVars, clock, tradeVars, rates, cached, asks, calendarVars>>

\* or the index refuses a second active one, and the other's is the answer.
AdoptCommission(u) ==
  /\ u \in upserts /\ u.saw = 0 /\ Active # 0
  /\ upserts' = upserts \ {u}
  /\ UNCHANGED <<callVars, shelfVars, clock, tradeVars, rates, cached, asks, calendarVars>>

NewAsk(c) == [call |-> c, step |-> "get", rate |-> 0, at |-> 0, late |-> FALSE]

Asked(a, b) ==
  /\ asks' = (asks \ {a}) \cup {b}
  /\ UNCHANGED <<callVars, shelfVars, clock, tradeVars, rates, upserts, calendarVars>>

\* Mutant: Redis never forgets.
HitExpired(a) ==
  /\ a \in asks /\ a.step = "get"
  /\ cached # None
  /\ Asked(a, [a EXCEPT !.step = "got", !.rate = cached.rate, !.at = clock, !.late = cached.late])
  /\ UNCHANGED cached

HitRate(a) ==
  /\ a \in asks /\ a.step = "get"
  /\ cached # None /\ clock < cached.until
  /\ Asked(a, [a EXCEPT !.step = "got", !.rate = cached.rate, !.at = clock, !.late = cached.late])
  /\ UNCHANGED cached

\* A call of Redis that fails is a miss as well.  The database is asked next; no
\* commission ends the request.
LoadRate(a) ==
  /\ a \in asks /\ a.step = "get"
  /\ Active # 0
  /\ Asked(a, [a EXCEPT !.step = "fill", !.rate = Active, !.at = clock])
  /\ UNCHANGED cached

FillRate(a) ==
  /\ a \in asks /\ a.step = "fill"
  /\ \/ cached' = [rate |-> a.rate, until |-> clock + TTL, late |-> ~rates[a.rate].active]
     \/ cached' = cached
  /\ Asked(a, [a EXCEPT !.step = "got"])

(***************************************************************************)
(* Seasons and offers                                                      *)
(***************************************************************************)
Overlap(x, y) == x.from <= y.to /\ y.from <= x.to

\* Mutant: seasons that only touch do not count as overlapping.
PlanTouching(c) ==
  /\ Spend(c, "season")
  /\ \E w \in Windows, m \in Multipliers :
       LET s == [by |-> c, from |-> w.from, to |-> w.to, multiplier |-> m] IN
       /\ \A x \in seasons : ~(x.from < s.to /\ s.from < x.to)
       /\ plans' = plans \cup {[call |-> c, season |-> s, saw |-> seasons]}
  /\ UNCHANGED <<shelfVars, clock, tradeVars, rateVars, seasons, offers, offerEdits>>

UpsertSeasonalPricing(c) ==
  /\ Spend(c, "season")
  /\ \E w \in Windows, m \in Multipliers :
       LET s == [by |-> c, from |-> w.from, to |-> w.to, multiplier |-> m] IN
       /\ \A x \in seasons : ~Overlap(x, s)
       /\ plans' = plans \cup {[call |-> c, season |-> s, saw |-> seasons]}
  /\ UNCHANGED <<shelfVars, clock, tradeVars, rateVars, seasons, offers, offerEdits>>

CreateSeason(p) ==
  /\ p \in plans
  /\ plans' = plans \ {p}
  /\ seasons' = seasons \cup {p.season}
  /\ UNCHANGED <<callVars, shelfVars, clock, tradeVars, rateVars, offers, offerEdits>>

DeleteSeasonalPricing(c) ==
  /\ Spend(c, "season")
  /\ \E s \in seasons : seasons' = seasons \ {s}
  /\ UNCHANGED <<shelfVars, clock, tradeVars, rateVars, plans, offers, offerEdits>>

ChangeOffers(c, new) ==
  /\ Spend(c, "offer")
  /\ offers' = new
  /\ UNCHANGED <<shelfVars, clock, tradeVars, rateVars, seasons, plans, offerEdits>>

CreateOffer(c) ==
  \E w \in Windows, d \in Discounts, a \in BOOLEAN :
    ChangeOffers(c, offers \cup
      {[by |-> c, from |-> w.from, to |-> w.to, discount |-> d, active |-> a]})

\* An update without dates is one access; with dates it looks at the others first.
UpdateOffer(c) ==
  \E o \in offers, d \in Discounts, a \in BOOLEAN :
    ChangeOffers(c, (offers \ {o}) \cup {[o EXCEPT !.discount = d, !.active = a]})

DeleteOffer(c) == \E o \in offers : ChangeOffers(c, offers \ {o})

Given(new, old) == IF new = None THEN old ELSE new

ReadOfferDates(c) ==
  /\ Spend(c, "offer")
  /\ \E o \in offers, from, to \in {None} \cup UNION {{w.from, w.to} : w \in Windows} :
       /\ from # None \/ to # None
       /\ Given(from, o.from) < Given(to, o.to)
       /\ offerEdits' = offerEdits \cup {[call |-> c, of |-> o, from |-> from, to |-> to]}
  /\ UNCHANGED <<shelfVars, clock, tradeVars, rateVars, seasons, plans, offers>>

\* The save carries whatever else of the offer the update is given.
SaveOfferDates(x) ==
  /\ x \in offerEdits
  /\ offerEdits' = offerEdits \ {x}
  /\ \E d \in Discounts, a \in BOOLEAN :
       offers' = {IF o.by = x.of.by
                  THEN [o EXCEPT !.from = Given(x.from, @), !.to = Given(x.to, @),
                                 !.discount = d, !.active = a]
                  ELSE o : o \in offers}
  /\ UNCHANGED <<callVars, shelfVars, clock, tradeVars, rateVars, seasons, plans>>

Runs(x) == x.from <= clock /\ clock <= x.to

\* Of what runs now, the one that started last counts.
Latest(xs) == {x \in xs : Runs(x) /\ \A y \in xs : Runs(y) => y.from <= x.from}

(***************************************************************************)
(* estimateBooking and createBooking                                       *)
(***************************************************************************)
Admits(s, typed) == s.live /\ s.active /\ (typed => s.type # None)

NewVisit(c, typed) ==
  [call |-> c, typed |-> typed, step |-> "find", service |-> None, doc |-> None,
   multiplier |-> 100]

Told(v, s) == IF Admits(s, v.typed) THEN {[v EXCEPT !.step = "card", !.service = s]} ELSE {}

\* validateBookingServiceType looks into the worker's copy, which has to be read
\* first if there is none.
Arrive(c) ==
  /\ \E kind \in {"book", "estimate"} : Spend(c, kind)
  /\ \E typed \in BOOLEAN :
       LET v == NewVisit(c, typed)
           s == copy[host[c]]
       IN IF s = None
          THEN /\ visits' = visits \cup {v}
               /\ refreshes' = refreshes \cup {[call |-> c, read |-> None]}
          ELSE /\ Admits(s, typed)
               /\ visits' = visits \cup Told(v, s)
               /\ UNCHANGED refreshes
  /\ UNCHANGED <<service, pricing, copy, edits, cardEdits, clock, booked, completions,
                 settlements, rateVars, calendarVars>>

FindAndKeep(v) ==
  /\ v \in visits /\ v.step = "find"
  /\ \E r \in refreshes :
       /\ r.call = v.call
       /\ KeepServices(r)
       /\ visits' = (visits \ {v}) \cup Told(v, r.read)
  /\ UNCHANGED <<clock, booked, completions, settlements, rateVars, calendarVars>>

Move(v, new) ==
  /\ visits' = (visits \ {v}) \cup new
  /\ UNCHANGED <<callVars, shelfVars, clock, booked, completions, settlements, rates, cached,
                 upserts, calendarVars>>

Priced(q) == Acre(q) > 0 \/ Hour(q) > 0

\* What an estimate reads from here on changes nothing.  The reads of createBooking
\* that follow are made at once: the season, the commission, and the prices.
ReadCard(v) ==
  /\ v \in visits /\ v.step = "card"
  /\ LET q == [v EXCEPT !.doc = pricing, !.step = "season"] IN
     IF Priced(q) /\ duty[v.call] = "book"
     THEN Move(v, {q}) /\ asks' = asks \cup {NewAsk(v.call)}
     ELSE Move(v, {}) /\ UNCHANGED asks

\* The prices found here, in Redis or the database, count only if the document was
\* not there before; it was not in Redis then either.
ReadSeason(v) ==
  /\ v \in visits /\ v.step = "season"
  /\ \E m \in IF Latest(seasons) = {} THEN {100} ELSE {s.multiplier : s \in Latest(seasons)} :
       Move(v, {[v EXCEPT !.step = "offer", !.multiplier = m,
                          !.doc = IF @ = None THEN pricing ELSE @]})
  /\ UNCHANGED asks

OffersNow == Latest({o \in offers : o.active})

Quote(v, percentage, discount) ==
  [call |-> v.call, typed |-> v.typed, service |-> v.service, doc |-> v.doc,
   multiplier |-> v.multiplier, percentage |-> percentage, discount |-> discount,
   final |-> None, paid |-> None, anew |-> FALSE, settled |-> None]

\* The offer is read and the booking inserted; nothing is read again.
Book(v) ==
  /\ v \in visits /\ v.step = "offer"
  /\ \E a \in asks, d \in IF OffersNow = {} THEN {0} ELSE {o.discount : o \in OffersNow} :
       /\ a.call = v.call /\ a.step = "got"
       /\ asks' = asks \ {a}
       /\ booked' = booked \cup {Quote(v, rates[a.rate].percentage, d)}
  /\ visits' = visits \ {v}
  /\ UNCHANGED <<callVars, shelfVars, clock, completions, settlements, rates, cached, upserts,
                 calendarVars>>

(***************************************************************************)
(* completeJob, of a booking at work, perhaps with another final amount.   *)
(* It is a step only when it has one or saves late; bookings are completed *)
(* in time without a step.                                                 *)
(***************************************************************************)
ReadCompletion(c) ==
  /\ Spend(c, "complete")
  /\ \E q \in booked, f \in Finals \cup {None} :
       /\ Advance(q) > 0 /\ q.final = None /\ q.paid = None
       /\ completions' = completions \cup {[call |-> c, of |-> q.call, final |-> f]}
  /\ UNCHANGED <<shelfVars, clock, visits, booked, settlements, rateVars, calendarVars>>

\* save() writes a final amount other than the one read, and in any case that the
\* balance is due, again if it was paid since the read.
Completed(q, f) ==
  [q EXCEPT !.final = IF f \in {None, Quoted(q)} THEN @ ELSE f, !.anew = (q.paid # None)]

SaveCompletion(x) ==
  /\ x \in completions
  /\ completions' = completions \ {x}
  /\ booked' = {IF q.call = x.of THEN Completed(q, x.final) ELSE q : q \in booked}
  /\ UNCHANGED <<callVars, shelfVars, clock, visits, settlements, rateVars, calendarVars>>

(***************************************************************************)
(* payRemaining, which refuses to take nothing, and after it               *)
(* applyBookingSettlementAfterFullPayment, perhaps by two requests.  A     *)
(* balance that is due anew can neither be paid again, since its Payment   *)
(* exists, nor settled.                                                    *)
(***************************************************************************)
PaidUp(q) == [q EXCEPT !.paid = IF @ = None THEN Advance(q) + Remaining(q) ELSE @]

Settle(c) ==
  /\ Spend(c, "settle")
  /\ \E q \in booked :
       /\ ~q.anew
       /\ q.paid = None => Advance(q) > 0 /\ Remaining(q) > 0
       /\ booked' = (booked \ {q}) \cup {PaidUp(q)}
       /\ settlements' = settlements \cup {[call |-> c, of |-> q.call]}
  /\ asks' = asks \cup {NewAsk(c)}
  /\ UNCHANGED <<shelfVars, clock, visits, completions, rates, cached, upserts, calendarVars>>

SaveSettlement(x) ==
  /\ x \in settlements
  /\ settlements' = settlements \ {x}
  /\ \E a \in asks :
       /\ a.call = x.call /\ a.step = "got"
       /\ asks' = asks \ {a}
       /\ booked' = {IF q.call = x.of
                     THEN [q EXCEPT !.settled = rates[a.rate].percentage] ELSE q : q \in booked}
  /\ UNCHANGED <<callVars, shelfVars, clock, visits, completions, rates, cached, upserts,
                 calendarVars>>

(***************************************************************************)
(* Failures: a handler ends at an error, a worker dies with all of its.    *)
(***************************************************************************)
UnderWay ==
  {h.call : h \in edits \cup cardEdits \cup refreshes \cup visits \cup completions
                    \cup settlements \cup asks \cup upserts \cup plans \cup offerEdits}

Drop(gone) ==
  /\ Lose(gone)
  /\ visits' = Without(visits, gone)
  /\ completions' = Without(completions, gone)
  /\ settlements' = Without(settlements, gone)
  /\ asks' = Without(asks, gone)
  /\ upserts' = Without(upserts, gone)
  /\ plans' = Without(plans, gone)
  /\ offerEdits' = Without(offerEdits, gone)
  /\ UNCHANGED <<clock, booked, rates, cached, seasons, offers>>

Fail(c) == c \in UnderWay /\ Drop({c}) /\ UNCHANGED copy

Die(w) ==
  /\ Drop({c \in UnderWay : host[c] = w})
  /\ copy' = [copy EXCEPT ![w] = None]

CommissionNext ==
  \/ \E c \in Calls : UpsertCommission(c)
  \/ \E u \in upserts : CommitCommission(u) \/ RetryCommission(u) \/ AdoptCommission(u)
  \/ \E a \in asks : HitRate(a) \/ LoadRate(a) \/ FillRate(a)

CalendarNext ==
  \/ \E c \in Calls :
       \/ UpsertSeasonalPricing(c) \/ DeleteSeasonalPricing(c)
       \/ CreateOffer(c) \/ UpdateOffer(c) \/ DeleteOffer(c) \/ ReadOfferDates(c)
  \/ \E p \in plans : CreateSeason(p)
  \/ \E x \in offerEdits : SaveOfferDates(x)

TradeNext ==
  \/ \E c \in Calls : Arrive(c) \/ ReadCompletion(c) \/ Settle(c)
  \/ \E v \in visits : FindAndKeep(v) \/ ReadCard(v) \/ ReadSeason(v) \/ Book(v)
  \/ \E x \in completions : SaveCompletion(x)
  \/ \E x \in settlements : SaveSettlement(x)

Next ==
  \/ CatalogueNext /\ UNCHANGED <<clock, tradeVars, rateVars, calendarVars>>
  \/ CommissionNext
  \/ CalendarNext
  \/ TradeNext
  \/ Tick
  \/ \E c \in Calls : Fail(c)
  \/ \E w \in Workers : Die(w)

Spec == Init /\ [][Next]_vars

(***************************************************************************)
(* The properties                                                          *)
(***************************************************************************)
\* Once a commission was set there is exactly one in force, the last one, however
\* many admins swap it at once: otherwise bookings would be refused, or charged by
\* either of two.
OneRate ==
  \A i \in 1 .. Len(rates) : rates[i].active <=> i = Len(rates)

\* A commission that was replaced is charged no longer than Redis keeps it, unless
\* Redis was filled by a request that had asked the database before the change.
CommissionAge ==
  \A a \in asks :
    a.step # "get" /\ ~a.late /\ ~rates[a.rate].active => a.at < rates[a.rate].until + TTL

SeasonsApart == \A x, y \in seasons : x # y => ~Overlap(x, y)
OffersRun == \A o \in offers : o.from < o.to

\* At any time one season applies, and every offer has its time.  Checked when they
\* are created or changed, this can fail only by handlers that overlap: another
\* season came after the look for overlaps, or the other date was moved.
OnlyOverlapsConfuseDates ==
  [][/\ SeasonsApart =>
          SeasonsApart' \/ \E p \in plans : CreateSeason(p) /\ p.saw # seasons
     /\ OffersRun =>
          OffersRun' \/ \E x \in offerEdits : SaveOfferDates(x) /\ x.of \notin offers]_vars

\* The price comes out whole however it is divided.  A booking quoted at two paise or
\* more has an advance, which is less than the quote.  A booking is paid in full only
\* by an advance and a balance, both of them something, that make the final amount in
\* force, whatever the operator changed before; only a late completion parts the two
\* afterwards.  The settlement shares out the total, which is more than was paid only
\* if there was a discount or the operator changed the amount.  Refund and penalty make
\* the total as well, save for the paisa by which two rounded halves may miss it.
MoneyAddsUp ==
  \A q \in booked :
    LET total == Total(q)
        quoted == Quoted(q)
        advance == Advance(q)
    IN /\ quoted >= 2 => 0 < advance /\ advance < quoted
       /\ q.paid # None =>
            /\ 0 < advance /\ advance < q.paid
            /\ q.anew \/ q.paid = Final(q)
            /\ total > q.paid => q.discount > 0 \/ q.final # None
       /\ q.settled # None /\ q.settled <= 81 => Settled(q, q.settled) = total
       /\ \A status \in Cancellable, early, advancePaid, byFarmer \in BOOLEAN :
            LET r == RefundSnapshot(status, early, total, advancePaid, byFarmer)
            IN \/ r.refund + r.penalty = total
               \/ r.refund = r.penalty /\ r.refund + r.penalty - total \in {-1, 1}
=============================================================================
