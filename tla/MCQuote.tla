-------------------------------- MODULE MCQuote --------------------------------
(***************************************************************************)
(* An instance of Quote for TLC: three requests of two workers, two of     *)
(* them perhaps by admins, that have to do with the same things.           *)
(***************************************************************************)
EXTENDS Quote, TLC

ByAcre == [live |-> TRUE, acre |-> 17, hour |-> 7, type |-> None, active |-> TRUE]
ByHour ==
  [live |-> TRUE, acre |-> 0, hour |-> 7, type |-> [acre |-> 1, hour |-> 0], active |-> TRUE]

MCKinds == {"service", "pricing", "book", "estimate", "complete", "commission", "settle",
            "season", "offer"}
MCPrices == {0, 1, 7, 17}
MCWanted == {ByAcre, ByHour}
MCWindows == {[from |-> 0, to |-> 1], [from |-> 1, to |-> 2]}

\* The halves up to sixty paise that IEEE double precision misses, for the percentages
\* that occur: 0.29 * 0.5 is 0.14499...
MCProductDips ==
  {<<35, 10>>, <<29, 50>>, <<57, 50>>} \cup
  ({15, 29, 35, 37, 57} \X {150})
MCQuotientDips == {<<29, 50>>, <<57, 50>>, <<19, 150>>, <<41, 150>>, <<57, 150>>}

\* What may meet: prices with each other and with a look at them; the commission,
\* seasons, or offers, each with bookings and settlements; a job done with a settlement.
OfCatalogue ==
  {m \in [Calls -> {"service", "pricing", "estimate"}] :
     \E c, d \in Calls : {e \in Calls : m[e] = "estimate"} = {c} /\ m[d] = "service"}
OfCommission ==
  {m \in [Calls -> {"commission", "settle", "book"}] :
     \E c, d \in Calls : m[c] = "commission" /\ m[d] = "book"}
OfCalendar ==
  UNION {{m \in [Calls -> {kind, "book", "settle"}] :
            \A c, d \in Calls : m[c] # kind /\ m[d] # kind => c = d} : kind \in {"season", "offer"}}
OfCompletion == {m \in [Calls -> {"book", "complete", "settle"}] : \E c \in Calls : m[c] = "book"}
MCMixes == OfCatalogue \cup OfCommission \cup OfCalendar \cup OfCompletion

\* What a mix has nothing to do with is as on any day.
MCInit ==
  /\ Init
  /\ clock = IF duty \in OfCatalogue THEN MaxTime ELSE 0
  /\ duty \notin OfCatalogue =>
       /\ service.live
       /\ copy = [w \in Workers |-> service]
       /\ \A c, d \in Calls : host[c] = host[d]
  /\ duty \notin OfCommission => rates = <<Rate(10)>> /\ cached = None
  /\ duty \notin OfCommission => service # ByHour
  /\ offers # {} => duty \in OfCalendar /\ \A o \in offers : o.from = 0

MCSpec == MCInit /\ [][Next]_vars

Symmetry == Permutations(Calls) \cup Permutations(Workers)
=============================================================================
