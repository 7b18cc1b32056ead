------------------------------- MODULE Catalogue -------------------------------
(***************************************************************************)
(* One service and its prices: the Service document, the Pricing document  *)
(* of the same code, and the copy of the services that every worker of the *)
(* cluster keeps in memory, without a time to live.                        *)
(*                                                                         *)
(* Handlers interleave at every access to the database.  A refused request *)
(* changes nothing and is not a step.                                      *)
(***************************************************************************)
EXTENDS Tariff

CONSTANTS
  Calls,    \* requests, each made at most once
  Workers,  \* processes of the cluster
  Kinds,    \* what a request may be
  Mixes,    \* the requests that are looked at together
  Prices,   \* paise per acre or hour; zero stands for no price
  Wanted    \* services as an admin may want them

Cards == [acre : Prices, hour : Prices]

Services ==
  [live : BOOLEAN, acre : Prices, hour : Prices, type : Cards \cup {None}, active : BOOLEAN]

ASSUME Inputs ==
  /\ Prices \subseteq Nat /\ 0 \in Prices
  /\ Wanted \subseteq Services
  /\ \A s \in Wanted : s.live
  /\ Mixes \subseteq [Calls -> Kinds]
  /\ None \notin Services /\ None \notin Cards /\ None \notin Prices /\ None \notin Calls

VARIABLES
  duty,      \* call -> its kind
  host,      \* call -> the worker that serves it
  spent,     \* calls that have been made
  lost,      \* calls whose handler failed or died on the way
  service,
  pricing,   \* the Pricing document, or None
  copy,      \* worker -> the service as serviceCache holds it, or None
  edits,     \* handlers that have saved the service and are not done
  cardEdits, \* upsertPricing calls that have read the Pricing document
  refreshes  \* refreshServiceCache calls under way

callVars == <<duty, host, spent, lost>>
shelfVars == <<service, pricing, copy, edits, cardEdits, refreshes>>

Edits == [call : Calls, saved : Services, step : {"mirror", "forget"}]
CardEdits == [call : Calls, new : Cards]
Refreshes == [call : Calls, read : Services \cup {None}]  \* None: has yet to read

CatalogueTypeOK ==
  /\ duty \in [Calls -> Kinds]
  /\ host \in [Calls -> Workers]
  /\ spent \subseteq Calls /\ lost \subseteq Calls
  /\ service \in Services
  /\ pricing \in Cards \cup {None}
  /\ copy \in [Workers -> Services \cup {None}]
  /\ edits \subseteq Edits
  /\ cardEdits \subseteq CardEdits
  /\ refreshes \subseteq Refreshes

CardOf(s) == [acre |-> s.acre, hour |-> s.hour]

Unborn == [live |-> FALSE, acre |-> 0, hour |-> 0, type |-> None, active |-> FALSE]

\* The runs find no service, or one whose prices have been in place for a while.
CatalogueInit ==
  /\ duty \in Mixes
  /\ host \in [Calls -> Workers]
  /\ spent = {} /\ lost = {}
  /\ \/ service = Unborn /\ pricing = None
     \/ service \in Wanted /\ pricing = CardOf(service)
  /\ copy \in [Workers -> {None, service}]
  /\ edits = {}
  /\ cardEdits = {}
  /\ refreshes = {}

Spend(c, kind) ==
  /\ c \notin spent /\ duty[c] = kind
  /\ spent' = spent \cup {c}
  /\ UNCHANGED <<duty, host, lost>>

(***************************************************************************)
(* createService, updateService and toggleServiceStatus save the service,  *)
(* the first two then write its prices into the Pricing document, and all  *)
(* of them then renew the copy of their own worker.                        *)
(***************************************************************************)
SaveService(c, s, step) ==
  /\ Spend(c, "service")
  /\ service' = s
  /\ edits' = edits \cup {[call |-> c, saved |-> s, step |-> step]}
  /\ UNCHANGED <<pricing, copy, cardEdits, refreshes>>

CreateService(c) == ~service.live /\ \E s \in Wanted : SaveService(c, s, "mirror")

Set(given, new, old) == IF given THEN new ELSE old

UpdateService(c) ==
  /\ service.live
  /\ \E s \in Wanted, acre, hour, type, active \in BOOLEAN :
       SaveService(c,
         [service EXCEPT !.acre = Set(acre, s.acre, @), !.hour = Set(hour, s.hour, @),
                         !.type = Set(type, s.type, @), !.active = Set(active, s.active, @)],
         "mirror")

ToggleServiceStatus(c) ==
  /\ service.live
  /\ \E a \in BOOLEAN : SaveService(c, [service EXCEPT !.active = a], "forget")

\* Mutant: the Pricing document is left alone.
MirrorNothing(e) ==
  /\ e \in edits /\ e.step = "mirror"
  /\ edits' = (edits \ {e}) \cup {[e EXCEPT !.step = "forget"]}
  /\ UNCHANGED <<callVars, service, pricing, copy, cardEdits, refreshes>>

\* The prices written are those of the service as this handler saved it.
MirrorPrices(e) ==
  /\ e \in edits /\ e.step = "mirror"
  /\ pricing' = CardOf(e.saved)
  /\ edits' = (edits \ {e}) \cup {[e EXCEPT !.step = "forget"]}
  /\ UNCHANGED <<callVars, service, copy, cardEdits, refreshes>>

\* Mutant: the copy is not renewed.
ForgetNothing(e) ==
  /\ e \in edits /\ e.step = "forget"
  /\ edits' = edits \ {e}
  /\ UNCHANGED <<callVars, service, pricing, copy, cardEdits, refreshes>>

\* invalidateServiceCache, and the call of refreshServiceCache.
ForgetServices(e) ==
  /\ e \in edits /\ e.step = "forget"
  /\ edits' = edits \ {e}
  /\ copy' = [copy EXCEPT ![host[e.call]] = None]
  /\ refreshes' = refreshes \cup {[call |-> e.call, read |-> None]}
  /\ UNCHANGED <<callVars, service, pricing, cardEdits>>

FindServices(r) ==
  /\ r \in refreshes /\ r.read = None
  /\ refreshes' = (refreshes \ {r}) \cup {[r EXCEPT !.read = service]}
  /\ UNCHANGED <<callVars, service, pricing, copy, edits, cardEdits>>

KeepServices(r) ==
  /\ r \in refreshes /\ r.read # None
  /\ refreshes' = refreshes \ {r}
  /\ copy' = [copy EXCEPT ![host[r.call]] = r.read]
  /\ UNCHANGED <<callVars, service, pricing, edits, cardEdits>>

(***************************************************************************)
(* upsertPricing takes a price it is not given from the document it read.  *)
(***************************************************************************)
ReadPricing(c) ==
  /\ Spend(c, "pricing")
  /\ \E s \in Wanted, acre, hour \in BOOLEAN :
       /\ acre \/ hour
       /\ cardEdits' = cardEdits \cup
            {[call |-> c,
              new |-> [acre |-> Set(acre, s.acre, Entry(pricing).acre),
                       hour |-> Set(hour, s.hour, Entry(pricing).hour)]]}
  /\ UNCHANGED <<service, pricing, copy, edits, refreshes>>

SavePricing(x) ==
  /\ x \in cardEdits
  /\ pricing' = x.new
  /\ cardEdits' = cardEdits \ {x}
  /\ UNCHANGED <<callVars, service, copy, edits, refreshes>>

\* The handlers of the calls in gone end here.
Without(handlers, gone) == {h \in handlers : h.call \notin gone}

Lose(gone) ==
  /\ lost' = lost \cup gone
  /\ edits' = Without(edits, gone)
  /\ cardEdits' = Without(cardEdits, gone)
  /\ refreshes' = Without(refreshes, gone)
  /\ UNCHANGED <<duty, host, spent, service, pricing>>

CatalogueNext ==
  \/ \E c \in Calls :
       CreateService(c) \/ UpdateService(c) \/ ToggleServiceStatus(c) \/ ReadPricing(c)
  \/ \E e \in edits : MirrorPrices(e) \/ ForgetServices(e)
  \/ \E r \in refreshes : FindServices(r)
  \/ \E r \in refreshes : duty[r.call] = "service" /\ KeepServices(r)
  \/ \E x \in cardEdits : SavePricing(x)

(***************************************************************************)
(* The properties                                                          *)
(***************************************************************************)
\* The two documents agree on the prices, or a handler is about to see to it.
PricesAgree ==
  \/ service.live => pricing = CardOf(service)
  \/ \E e \in edits : e.step = "mirror" /\ CardOf(e.saved) = CardOf(service)

\* Service and Pricing keep the same prices, although no transaction holds their
\* two writes together.  They part only when a handler writes the prices of a
\* service that was saved again meanwhile, when one is lost between its two
\* writes, or when an admin sets the Pricing document by itself.
OnlyOverlapsSplitPrices ==
  [][PricesAgree =>
       \/ PricesAgree'
       \/ \E e \in edits : CardOf(e.saved) # CardOf(service) /\ MirrorPrices(e)
       \/ \E e \in edits : e.step = "mirror" /\ e.call \in lost' \ lost
       \/ \E x \in cardEdits : SavePricing(x)]_<<callVars, shelfVars>>

\* The copy of a worker is the service, or there is none, or it will be renewed.
CopyCurrent(w) ==
  \/ copy[w] \in {None, service}
  \/ \E e \in edits : host[e.call] = w
  \/ \E r \in refreshes : host[r.call] = w /\ r.read \in {None, service}

\* A worker's copy goes out of date only when another worker saves the service,
\* when a refresh that read before a change ends after it, or when a handler is
\* lost before it has renewed the copy.
OnlyOverlapsOutdate ==
  [][\A w \in Workers :
       CopyCurrent(w) =>
         \/ CopyCurrent(w)'
         \/ service' # service /\ \E c \in spent' \ spent : host[c] # w
         \/ \E r \in refreshes : host[r.call] = w /\ r.read # service /\ copy'[w] = r.read
         \/ \E h \in edits \cup refreshes : host[h.call] = w /\ h.call \in lost' \ lost
       ]_<<callVars, shelfVars>>
=============================================================================
