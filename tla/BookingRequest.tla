---------------------------- MODULE BookingRequest ----------------------------
(***************************************************************************)
(* POST /bookings/create from arrival to answer: the idempotency guard,    *)
(* the timer that answers 408 and forbids later writes, the Redis locks,   *)
(* the transaction, and what is stored of the answer.                      *)
(*                                                                         *)
(* All happens within the 24 hours that an idempotency record lives, in    *)
(* production: without Redis no lock is acquired.  A request's body is the *)
(* slot it asks for, and equal bodies have equal hashes.                   *)
(***************************************************************************)
EXTENDS Naturals

CONSTANTS
  Requests, Farmers, Slots,
  Keys,   \* Idempotency-Key headers, each scoped by its sender and the route
  Plans,  \* what the requests may ask for together
  None    \* no key, no slot, nobody

Asks == [key : Keys \cup {None}, farmer : Farmers, slot : Slots]

ASSUME NoneIsNone == None \notin Requests \cup Keys \cup Slots /\ Farmers \cap Slots = {}

ASSUME KeysAreScoped ==
  /\ Plans \subseteq [Requests -> Asks]
  /\ \A p \in Plans : \A q, r \in Requests :
       p[q].key = p[r].key /\ p[r].key # None => p[q].farmer = p[r].farmer

VARIABLES
  asked,      \* request -> key, farmer and slot, which never change
  stage,      \* request -> what its code does next
  fresh,      \* requests that created the record of their key
  outcome,    \* request -> what its handler came to
  sent,       \* request -> what the client was told
  saving,     \* request -> what of its answer is still to be stored
  cancelled,  \* requests whose context forbids writes
  answer,     \* key -> its record: absent, in progress, or the stored answer
  hash,       \* key -> the slot asked for in its record
  cache,      \* key -> the same in Redis
  lock,       \* farmer or slot -> who holds its lock in Redis
  lapsed,     \* requests that had a lock run out under them
  booked      \* request -> the booking it made

records == <<answer, hash>>
locks == <<lock, lapsed>>
talk == <<sent, saving, cancelled>>
vars == <<asked, stage, fresh, outcome, talk, records, cache, locks, booked>>

KeyOf(r) == asked[r].key
FarmerOf(r) == asked[r].farmer
SlotOf(r) == asked[r].slot

Guarding == {"idle", "look", "claim", "wait"}
InTx == {"tx", "commit", "freeSlot", "freeFarmer"}
Handling == {"handle", "lockFarmer", "lockSlot", "report"} \cup InTx
Stages == Guarding \cup Handling \cup {"end", "dead"}
Outcomes == {"created", "refused", "error"}
Replies == Outcomes \cup {"none", "lost", "timeout", "mismatch", "working"}

TypeOK ==
  /\ asked \in Plans
  /\ stage \in [Requests -> Stages]
  /\ fresh \subseteq Requests
  /\ outcome \in [Requests -> Outcomes \cup {"none"}]
  /\ sent \in [Requests -> Replies]
  /\ saving \in [Requests -> {"none", "record", "cache"}]
  /\ cancelled \subseteq Requests
  /\ answer \in [Keys -> Outcomes \cup {"absent", "in_progress"}]
  /\ hash \in [Keys -> Slots \cup {None}]
  /\ cache \in [Keys -> [hash : Slots \cup {None}, answer : Outcomes \cup {"absent"}]]
  /\ lock \in [Farmers \cup Slots -> Requests \cup {None}]
  /\ lapsed \subseteq Requests
  /\ booked \in [Requests -> {"none", "active", "aside"}]

Init ==
  /\ asked \in Plans
  /\ stage = [r \in Requests |-> "idle"]
  /\ fresh = {}
  /\ outcome = [r \in Requests |-> "none"]
  /\ sent = [r \in Requests |-> "none"]
  /\ saving = [r \in Requests |-> "none"]
  /\ cancelled = {}
  /\ answer = [k \in Keys |-> "absent"]
  /\ hash = [k \in Keys |-> None]
  /\ cache = [k \in Keys |-> [hash |-> None, answer |-> "absent"]]
  /\ lock = [n \in Farmers \cup Slots |-> None]
  /\ lapsed = {}
  /\ booked = [r \in Requests |-> "none"]

Goes(r, s) == stage' = [stage EXCEPT ![r] = s]
CameTo(r, what) == outcome' = [outcome EXCEPT ![r] = what]

\* What is sent after the headers are out, or to a client that has gone, is lost.
Tells(r, what) == sent' = [sent EXCEPT ![r] = IF @ = "none" THEN what ELSE @]

-----------------------------------------------------------------------------
(***************************************************************************)
(* The idempotency guard.                                                  *)
(***************************************************************************)

\* Mutant: the cached answer is taken whatever it was an answer to.
HitByKey(r) == cache[KeyOf(r)].answer # "absent"

Hit(r) ==
  /\ cache[KeyOf(r)].answer # "absent"
  /\ cache[KeyOf(r)].hash = SlotOf(r)

Unguarded(r) ==
  /\ stage[r] = "idle"
  /\ KeyOf(r) = None
  /\ Goes(r, "handle")
  /\ UNCHANGED <<fresh, outcome, talk, records, cache, locks, booked>>

ReadCache(r) ==
  /\ stage[r] = "idle"
  /\ KeyOf(r) # None
  /\ Hit(r)
  /\ Tells(r, cache[KeyOf(r)].answer)
  /\ Goes(r, "end")
  /\ UNCHANGED <<fresh, outcome, saving, cancelled, records, cache, locks, booked>>

\* Nothing is cached, or Redis fails.
MissCache(r) ==
  /\ stage[r] = "idle"
  /\ KeyOf(r) # None
  /\ Goes(r, "look")
  /\ UNCHANGED <<fresh, outcome, talk, records, cache, locks, booked>>

\* findOne, before the attempt to create and after a failed one.
Look(r) ==
  LET k == KeyOf(r) IN
  /\ stage[r] = "look"
  /\ \/ /\ answer[k] = "absent"
        /\ Goes(r, "claim")
        /\ UNCHANGED sent
     \/ /\ answer[k] # "absent"
        /\ hash[k] # SlotOf(r)
        /\ Goes(r, "end")
        /\ Tells(r, "mismatch")
     \/ /\ answer[k] = "in_progress"
        /\ hash[k] = SlotOf(r)
        /\ Goes(r, "wait")
        /\ UNCHANGED sent
     \/ /\ answer[k] \in Outcomes
        /\ hash[k] = SlotOf(r)
        /\ Goes(r, "end")
        /\ Tells(r, answer[k])
  /\ UNCHANGED <<fresh, outcome, saving, cancelled, records, cache, locks, booked>>

\* Mutant: the unique index is missing, and every request creates a record.
ClaimAnyway(r) ==
  /\ stage[r] = "claim"
  /\ r \notin cancelled
  /\ answer' = [answer EXCEPT ![KeyOf(r)] = "in_progress"]
  /\ hash' = [hash EXCEPT ![KeyOf(r)] = SlotOf(r)]
  /\ fresh' = fresh \cup {r}
  /\ Goes(r, "handle")
  /\ UNCHANGED <<outcome, talk, cache, locks, booked>>

\* create: one request's record goes in, the others' meet the unique index.
Claim(r) ==
  /\ stage[r] = "claim"
  /\ r \notin cancelled
  /\ \/ /\ answer[KeyOf(r)] = "absent"
        /\ answer' = [answer EXCEPT ![KeyOf(r)] = "in_progress"]
        /\ hash' = [hash EXCEPT ![KeyOf(r)] = SlotOf(r)]
        /\ fresh' = fresh \cup {r}
        /\ Goes(r, "handle")
     \/ /\ answer[KeyOf(r)] # "absent"
        /\ Goes(r, "look")
        /\ UNCHANGED <<records, fresh>>
  /\ UNCHANGED <<outcome, talk, cache, locks, booked>>

\* The write guard throws; the client has had its answer or has gone.
ClaimForbidden(r) ==
  /\ stage[r] = "claim"
  /\ r \in cancelled
  /\ Goes(r, "end")
  /\ UNCHANGED <<fresh, outcome, talk, records, cache, locks, booked>>

\* A poll finds the answer that another request stored.
Poll(r) ==
  /\ stage[r] = "wait"
  /\ answer[KeyOf(r)] \in Outcomes
  /\ hash[KeyOf(r)] = SlotOf(r)
  /\ Tells(r, answer[KeyOf(r)])
  /\ Goes(r, "end")
  /\ UNCHANGED <<fresh, outcome, saving, cancelled, records, cache, locks, booked>>

\* After five seconds the answer is 202.
GiveUp(r) ==
  /\ stage[r] = "wait"
  /\ Tells(r, "working")
  /\ Goes(r, "end")
  /\ UNCHANGED <<fresh, outcome, saving, cancelled, records, cache, locks, booked>>

-----------------------------------------------------------------------------
(***************************************************************************)
(* The handler up to its transaction.                                      *)
(***************************************************************************)

Active(r) == booked[r] = "active"

FarmerBusy(f) == \E q \in Requests : Active(q) /\ FarmerOf(q) = f
SlotBusy(s) == \E q \in Requests : Active(q) /\ SlotOf(q) = s

\* After the tractor and the prices, and before operator and tractor again.
CheckFarmer(r) ==
  /\ stage[r] = "handle"
  /\ \/ /\ ~FarmerBusy(FarmerOf(r))
        /\ Goes(r, "lockFarmer")
        /\ UNCHANGED outcome
     \/ /\ FarmerBusy(FarmerOf(r))
        /\ Goes(r, "report")
        /\ CameTo(r, "refused")
  /\ UNCHANGED <<fresh, talk, records, cache, locks, booked>>

\* The body, its prices, the tractor or the operator will not do.
Refuse(r) ==
  /\ stage[r] = "handle"
  /\ Goes(r, "report")
  /\ CameTo(r, "refused")
  /\ UNCHANGED <<fresh, talk, records, cache, locks, booked>>

Acquires(r, n, s) ==
  /\ lock[n] = None
  /\ lock' = [lock EXCEPT ![n] = r]
  /\ Goes(r, s)
  /\ UNCHANGED <<fresh, outcome, talk, records, cache, lapsed, booked>>

LockFarmer(r) == stage[r] = "lockFarmer" /\ Acquires(r, FarmerOf(r), "lockSlot")
LockSlot(r) == stage[r] = "lockSlot" /\ Acquires(r, SlotOf(r), "tx")

\* A lock is busy or Redis fails, outside the block that would release the first.
Locked(r) ==
  /\ stage[r] \in {"lockFarmer", "lockSlot"}
  /\ Goes(r, "report")
  /\ CameTo(r, "refused")
  /\ UNCHANGED <<fresh, talk, records, cache, locks, booked>>

-----------------------------------------------------------------------------
(***************************************************************************)
(* The transaction.                                                        *)
(***************************************************************************)

\* Two inserts that meet in an index before either commits conflict: one is
\* aborted and tries again.
Conflicts(r) ==
  \E q \in Requests : /\ stage[q] = "commit"
                      /\ FarmerOf(q) = FarmerOf(r) \/ SlotOf(q) = SlotOf(r)

\* Mutant: there is no index on the slot.
InsertAnySlot(r) ==
  /\ stage[r] = "tx"
  /\ ~\E q \in Requests : stage[q] = "commit" /\ FarmerOf(q) = FarmerOf(r)
  /\ IF FarmerBusy(FarmerOf(r))
     THEN Goes(r, "freeSlot") /\ CameTo(r, "refused")
     ELSE Goes(r, "commit") /\ UNCHANGED outcome
  /\ UNCHANGED <<fresh, talk, records, cache, locks, booked>>

Insert(r) ==
  /\ stage[r] = "tx"
  /\ ~Conflicts(r)
  /\ \/ /\ FarmerBusy(FarmerOf(r))
        /\ Goes(r, "freeSlot")
        /\ CameTo(r, "refused")
     \/ /\ ~FarmerBusy(FarmerOf(r))
        /\ r \in cancelled
        /\ Goes(r, "freeSlot")
        /\ CameTo(r, "error")
     \/ /\ ~FarmerBusy(FarmerOf(r))
        /\ r \notin cancelled
        /\ SlotBusy(SlotOf(r))
        /\ Goes(r, "freeSlot")
        /\ CameTo(r, "refused")
     \/ /\ ~FarmerBusy(FarmerOf(r))
        /\ r \notin cancelled
        /\ ~SlotBusy(SlotOf(r))
        /\ Goes(r, "commit")
        /\ UNCHANGED outcome
  /\ UNCHANGED <<fresh, talk, records, cache, locks, booked>>

\* Mutant: after a commit of unknown result the whole transaction is tried again.
CommitAgain(r) ==
  /\ stage[r] = "commit"
  /\ booked' = [booked EXCEPT ![r] = "active"]
  /\ Goes(r, "tx")
  /\ UNCHANGED <<fresh, outcome, talk, records, cache, locks>>

Commit(r) ==
  /\ stage[r] = "commit"
  /\ booked' = [booked EXCEPT ![r] = "active"]
  /\ CameTo(r, "created")
  /\ Goes(r, "freeSlot")
  /\ UNCHANGED <<fresh, talk, records, cache, locks>>

\* The commit goes through, but the driver gives up asking whether it did.
CommitUnknown(r) ==
  /\ stage[r] = "commit"
  /\ booked' = [booked EXCEPT ![r] = "active"]
  /\ CameTo(r, "error")
  /\ Goes(r, "freeSlot")
  /\ UNCHANGED <<fresh, talk, records, cache, locks>>

\* The transaction is aborted, and the driver tries it again or the handler fails.
Abort(r) ==
  /\ stage[r] \in {"tx", "commit"}
  /\ \/ /\ stage[r] = "commit"
        /\ Goes(r, "tx")
        /\ UNCHANGED outcome
     \/ /\ Goes(r, "freeSlot")
        /\ CameTo(r, "error")
  /\ UNCHANGED <<fresh, talk, records, cache, locks, booked>>

\* Mutant: a release deletes the key without looking at the token.
ReleasesAny(r, n, s) ==
  /\ lock' = [lock EXCEPT ![n] = None]
  /\ Goes(r, s)
  /\ UNCHANGED <<fresh, outcome, talk, records, cache, lapsed, booked>>

\* Only a lock that still bears the request's token is deleted.  Redis may fail.
Releases(r, n, s) ==
  /\ \/ lock' = [lock EXCEPT ![n] = IF @ = r THEN None ELSE @]
     \/ UNCHANGED lock
  /\ Goes(r, s)
  /\ UNCHANGED <<fresh, outcome, talk, records, cache, lapsed, booked>>

ReleaseSlot(r) == stage[r] = "freeSlot" /\ Releases(r, SlotOf(r), "freeFarmer")
ReleaseFarmer(r) == stage[r] = "freeFarmer" /\ Releases(r, FarmerOf(r), "report")

-----------------------------------------------------------------------------
(***************************************************************************)
(* The answer, and what is kept of it.                                     *)
(***************************************************************************)

\* A created booking is read once more before the answer, which may fail.
Report(r) ==
  /\ stage[r] = "report"
  /\ \E told \in {outcome[r]} \cup {c \in {"error"} : outcome[r] = "created"} :
       Tells(r, told)
  /\ Goes(r, "end")
  /\ saving' = [saving EXCEPT ![r] =
       IF sent[r] = "none" /\ r \in fresh THEN "record" ELSE @]
  /\ UNCHANGED <<fresh, outcome, cancelled, records, cache, locks, booked>>

SaveAnswer(r) ==
  /\ saving[r] = "record"
  /\ answer' = [answer EXCEPT ![KeyOf(r)] = IF @ = "in_progress" THEN sent[r] ELSE @]
  /\ saving' = [saving EXCEPT ![r] = "cache"]
  /\ UNCHANGED <<stage, fresh, outcome, sent, cancelled, hash, cache, locks, booked>>

\* Mutant: a failed update of the record does not keep the answer out of Redis.
SaveFailsButCached(r) ==
  /\ saving[r] \in {"record", "cache"}
  /\ saving' = [saving EXCEPT ![r] = IF @ = "record" THEN "cache" ELSE "none"]
  /\ UNCHANGED <<stage, fresh, outcome, sent, cancelled, records, cache, locks, booked>>

SaveFails(r) ==
  /\ saving[r] \in {"record", "cache"}
  /\ saving' = [saving EXCEPT ![r] = "none"]
  /\ UNCHANGED <<stage, fresh, outcome, sent, cancelled, records, cache, locks, booked>>

SaveCache(r) ==
  /\ saving[r] = "cache"
  /\ cache' = [cache EXCEPT ![KeyOf(r)] = [hash |-> SlotOf(r), answer |-> sent[r]]]
  /\ saving' = [saving EXCEPT ![r] = "none"]
  /\ UNCHANGED <<stage, fresh, outcome, sent, cancelled, records, locks, booked>>

-----------------------------------------------------------------------------
(***************************************************************************)
(* What cuts a request short.                                              *)
(***************************************************************************)

Open(r) == stage[r] \notin {"idle", "end", "dead"} /\ sent[r] = "none"

\* Ten seconds have passed.  The handler goes on, but its writes throw, and so
\* does the one that would store the answer.
Timeout(r) ==
  /\ Open(r)
  /\ Tells(r, "timeout")
  /\ cancelled' = cancelled \cup {r}
  /\ UNCHANGED <<stage, fresh, outcome, saving, records, cache, locks, booked>>

\* The client closes the connection; whether the listener runs in the request's
\* context, and cancels it, depends on who emits the event.
HangUp(r) ==
  /\ Open(r)
  /\ Tells(r, "lost")
  /\ cancelled' \in {cancelled, cancelled \cup {r}}
  /\ UNCHANGED <<stage, fresh, outcome, saving, records, cache, locks, booked>>

\* The process dies.
Die(r) ==
  /\ stage[r] \notin {"idle", "dead"}
  /\ stage[r] = "end" => saving[r] # "none"
  /\ Goes(r, "dead")
  /\ Tells(r, "lost")
  /\ saving' = [saving EXCEPT ![r] = "none"]
  /\ UNCHANGED <<fresh, outcome, cancelled, records, cache, locks, booked>>

\* Thirty seconds after a lock was acquired.
LockExpires(n) ==
  /\ lock[n] # None
  /\ lapsed' = lapsed \cup {lock[n]}
  /\ lock' = [lock EXCEPT ![n] = None]
  /\ UNCHANGED <<stage, fresh, outcome, talk, records, cache, booked>>

-----------------------------------------------------------------------------
(***************************************************************************)
(* Meanwhile.                                                              *)
(***************************************************************************)

\* The booking ends, or is set aside while a payment is confirmed.
BookingLeaves(r) ==
  /\ Active(r)
  /\ booked' = [booked EXCEPT ![r] = "aside"]
  /\ UNCHANGED <<stage, fresh, outcome, talk, records, cache, locks>>

\* Its payment is confirmed, or it is saved from an old read, and the indexes let
\* it in; an insert under way that meets it there is decided first.
BookingReturns(r) ==
  /\ booked[r] = "aside"
  /\ ~Conflicts(r)
  /\ ~FarmerBusy(FarmerOf(r))
  /\ ~SlotBusy(SlotOf(r))
  /\ booked' = [booked EXCEPT ![r] = "active"]
  /\ UNCHANGED <<stage, fresh, outcome, talk, records, cache, locks>>

-----------------------------------------------------------------------------
GuardStep(r) ==
  \/ Unguarded(r) \/ ReadCache(r) \/ MissCache(r) \/ Look(r)
  \/ Claim(r) \/ ClaimForbidden(r) \/ Poll(r) \/ GiveUp(r)

HandlerStep(r) ==
  \/ CheckFarmer(r) \/ Refuse(r)
  \/ LockFarmer(r) \/ LockSlot(r) \/ Locked(r)
  \/ Insert(r) \/ Commit(r) \/ CommitUnknown(r) \/ Abort(r)
  \/ ReleaseSlot(r) \/ ReleaseFarmer(r) \/ Report(r)

SaveStep(r) == SaveAnswer(r) \/ SaveFails(r) \/ SaveCache(r)

CutShort(r) == Timeout(r) \/ HangUp(r) \/ Die(r)

Meanwhile(r) == BookingLeaves(r) \/ BookingReturns(r)

Next ==
  /\ UNCHANGED asked
  /\ \/ \E r \in Requests : GuardStep(r) \/ HandlerStep(r) \/ SaveStep(r)
     \/ \E r \in Requests : CutShort(r) \/ Meanwhile(r)
     \/ \E n \in Farmers \cup Slots : LockExpires(n)

Spec == Init /\ [][Next]_vars

-----------------------------------------------------------------------------
(***************************************************************************)
(* Properties.                                                             *)
(***************************************************************************)

SameKey(q, r) == KeyOf(q) = KeyOf(r) /\ KeyOf(r) # None

\* However many requests bear a key, wherever they are cut short and however
\* often they are repeated, one of them gets past the guard, and no other of
\* them books.
OncePerKey ==
  \A q, r \in Requests :
    (SameKey(q, r) /\ q # r) =>
      /\ ~(q \in fresh /\ r \in fresh)
      /\ booked[r] # "none" => q \notin fresh /\ booked[q] = "none"

\* A client that is told its booking was created has one: its own request or
\* another with its key booked the slot it asked for.
CreatedIsBooked ==
  \A r \in Requests :
    sent[r] = "created" =>
      \E q \in Requests : /\ q = r \/ SameKey(q, r)
                          /\ booked[q] # "none"
                          /\ SlotOf(q) = SlotOf(r)

\* A handler that came to a refusal has booked nothing: what a commit of unknown
\* result may have booked is reported as a failure, never as a refusal.
RefusedIsNotBooked ==
  \A r \in Requests : outcome[r] = "refused" => booked[r] = "none"

\* Whoever has an answer of the handler to requests with one key has the same answer.
OneAnswer ==
  \A q, r \in Requests :
    (SameKey(q, r) /\ sent[q] \in Outcomes /\ sent[r] \in Outcomes) => sent[q] = sent[r]

\* Redis never answers what the record would not: an answer is cached once it is
\* the stored one, and for the same body.
CacheAgrees ==
  \A k \in Keys :
    cache[k].answer # "absent" => cache[k].answer = answer[k] /\ cache[k].hash = hash[k]

\* Two requests for one slot, or of one farmer, are in their transactions
\* together only if the lock of one of them ran out; no release lets a third in.
LocksExclude ==
  \A q, r \in Requests :
    (q # r /\ stage[q] \in {"tx", "commit"} /\ stage[r] \in {"tx", "commit"}) =>
      \/ SlotOf(q) # SlotOf(r) /\ FarmerOf(q) # FarmerOf(r)
      \/ q \in lapsed
      \/ r \in lapsed

\* The indexes hold where the locks do not: one active booking for each farmer and
\* for each slot.
BookedApart ==
  \A q, r \in Requests :
    (q # r /\ Active(q) /\ Active(r)) => SlotOf(q) # SlotOf(r) /\ FarmerOf(q) # FarmerOf(r)

Needs == [r \in Requests |-> {<<"farmer", FarmerOf(r)>>, <<"slot", SlotOf(r)>>}]

\* Bookings keep the promise of module Reservation: what a request is told, how its
\* locks fare and whether its commit is known make no difference to it.
Reserved == INSTANCE Reservation WITH
  Bookings <- Requests,
  needs <- Needs,
  state <- booked

ReservationKept == Reserved!Spec

Done == {r \in Requests : booked[r] # "none"}

\* A reply that is no answer of the handler tells the client nothing about its booking.
Told == [r \in Requests |-> IF sent[r] \in Outcomes THEN sent[r] ELSE "nothing"]

Stored ==
  [k \in Keys |-> IF answer[k] \in Outcomes THEN [body |-> hash[k], answer |-> answer[k]]
                 ELSE [body |-> None, answer |-> "nothing"]]

\* Requests and their answers keep the promise of module OnceOnly.
Answered == INSTANCE OnceOnly WITH
  keyOf <- [r \in Requests |-> KeyOf(r)],
  bodyOf <- [r \in Requests |-> SlotOf(r)],
  done <- Done,
  told <- Told,
  kept <- Stored

OnceOnlyKept == Answered!Spec

-----------------------------------------------------------------------------
(***************************************************************************)
(* The inductive invariant.                                                *)
(***************************************************************************)

Untried == {"handle", "lockFarmer", "lockSlot", "tx", "commit"}

\* Behind the guard there are requests without a key and those that claimed theirs.
GuardKept ==
  \A r \in Requests :
    /\ stage[r] \in Guarding => r \notin fresh
    /\ stage[r] \in Guarding \ {"idle"} => KeyOf(r) # None
    /\ (stage[r] \in Guarding \/ (KeyOf(r) # None /\ r \notin fresh)) =>
         stage[r] \notin Handling /\ outcome[r] = "none" /\ booked[r] = "none"

\* A claimed key has the record of its one claimant, in progress while it works.
ClaimKept ==
  /\ \A r \in fresh :
       /\ KeyOf(r) \in Keys
       /\ answer[KeyOf(r)] # "absent"
       /\ hash[KeyOf(r)] = SlotOf(r)
       /\ stage[r] \in Handling => answer[KeyOf(r)] = "in_progress"
  /\ \A q, r \in fresh : KeyOf(q) = KeyOf(r) => q = r

\* What a handler came to agrees with what it did.
OutcomeKept ==
  \A r \in Requests :
    /\ stage[r] \in Untried => outcome[r] = "none" /\ booked[r] = "none"
    /\ stage[r] \in {"freeSlot", "freeFarmer", "report"} => outcome[r] # "none"
    /\ outcome[r] = "created" => booked[r] # "none"
    /\ outcome[r] = "refused" => booked[r] = "none"

\* An answer is stored by the claimant that gave it.
SavingKept ==
  \A r \in Requests :
    /\ sent[r] \in Outcomes => stage[r] \in {"end", "dead"}
    /\ saving[r] # "none" =>
         /\ r \in fresh
         /\ stage[r] = "end"
         /\ sent[r] \in Outcomes
         /\ sent[r] = "created" => booked[r] # "none"
    /\ saving[r] = "record" => answer[KeyOf(r)] = "in_progress"
    /\ saving[r] = "cache" => answer[KeyOf(r)] = sent[r]

\* Who repeats a key hears what is stored, and nobody ever heard anything else.
ToldKept ==
  \A r \in Requests :
    (KeyOf(r) # None /\ sent[r] \in Outcomes) =>
      /\ r \notin fresh => answer[KeyOf(r)] \in Outcomes
      /\ answer[KeyOf(r)] \in Outcomes => sent[r] = answer[KeyOf(r)]

\* A stored "created" is true.
StoredKept ==
  \A k \in Keys :
    answer[k] = "created" => \E q \in fresh : KeyOf(q) = k /\ booked[q] # "none"

\* A request that has acquired a lock and not released it holds it, unless it lapsed.
LocksKept ==
  \A r \in Requests :
    r \notin lapsed =>
      /\ stage[r] \in {"lockSlot", "tx", "commit", "freeSlot", "freeFarmer"} =>
           lock[FarmerOf(r)] = r
      /\ stage[r] \in {"tx", "commit", "freeSlot"} => lock[SlotOf(r)] = r

\* No index is hit by two inserts that are under way or have become bookings.
InsertsApart ==
  \A q, r \in Requests :
    (q # r /\ stage[r] = "commit" /\ (stage[q] = "commit" \/ Active(q))) =>
      SlotOf(q) # SlotOf(r) /\ FarmerOf(q) # FarmerOf(r)

Inductive ==
  /\ TypeOK
  /\ GuardKept
  /\ ClaimKept
  /\ OutcomeKept
  /\ SavingKept
  /\ ToldKept
  /\ StoredKept
  /\ CreatedIsBooked
  /\ CacheAgrees
  /\ LocksKept
  /\ InsertsApart
  /\ BookedApart

=============================================================================
