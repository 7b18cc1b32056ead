------------------------- MODULE BookingRequestProofs -------------------------
(***************************************************************************)
(* Proofs about BookingRequest, for any number of requests, keys, farmers  *)
(* and slots.                                                              *)
(***************************************************************************)
EXTENDS BookingRequest, TLAPS

\* The steps that belong to one request.
RequestStep(r) == GuardStep(r) \/ HandlerStep(r) \/ SaveStep(r) \/ CutShort(r) \/ Meanwhile(r)

\* A step is one of a request, an expiring lock, or nothing, and leaves asked alone.
LEMMA StepCases ==
  ASSUME [Next]_vars
  PROVE  /\ asked' = asked
         /\ \/ \E r \in Requests : RequestStep(r)
            \/ \E n \in Farmers \cup Slots : LockExpires(n)
            \/ UNCHANGED vars
BY DEF Next, RequestStep, vars

\* What a request asks for.
LEMMA Asked ==
  ASSUME TypeOK, NEW r \in Requests
  PROVE  KeyOf(r) \in Keys \cup {None} /\ FarmerOf(r) \in Farmers /\ SlotOf(r) \in Slots
<1>1. asked \in [Requests -> Asks]
  BY KeysAreScoped DEF TypeOK
<1>2. asked[r] \in Asks
  BY <1>1
<1>3. QED BY <1>2 DEF Asks, KeyOf, FarmerOf, SlotOf

\* What a request asks for does not change.
LEMMA AskedStays ==
  ASSUME asked' = asked
  PROVE  \A r : KeyOf(r)' = KeyOf(r) /\ FarmerOf(r)' = FarmerOf(r) /\ SlotOf(r)' = SlotOf(r)
BY DEF KeyOf, FarmerOf, SlotOf

-----------------------------------------------------------------------------
\* The initial states have their types.
LEMMA TypeInit == Init => TypeOK
BY DEF Init, TypeOK, Stages, Guarding, Outcomes, Replies

\* The steps of the idempotency guard keep the types.
LEMMA GuardType ==
  ASSUME TypeOK, asked' = asked, NEW r \in Requests, GuardStep(r)
  PROVE  TypeOK'
<1> USE DEF Goes, Tells, CameTo, records, locks, talk
<1>0. KeyOf(r) \in Keys \cup {None} /\ SlotOf(r) \in Slots
  BY Asked
<1>1. CASE Unguarded(r) \/ MissCache(r) \/ ClaimForbidden(r)
  BY <1>1 DEF TypeOK, Unguarded, MissCache, ClaimForbidden, Stages, Guarding, Handling
<1>2. CASE ReadCache(r)
  <2>1. cache[KeyOf(r)].answer \in Outcomes
    BY <1>0, <1>2 DEF ReadCache, Hit, TypeOK
  <2>2. QED BY <1>2, <2>1 DEF TypeOK, ReadCache, Stages, Replies
<1>3. CASE Look(r)
  BY <1>0, <1>3 DEF TypeOK, Look, Stages, Guarding, Replies
<1>4. CASE Claim(r)
  <2>1. answer' \in [Keys -> Outcomes \cup {"absent", "in_progress"}]
    <3>1. answer' \in {answer, [answer EXCEPT ![KeyOf(r)] = "in_progress"]}
      BY <1>4 DEF Claim
    <3>2. QED BY <3>1 DEF TypeOK
  <2>2. hash' \in [Keys -> Slots \cup {None}]
    <3>1. hash' \in {hash, [hash EXCEPT ![KeyOf(r)] = SlotOf(r)]}
      BY <1>4 DEF Claim
    <3>2. QED BY <1>0, <3>1 DEF TypeOK
  <2>3. QED BY <1>4, <2>1, <2>2 DEF TypeOK, Claim, Stages, Guarding, Handling
<1>5. CASE Poll(r)
  BY <1>0, <1>5 DEF TypeOK, Poll, Stages, Replies
<1>6. CASE GiveUp(r)
  BY <1>6 DEF TypeOK, GiveUp, Stages, Replies
<1>7. QED BY <1>1, <1>2, <1>3, <1>4, <1>5, <1>6 DEF GuardStep

\* The steps of the handler keep the types.
LEMMA HandlerType ==
  ASSUME TypeOK, asked' = asked, NEW r \in Requests, HandlerStep(r), OutcomeKept
  PROVE  TypeOK'
<1> USE DEF Goes, Tells, CameTo, records, locks, talk
<1>0. FarmerOf(r) \in Farmers /\ SlotOf(r) \in Slots
  BY Asked
<1>1. CASE CheckFarmer(r) \/ Refuse(r) \/ Locked(r)
  BY <1>1 DEF TypeOK, CheckFarmer, Refuse, Locked, Stages, Handling, Outcomes
<1>2. CASE LockFarmer(r) \/ LockSlot(r)
  BY <1>0, <1>2 DEF TypeOK, LockFarmer, LockSlot, Acquires, Stages, Handling, InTx
<1>3. CASE Insert(r)
  BY <1>3 DEF TypeOK, Insert, Stages, Handling, InTx, Outcomes
<1>4. CASE Commit(r) \/ CommitUnknown(r) \/ Abort(r)
  BY <1>4 DEF TypeOK, Commit, CommitUnknown, Abort, Stages, Handling, InTx, Outcomes
<1>5. CASE ReleaseSlot(r) \/ ReleaseFarmer(r)
  BY <1>0, <1>5 DEF TypeOK, ReleaseSlot, ReleaseFarmer, Releases, Stages, Handling, InTx
<1>6. CASE Report(r)
  <2>1. outcome[r] \in Outcomes
    BY <1>6 DEF TypeOK, Report, OutcomeKept
  <2>2. sent' \in [Requests -> Replies]
    BY <1>6, <2>1 DEF TypeOK, Report, Replies, Outcomes
  <2>3. QED BY <1>6, <2>2 DEF TypeOK, Report, Stages
<1>7. QED BY <1>1, <1>2, <1>3, <1>4, <1>5, <1>6 DEF HandlerStep

\* Saving, cutting short and the end of a booking keep the types.
LEMMA OtherType ==
  ASSUME TypeOK, asked' = asked, NEW r \in Requests, SavingKept, ClaimKept,
         SaveStep(r) \/ CutShort(r) \/ Meanwhile(r)
  PROVE  TypeOK'
<1> USE DEF Goes, Tells, CameTo, records, locks, talk
<1>0. SlotOf(r) \in Slots
  BY Asked
<1>1. CASE SaveAnswer(r)
  BY <1>1 DEF TypeOK, SaveAnswer, SavingKept
<1>2. CASE SaveFails(r)
  BY <1>2 DEF TypeOK, SaveFails
<1>3. CASE SaveCache(r)
  <2>1. sent[r] \in Outcomes
    BY <1>3 DEF SaveCache, SavingKept
  <2>2. cache' \in [Keys -> [hash : Slots \cup {None}, answer : Outcomes \cup {"absent"}]]
    BY <1>0, <1>3, <2>1 DEF TypeOK, SaveCache
  <2>3. QED BY <1>3, <2>2 DEF TypeOK, SaveCache
<1>4. CASE Timeout(r) \/ HangUp(r)
  BY <1>4 DEF TypeOK, Timeout, HangUp, Replies
<1>5. CASE Die(r)
  BY <1>5 DEF TypeOK, Die, Stages, Replies
<1>6. CASE Meanwhile(r)
  BY <1>6 DEF TypeOK, Meanwhile, BookingLeaves, BookingReturns
<1>7. QED BY <1>1, <1>2, <1>3, <1>4, <1>5, <1>6 DEF SaveStep, CutShort

-----------------------------------------------------------------------------
(***************************************************************************)
(* What a step of one request leaves alone.                                *)
(***************************************************************************)

\* Nothing happens to another request.
LEMMA OthersStay ==
  ASSUME TypeOK, NEW r \in Requests, RequestStep(r), NEW q \in Requests, q # r
  PROVE  /\ stage'[q] = stage[q]
         /\ outcome'[q] = outcome[q]
         /\ sent'[q] = sent[q]
         /\ saving'[q] = saving[q]
         /\ booked'[q] = booked[q]
         /\ q \in fresh' <=> q \in fresh
<1> USE DEF TypeOK, Goes, Tells, CameTo, records, locks, talk
<1>1. CASE GuardStep(r)
  BY <1>1 DEF GuardStep, Unguarded, ReadCache, MissCache, Look, Claim, ClaimForbidden, Poll, GiveUp
<1>2. CASE CheckFarmer(r) \/ Refuse(r) \/ Locked(r) \/ LockFarmer(r) \/ LockSlot(r)
  BY <1>2 DEF CheckFarmer, Refuse, Locked, LockFarmer, LockSlot, Acquires
<1>3. CASE Insert(r) \/ Commit(r) \/ CommitUnknown(r) \/ Abort(r)
  BY <1>3 DEF Insert, Commit, CommitUnknown, Abort
<1>4. CASE ReleaseSlot(r) \/ ReleaseFarmer(r) \/ Report(r)
  BY <1>4 DEF ReleaseSlot, ReleaseFarmer, Releases, Report
<1>5. CASE SaveStep(r)
  BY <1>5 DEF SaveStep, SaveAnswer, SaveFails, SaveCache
<1>6. CASE CutShort(r) \/ Meanwhile(r)
  BY <1>6 DEF CutShort, Timeout, HangUp, Die, Meanwhile, BookingLeaves, BookingReturns
<1>7. QED BY <1>1, <1>2, <1>3, <1>4, <1>5, <1>6 DEF RequestStep, HandlerStep

\* Only the claim and the two saves write records and cache, and only of one key.
LEMMA RecordsStay ==
  ASSUME TypeOK, NEW r \in Requests, RequestStep(r), NEW k \in Keys,
         k # KeyOf(r) \/ ~(Claim(r) \/ SaveAnswer(r) \/ SaveCache(r))
  PROVE  answer'[k] = answer[k] /\ hash'[k] = hash[k] /\ cache'[k] = cache[k]
<1> USE DEF records
<1>1. CASE Claim(r)
  BY <1>1 DEF TypeOK, Claim
<1>2. CASE SaveAnswer(r)
  BY <1>2 DEF TypeOK, SaveAnswer
<1>3. CASE SaveCache(r)
  BY <1>3 DEF TypeOK, SaveCache
<1>4. CASE ~(Claim(r) \/ SaveAnswer(r) \/ SaveCache(r))
  <2>1. CASE GuardStep(r)
    BY <1>4, <2>1 DEF GuardStep, Unguarded, ReadCache, MissCache, Look, ClaimForbidden, Poll, GiveUp
  <2>2. CASE HandlerStep(r)
    BY <2>2 DEF HandlerStep, CheckFarmer, Refuse, Locked, LockFarmer, LockSlot, Acquires, Insert,
       Commit, CommitUnknown, Abort, ReleaseSlot, ReleaseFarmer, Releases, Report
  <2>3. CASE SaveStep(r) \/ CutShort(r) \/ Meanwhile(r)
    BY <1>4, <2>3 DEF SaveStep, SaveFails, CutShort, Timeout, HangUp, Die, Meanwhile, BookingLeaves, BookingReturns
  <2>4. QED BY <2>1, <2>2, <2>3 DEF RequestStep
<1>5. QED BY <1>1, <1>2, <1>3, <1>4

\* A booking, once made, is not unmade; a claim is not given back; what was sent was sent.
LEMMA MadeStays ==
  ASSUME TypeOK, NEW r \in Requests, RequestStep(r)
  PROVE  /\ fresh \subseteq fresh'
         /\ \A q \in Requests : booked[q] # "none" => booked'[q] # "none"
         /\ \A q \in Requests : sent[q] # "none" => sent'[q] = sent[q]
<1> USE DEF TypeOK, Goes, Tells, CameTo, records, locks, talk
<1>1. CASE GuardStep(r)
  BY <1>1 DEF GuardStep, Unguarded, ReadCache, MissCache, Look, Claim, ClaimForbidden, Poll, GiveUp
<1>2. CASE CheckFarmer(r) \/ Refuse(r) \/ Locked(r) \/ LockFarmer(r) \/ LockSlot(r)
  BY <1>2 DEF CheckFarmer, Refuse, Locked, LockFarmer, LockSlot, Acquires
<1>3. CASE Insert(r) \/ Commit(r) \/ CommitUnknown(r) \/ Abort(r)
  BY <1>3 DEF Insert, Commit, CommitUnknown, Abort
<1>4. CASE ReleaseSlot(r) \/ ReleaseFarmer(r) \/ Report(r)
  BY <1>4 DEF ReleaseSlot, ReleaseFarmer, Releases, Report
<1>5. CASE SaveStep(r)
  BY <1>5 DEF SaveStep, SaveAnswer, SaveFails, SaveCache
<1>6. CASE CutShort(r) \/ Meanwhile(r)
  BY <1>6 DEF CutShort, Timeout, HangUp, Die, Meanwhile, BookingLeaves, BookingReturns
<1>7. QED BY <1>1, <1>2, <1>3, <1>4, <1>5, <1>6 DEF RequestStep, HandlerStep

-----------------------------------------------------------------------------
\* A step past the guard needs no key or a claim.
LEMMA GuardStepKeeps ==
  ASSUME TypeOK, GuardKept, asked' = asked, NEW r \in Requests, RequestStep(r)
  PROVE  GuardKept'
<1> DEFINE Good(q) ==
      /\ stage[q] \in Guarding => q \notin fresh
      /\ stage[q] \in Guarding \ {"idle"} => KeyOf(q) # None
      /\ (stage[q] \in Guarding \/ (KeyOf(q) # None /\ q \notin fresh)) =>
           stage[q] \notin Handling /\ outcome[q] = "none" /\ booked[q] = "none"
<1>0. \A q \in Requests : Good(q)
  BY DEF GuardKept
<1>1. ASSUME NEW q \in Requests, q # r PROVE Good(q)'
  BY <1>0, <1>1, OthersStay, AskedStays
<1>2. Good(r)'
  <2> USE <1>0, AskedStays DEF TypeOK, Goes, Tells, CameTo, records, locks, talk, Guarding, Handling, InTx
  <2>1. CASE GuardStep(r)
    BY <2>1 DEF GuardStep, Unguarded, ReadCache, MissCache, Look, Claim, ClaimForbidden, Poll,
       GiveUp
  <2>2. CASE CheckFarmer(r) \/ Refuse(r) \/ Locked(r) \/ LockFarmer(r) \/ LockSlot(r)
    BY <2>2 DEF CheckFarmer, Refuse, Locked, LockFarmer, LockSlot, Acquires
  <2>3. CASE Insert(r) \/ Commit(r) \/ CommitUnknown(r) \/ Abort(r)
    BY <2>3 DEF Insert, Commit, CommitUnknown, Abort
  <2>4. CASE ReleaseSlot(r) \/ ReleaseFarmer(r) \/ Report(r)
    BY <2>4 DEF ReleaseSlot, ReleaseFarmer, Releases, Report
  <2>5. CASE SaveStep(r)
    BY <2>5 DEF SaveStep, SaveAnswer, SaveFails, SaveCache
  <2>6. CASE CutShort(r) \/ Meanwhile(r)
    BY <2>6 DEF CutShort, Timeout, HangUp, Die, Meanwhile, BookingLeaves, BookingReturns, Active
  <2>7. QED BY <2>1, <2>2, <2>3, <2>4, <2>5, <2>6 DEF RequestStep, HandlerStep
<1>3. QED BY <1>1, <1>2 DEF GuardKept

\* A handler is given its outcome together with what it did.
LEMMA OutcomeStepKeeps ==
  ASSUME TypeOK, GuardKept, OutcomeKept, NEW r \in Requests, RequestStep(r)
  PROVE  OutcomeKept'
<1> DEFINE Good(q) ==
      /\ stage[q] \in Untried => outcome[q] = "none" /\ booked[q] = "none"
      /\ stage[q] \in {"freeSlot", "freeFarmer", "report"} => outcome[q] # "none"
      /\ outcome[q] = "created" => booked[q] # "none"
      /\ outcome[q] = "refused" => booked[q] = "none"
<1>0. \A q \in Requests : Good(q)
  BY DEF OutcomeKept
<1>1. ASSUME NEW q \in Requests, q # r PROVE Good(q)'
  BY <1>0, <1>1, OthersStay
<1>2. Good(r)'
  <2>0. stage[r] \in Guarding => outcome[r] = "none" /\ booked[r] = "none"
    BY DEF GuardKept
  <2> USE <1>0, <2>0 DEF TypeOK, Goes, Tells, CameTo, records, locks, talk, Guarding, Untried
  <2>1. CASE GuardStep(r)
    BY <2>1 DEF GuardStep, Unguarded, ReadCache, MissCache, Look, Claim, ClaimForbidden, Poll,
       GiveUp
  <2>2. CASE CheckFarmer(r) \/ Refuse(r) \/ Locked(r) \/ LockFarmer(r) \/ LockSlot(r)
    BY <2>2 DEF CheckFarmer, Refuse, Locked, LockFarmer, LockSlot, Acquires
  <2>3. CASE Insert(r) \/ Commit(r) \/ CommitUnknown(r) \/ Abort(r)
    BY <2>3 DEF Insert, Commit, CommitUnknown, Abort
  <2>4. CASE ReleaseSlot(r) \/ ReleaseFarmer(r) \/ Report(r)
    BY <2>4 DEF ReleaseSlot, ReleaseFarmer, Releases, Report
  <2>5. CASE SaveStep(r)
    BY <2>5 DEF SaveStep, SaveAnswer, SaveFails, SaveCache
  <2>6. CASE CutShort(r) \/ Meanwhile(r)
    BY <2>6 DEF CutShort, Timeout, HangUp, Die, Meanwhile, BookingLeaves, BookingReturns, Active
  <2>7. QED BY <2>1, <2>2, <2>3, <2>4, <2>5, <2>6 DEF RequestStep, HandlerStep
<1>3. QED BY <1>1, <1>2 DEF OutcomeKept

\* A second claim of a key meets the record of the first.
LEMMA ClaimStepKeeps ==
  ASSUME TypeOK, GuardKept, ClaimKept, SavingKept, asked' = asked,
         NEW r \in Requests, RequestStep(r)
  PROVE  ClaimKept'
<1>0. KeyOf(r) \in Keys \cup {None} /\ fresh \subseteq Requests
  BY Asked DEF TypeOK
<1>a. \A q \in fresh :
        /\ KeyOf(q) \in Keys
        /\ answer[KeyOf(q)] # "absent"
        /\ hash[KeyOf(q)] = SlotOf(q)
        /\ stage[q] \in Handling => answer[KeyOf(q)] = "in_progress"
  BY DEF ClaimKept
<1>b. \A p, q \in fresh : KeyOf(p) = KeyOf(q) => p = q
  BY DEF ClaimKept
<1>1. CASE Claim(r) /\ answer[KeyOf(r)] = "absent"
  <2>1. KeyOf(r) \in Keys
    BY <1>0, <1>1 DEF Claim, GuardKept, Guarding
  <2>2. /\ fresh' = fresh \cup {r}
        /\ stage' = [stage EXCEPT ![r] = "handle"]
        /\ answer' = [answer EXCEPT ![KeyOf(r)] = "in_progress"]
        /\ hash' = [hash EXCEPT ![KeyOf(r)] = SlotOf(r)]
    BY <1>1 DEF Claim, Goes
  <2>3. \A q \in fresh : KeyOf(q) # KeyOf(r) /\ q # r
    BY <1>1, <1>a
  <2>4. ASSUME NEW q \in fresh
        PROVE  /\ KeyOf(q)' \in Keys
               /\ answer'[KeyOf(q)'] # "absent"
               /\ hash'[KeyOf(q)'] = SlotOf(q)'
               /\ stage'[q] \in Handling => answer'[KeyOf(q)'] = "in_progress"
    BY <1>0, <1>a, <2>1, <2>2, <2>3, AskedStays DEF TypeOK
  <2>5. /\ KeyOf(r)' \in Keys
        /\ answer'[KeyOf(r)'] = "in_progress"
        /\ hash'[KeyOf(r)'] = SlotOf(r)'
    BY <2>1, <2>2, AskedStays DEF TypeOK
  <2>6. \A p, q \in fresh' : KeyOf(p)' = KeyOf(q)' => p = q
    BY <1>b, <2>2, <2>3, AskedStays
  <2>7. QED BY <2>2, <2>4, <2>5, <2>6 DEF ClaimKept
<1>2. CASE SaveAnswer(r)
  <2>1. /\ saving[r] = "record"
        /\ fresh' = fresh
        /\ stage' = stage
        /\ hash' = hash
        /\ answer' = [answer EXCEPT ![KeyOf(r)] = IF @ = "in_progress" THEN sent[r] ELSE @]
    BY <1>2 DEF SaveAnswer
  <2>2. r \in fresh /\ stage[r] = "end" /\ sent[r] \in Outcomes
    BY <2>1 DEF SavingKept
  <2>3. sent[r] # "absent" /\ "end" \notin Handling
    BY <2>2 DEF Outcomes, Handling, InTx
  <2>4. ASSUME NEW q \in fresh
        PROVE  /\ answer'[KeyOf(q)] # "absent"
               /\ stage'[q] \in Handling => answer'[KeyOf(q)] = "in_progress"
    <3>1. CASE q = r
      BY <1>a, <2>1, <2>2, <2>3, <3>1 DEF TypeOK
    <3>2. CASE q # r
      <4>1. KeyOf(q) # KeyOf(r)
        BY <1>b, <2>2, <3>2
      <4>2. QED BY <1>a, <2>1, <4>1 DEF TypeOK
    <3>3. QED BY <3>1, <3>2
  <2>5. QED BY <1>a, <1>b, <2>1, <2>4, AskedStays DEF ClaimKept
<1>3. CASE ~(Claim(r) /\ answer[KeyOf(r)] = "absent") /\ ~SaveAnswer(r)
  <2>1. fresh' = fresh /\ answer' = answer /\ hash' = hash
    <3> USE <1>3 DEF records
    <3>1. CASE GuardStep(r)
      BY <3>1 DEF GuardStep, Unguarded, ReadCache, MissCache, Look, Claim, ClaimForbidden, Poll,
         GiveUp
    <3>2. CASE HandlerStep(r)
      BY <3>2 DEF HandlerStep, CheckFarmer, Refuse, Locked, LockFarmer, LockSlot, Acquires, Insert,
         Commit, CommitUnknown, Abort, ReleaseSlot, ReleaseFarmer, Releases, Report
    <3>3. CASE SaveStep(r) \/ CutShort(r) \/ Meanwhile(r)
      BY <3>3 DEF SaveStep, SaveCache, SaveFails, CutShort, Timeout, HangUp, Die, Meanwhile, BookingLeaves, BookingReturns
    <3>4. QED BY <3>1, <3>2, <3>3 DEF RequestStep
  <2>2. r \in fresh /\ stage'[r] \in Handling => stage[r] \in Handling
    <3> USE DEF TypeOK, Goes, Guarding, Handling, InTx
    <3>0. r \in fresh => stage[r] \notin Guarding
      BY DEF GuardKept
    <3>1. CASE GuardStep(r)
      BY <3>0, <3>1 DEF GuardStep, Unguarded, ReadCache, MissCache, Look, Claim, ClaimForbidden,
         Poll, GiveUp
    <3>2. CASE HandlerStep(r)
      BY <3>2 DEF HandlerStep, CheckFarmer, Refuse, Locked, LockFarmer, LockSlot, Acquires, Insert,
         Commit, CommitUnknown, Abort, ReleaseSlot, ReleaseFarmer, Releases, Report
    <3>3. CASE SaveStep(r) \/ CutShort(r) \/ Meanwhile(r)
      BY <3>3 DEF SaveStep, SaveAnswer, SaveCache, SaveFails, CutShort, Timeout, HangUp, Die,
         Meanwhile, BookingLeaves, BookingReturns
    <3>4. QED BY <3>1, <3>2, <3>3 DEF RequestStep
  <2>3. \A q \in fresh : stage'[q] \in Handling => stage[q] \in Handling
    BY <1>0, <2>2, OthersStay
  <2>4. QED BY <1>a, <1>b, <2>1, <2>3, AskedStays DEF ClaimKept
<1>4. QED BY <1>1, <1>2, <1>3

\* An answer of a handler goes out with the last step of the guard or of the handler.
LEMMA SavingStepKeeps ==
  ASSUME TypeOK, GuardKept, ClaimKept, OutcomeKept, SavingKept, asked' = asked,
         NEW r \in Requests, RequestStep(r)
  PROVE  SavingKept'
<1> DEFINE Good(q) ==
      /\ sent[q] \in Outcomes => stage[q] \in {"end", "dead"}
      /\ saving[q] # "none" =>
           /\ q \in fresh
           /\ stage[q] = "end"
           /\ sent[q] \in Outcomes
           /\ sent[q] = "created" => booked[q] # "none"
      /\ saving[q] = "record" => answer[KeyOf(q)] = "in_progress"
      /\ saving[q] = "cache" => answer[KeyOf(q)] = sent[q]
<1>0. \A q \in Requests : Good(q)
  BY DEF SavingKept
<1>a. \A q \in fresh : KeyOf(q) \in Keys /\ answer[KeyOf(q)] # "absent"
  BY DEF ClaimKept
<1>b. \A p, q \in fresh : KeyOf(p) = KeyOf(q) => p = q
  BY DEF ClaimKept
<1>1. ASSUME NEW q \in Requests, q # r PROVE Good(q)'
  <2>1. /\ stage'[q] = stage[q] /\ sent'[q] = sent[q] /\ saving'[q] = saving[q]
        /\ booked'[q] = booked[q] /\ (q \in fresh' <=> q \in fresh)
        /\ KeyOf(q)' = KeyOf(q)
    BY <1>1, OthersStay, AskedStays
  <2>2. saving[q] # "none" => answer'[KeyOf(q)] = answer[KeyOf(q)]
    <3> SUFFICES ASSUME saving[q] # "none" PROVE answer'[KeyOf(q)] = answer[KeyOf(q)]
      OBVIOUS
    <3>1. q \in fresh /\ KeyOf(q) \in Keys /\ answer[KeyOf(q)] # "absent"
      BY <1>0, <1>a
    <3>2. CASE KeyOf(q) # KeyOf(r)
      BY <3>1, <3>2, RecordsStay
    <3>3. CASE KeyOf(q) = KeyOf(r)
      <4>1. r \notin fresh
        BY <1>1, <1>b, <3>1, <3>3
      <4>2. ~SaveAnswer(r) /\ ~SaveCache(r)
        BY <1>0, <4>1 DEF SaveAnswer, SaveCache
      <4>3. CASE Claim(r)
        BY <3>1, <3>3, <4>3 DEF Claim, records
      <4>4. CASE ~Claim(r)
        BY <3>1, <4>2, <4>4, RecordsStay
      <4>5. QED BY <4>3, <4>4
    <3>4. QED BY <3>2, <3>3
  <2>3. QED BY <1>0, <2>1, <2>2
<1>2. Good(r)'
  <2>0. /\ r \in fresh => KeyOf(r) \in Keys /\ stage[r] \notin Guarding
        /\ r \in fresh /\ stage[r] = "report" => answer[KeyOf(r)] = "in_progress"
        /\ outcome[r] = "created" => booked[r] # "none"
        /\ stage[r] = "report" => outcome[r] \in Outcomes
        /\ saving[r] # "none" => KeyOf(r) \in Keys
    BY <1>0, <1>a DEF ClaimKept, GuardKept, OutcomeKept, TypeOK, Handling, InTx
  <2> USE <1>0, <2>0, AskedStays DEF TypeOK, Goes, Tells, CameTo, records, locks, talk,
        Guarding, Handling, InTx, Outcomes
  <2>1. CASE GuardStep(r)
    BY <2>1 DEF GuardStep, Unguarded, ReadCache, MissCache, Look, Claim, ClaimForbidden, Poll,
       GiveUp
  <2>2. CASE CheckFarmer(r) \/ Refuse(r) \/ Locked(r) \/ LockFarmer(r) \/ LockSlot(r)
    BY <2>2 DEF CheckFarmer, Refuse, Locked, LockFarmer, LockSlot, Acquires
  <2>3. CASE Insert(r) \/ Commit(r) \/ CommitUnknown(r) \/ Abort(r)
    BY <2>3 DEF Insert, Commit, CommitUnknown, Abort
  <2>4. CASE ReleaseSlot(r) \/ ReleaseFarmer(r) \/ Report(r)
    BY <2>4 DEF ReleaseSlot, ReleaseFarmer, Releases, Report
  <2>5. CASE SaveStep(r)
    BY <2>5 DEF SaveStep, SaveAnswer, SaveFails, SaveCache
  <2>6. CASE CutShort(r) \/ Meanwhile(r)
    BY <2>6 DEF CutShort, Timeout, HangUp, Die, Meanwhile, BookingLeaves, BookingReturns, Active
  <2>7. QED BY <2>1, <2>2, <2>3, <2>4, <2>5, <2>6 DEF RequestStep, HandlerStep
<1>3. QED BY <1>1, <1>2 DEF SavingKept

\* Only the claimant stores "created", and it has booked.
LEMMA StoredStepKeeps ==
  ASSUME TypeOK, ClaimKept, SavingKept, StoredKept, asked' = asked,
         NEW r \in Requests, RequestStep(r)
  PROVE  StoredKept'
<1> SUFFICES ASSUME NEW k \in Keys, answer'[k] = "created"
             PROVE  \E q \in fresh' : KeyOf(q)' = k /\ booked'[q] # "none"
  BY DEF StoredKept
<1>0. fresh \subseteq Requests
  BY DEF TypeOK
<1>1. ASSUME NEW q \in fresh, KeyOf(q) = k, booked[q] # "none"
      PROVE  \E p \in fresh' : KeyOf(p)' = k /\ booked'[p] # "none"
  BY <1>0, <1>1, MadeStays, AskedStays
<1>2. CASE answer[k] = "created"
  BY <1>1, <1>2 DEF StoredKept
<1>3. CASE answer[k] # "created"
  <2>1. k = KeyOf(r) /\ (Claim(r) \/ SaveAnswer(r) \/ SaveCache(r))
    BY <1>3, RecordsStay
  <2>2. ~Claim(r)
    BY <1>3, <2>1 DEF TypeOK, Claim, records
  <2>3. ~SaveCache(r)
    BY <1>3 DEF SaveCache, records
  <2>4. saving[r] = "record" /\ sent[r] = "created"
    BY <1>3, <2>1, <2>2, <2>3 DEF TypeOK, SaveAnswer
  <2>5. r \in fresh /\ booked[r] # "none"
    BY <2>4 DEF SavingKept
  <2>6. QED BY <1>1, <2>1, <2>5
<1>4. QED BY <1>2, <1>3

\* Whoever is told a stored "created" has the claimant's booking.
LEMMA StoredIsBooked ==
  ASSUME TypeOK, ClaimKept, StoredKept, NEW r \in Requests, KeyOf(r) \in Keys,
         answer[KeyOf(r)] = "created", hash[KeyOf(r)] = SlotOf(r)
  PROVE  \E q \in Requests : SameKey(q, r) /\ booked[q] # "none" /\ SlotOf(q) = SlotOf(r)
<1>1. PICK q \in fresh : KeyOf(q) = KeyOf(r) /\ booked[q] # "none"
  BY DEF StoredKept
<1>2. hash[KeyOf(q)] = SlotOf(q) /\ q \in Requests
  BY DEF ClaimKept, TypeOK
<1>3. QED BY <1>1, <1>2, NoneIsNone DEF SameKey

\* "created" is sent by the handler that booked, or from what is stored.
LEMMA CreatedStepKeeps ==
  ASSUME TypeOK, GuardKept, ClaimKept, OutcomeKept, StoredKept, CacheAgrees, CreatedIsBooked,
         asked' = asked, NEW r \in Requests, RequestStep(r)
  PROVE  CreatedIsBooked'
<1> DEFINE Fine(t) == \E q \in Requests : /\ q = t \/ SameKey(q, t)
                                          /\ booked[q] # "none"
                                          /\ SlotOf(q) = SlotOf(t)
<1>1. ASSUME NEW t \in Requests, Fine(t) PROVE Fine(t)'
  BY <1>1, MadeStays, AskedStays DEF SameKey
<1>2. ASSUME NEW t \in Requests, sent'[t] = "created", t # r PROVE Fine(t)'
  BY <1>1, <1>2, OthersStay DEF CreatedIsBooked
<1>3. ASSUME sent'[r] = "created" PROVE Fine(r)'
  <2>1. CASE sent[r] = "created"
    BY <1>1, <2>1 DEF CreatedIsBooked
  <2>2. CASE sent[r] # "created" /\ GuardStep(r)
    <3>0. KeyOf(r) \in Keys \cup {None}
      BY Asked
    <3>1. /\ ReadCache(r) \/ Look(r) \/ Poll(r)
          /\ KeyOf(r) # None
      BY <1>3, <2>2 DEF TypeOK, GuardKept, Guarding, Goes, Tells, talk, GuardStep, Unguarded,
         ReadCache, MissCache, Look,
         Claim, ClaimForbidden, Poll, GiveUp
    <3>2. answer[KeyOf(r)] = "created" /\ hash[KeyOf(r)] = SlotOf(r)
      <4>1. CASE ReadCache(r)
        BY <1>3, <2>2, <3>0, <3>1, <4>1 DEF TypeOK, ReadCache, Hit, Tells, CacheAgrees
      <4>2. CASE Look(r)
        BY <1>3, <2>2, <4>2 DEF TypeOK, Look, Tells
      <4>3. CASE Poll(r)
        BY <1>3, <2>2, <4>3 DEF TypeOK, Poll, Tells
      <4>4. QED BY <3>1, <4>1, <4>2, <4>3
    <3>3. QED BY <1>1, <3>0, <3>1, <3>2, StoredIsBooked
  <2>3. CASE sent[r] # "created" /\ ~GuardStep(r)
    <3>1. Report(r)
      BY <1>3, <2>3 DEF RequestStep, HandlerStep, SaveStep, CutShort, TypeOK, Tells, talk,
         CheckFarmer,
         Refuse, Locked, LockFarmer, LockSlot, Acquires, Insert, Commit, CommitUnknown, Abort,
         ReleaseSlot, ReleaseFarmer, Releases, SaveAnswer, SaveFails, SaveCache, Timeout, HangUp,
         Die, Meanwhile, BookingLeaves, BookingReturns
    <3>2. outcome[r] = "created"
      BY <1>3, <2>3, <3>1 DEF Report, Tells, TypeOK
    <3>3. QED BY <1>1, <3>2 DEF OutcomeKept
  <2>4. QED BY <2>1, <2>2, <2>3
<1>4. QED BY <1>2, <1>3 DEF CreatedIsBooked

\* A record with an answer stays as it is.
LEMMA StoredStays ==
  ASSUME TypeOK, NEW r \in Requests, RequestStep(r), NEW k \in Keys, answer[k] \in Outcomes
  PROVE  answer'[k] = answer[k] /\ hash'[k] = hash[k]
<1>1. answer[k] # "absent" /\ answer[k] # "in_progress"
  BY DEF Outcomes
<1>2. CASE Claim(r) /\ k = KeyOf(r)
  BY <1>1, <1>2 DEF Claim, records
<1>3. CASE SaveAnswer(r) /\ k = KeyOf(r)
  BY <1>1, <1>3 DEF SaveAnswer, TypeOK
<1>4. CASE SaveCache(r)
  BY <1>4 DEF SaveCache, records
<1>5. QED BY <1>2, <1>3, <1>4, RecordsStay

\* Only a claimant caches, and what it caches is stored.
LEMMA CacheStepKeeps ==
  ASSUME TypeOK, ClaimKept, SavingKept, CacheAgrees, asked' = asked,
         NEW r \in Requests, RequestStep(r)
  PROVE  CacheAgrees'
<1> SUFFICES ASSUME NEW k \in Keys, cache'[k].answer # "absent"
             PROVE  cache'[k].answer = answer'[k] /\ cache'[k].hash = hash'[k]
  BY DEF CacheAgrees
<1>1. CASE SaveCache(r) /\ k = KeyOf(r)
  <2>1. /\ saving[r] = "cache"
        /\ cache' = [cache EXCEPT ![k] = [hash |-> SlotOf(r), answer |-> sent[r]]]
        /\ answer' = answer /\ hash' = hash
    BY <1>1 DEF SaveCache, records
  <2>2. r \in fresh /\ answer[k] = sent[r]
    BY <1>1, <2>1 DEF SavingKept
  <2>3. hash[k] = SlotOf(r)
    BY <1>1, <2>2 DEF ClaimKept
  <2>4. QED BY <2>1, <2>2, <2>3 DEF TypeOK
<1>2. CASE ~(SaveCache(r) /\ k = KeyOf(r))
  <2>1. cache'[k] = cache[k]
    <3>1. CASE SaveCache(r)
      BY <1>2, <3>1, RecordsStay
    <3>2. CASE Claim(r)
      BY <3>2 DEF Claim
    <3>3. CASE SaveAnswer(r)
      BY <3>3 DEF SaveAnswer
    <3>4. QED BY <3>1, <3>2, <3>3, RecordsStay
  <2>2. cache[k].answer = answer[k] /\ cache[k].hash = hash[k] /\ answer[k] \in Outcomes
    BY <2>1 DEF CacheAgrees, TypeOK
  <2>3. QED BY <2>1, <2>2, StoredStays
<1>3. QED BY <1>1, <1>2

-----------------------------------------------------------------------------
\* Only the claimant's SaveAnswer gives a record its answer.
LEMMA StoredBy ==
  ASSUME TypeOK, NEW r \in Requests, RequestStep(r), NEW k \in Keys,
         answer[k] \notin Outcomes, answer'[k] \in Outcomes
  PROVE  SaveAnswer(r) /\ KeyOf(r) = k
<1>1. k = KeyOf(r) /\ (Claim(r) \/ SaveAnswer(r) \/ SaveCache(r))
  BY RecordsStay
<1>2. ~Claim(r)
  BY <1>1 DEF TypeOK, Claim, Outcomes, records
<1>3. ~SaveCache(r)
  BY DEF SaveCache, records
<1>4. QED BY <1>1, <1>2, <1>3

\* An answer reaches a client from what is stored for its key and body, or from its
\* own handler.
LEMMA HeardFrom ==
  ASSUME TypeOK, GuardKept, CacheAgrees, NEW r \in Requests, RequestStep(r),
         sent[r] \notin Outcomes, sent'[r] \in Outcomes
  PROVE  /\ sent[r] = "none"
         /\ sent' = [sent EXCEPT ![r] = sent'[r]]
         /\ UNCHANGED <<records, booked>>
         /\ \/ /\ KeyOf(r) \in Keys
               /\ answer[KeyOf(r)] = sent'[r]
               /\ hash[KeyOf(r)] = SlotOf(r)
            \/ Report(r) /\ sent'[r] \in {outcome[r]} \cup {c \in {"error"} : outcome[r] = "created"}
<1>0. KeyOf(r) \in Keys \cup {None}
  BY Asked
<1>1. sent[r] = "none"
  BY MadeStays
<1>2. CASE GuardStep(r)
  <2>1. /\ ReadCache(r) \/ Look(r) \/ Poll(r)
        /\ KeyOf(r) # None
    BY <1>2 DEF TypeOK, GuardKept, Guarding, Goes, Tells, talk, GuardStep, Unguarded, ReadCache,
       MissCache, Look, Claim, ClaimForbidden, Poll, GiveUp, Outcomes
  <2>2. /\ sent' = [sent EXCEPT ![r] = sent'[r]]
        /\ UNCHANGED <<records, booked>>
    BY <2>1 DEF TypeOK, ReadCache, Look, Poll, Tells
  <2>3. answer[KeyOf(r)] = sent'[r] /\ hash[KeyOf(r)] = SlotOf(r)
    <3>1. CASE ReadCache(r)
      BY <1>0, <1>1, <2>1, <3>1 DEF TypeOK, ReadCache, Hit, Tells, CacheAgrees
    <3>2. CASE Look(r)
      BY <1>1, <3>2 DEF TypeOK, Look, Tells, Outcomes
    <3>3. CASE Poll(r)
      BY <1>1, <3>3 DEF TypeOK, Poll, Tells
    <3>4. QED BY <2>1, <3>1, <3>2, <3>3
  <2>4. QED BY <1>0, <1>1, <2>1, <2>2, <2>3
<1>3. CASE ~GuardStep(r)
  <2>1. Report(r)
    BY <1>3 DEF RequestStep, HandlerStep, SaveStep, CutShort, TypeOK, Tells, talk, Outcomes,
       CheckFarmer, Refuse, Locked, LockFarmer, LockSlot, Acquires, Insert, Commit,
       CommitUnknown, Abort, ReleaseSlot, ReleaseFarmer, Releases, SaveAnswer, SaveFails,
       SaveCache, Timeout, HangUp, Die, Meanwhile, BookingLeaves, BookingReturns
  <2>2. PICK told \in {outcome[r]} \cup {c \in {"error"} : outcome[r] = "created"} : Tells(r, told)
    BY <2>1 DEF Report
  <2>3. sent' = [sent EXCEPT ![r] = sent'[r]] /\ sent'[r] = told
    BY <1>1, <2>2 DEF Tells, TypeOK
  <2>4. UNCHANGED <<records, booked>>
    BY <2>1 DEF Report
  <2>5. QED BY <1>1, <2>1, <2>2, <2>3, <2>4
<1>4. QED BY <1>2, <1>3

\* A handler under way is a claimant's, whose record has no answer, or has no key.
LEMMA HandlerUnanswered ==
  ASSUME GuardKept, ClaimKept, NEW r \in Requests, stage[r] \in Handling, KeyOf(r) # None
  PROVE  r \in fresh /\ answer[KeyOf(r)] = "in_progress" /\ answer[KeyOf(r)] \notin Outcomes
BY DEF GuardKept, ClaimKept, Outcomes

\* What is heard of a key is what is stored for it.
LEMMA ToldStepKeeps ==
  ASSUME TypeOK, GuardKept, ClaimKept, SavingKept, ToldKept, CacheAgrees, asked' = asked,
         NEW r \in Requests, RequestStep(r)
  PROVE  ToldKept'
<1> SUFFICES ASSUME NEW q \in Requests, KeyOf(q) # None, sent'[q] \in Outcomes
             PROVE  /\ q \notin fresh' => answer'[KeyOf(q)] \in Outcomes
                    /\ answer'[KeyOf(q)] \in Outcomes => sent'[q] = answer'[KeyOf(q)]
  BY AskedStays DEF ToldKept
<1>0. KeyOf(q) \in Keys
  BY Asked
<1>1. CASE sent[q] \in Outcomes
  <2>1. sent'[q] = sent[q]
    BY <1>1, MadeStays DEF Outcomes
  <2>2. q \notin fresh => answer[KeyOf(q)] \in Outcomes
    BY <1>1 DEF ToldKept
  <2>3. answer[KeyOf(q)] \in Outcomes => sent[q] = answer[KeyOf(q)]
    BY <1>1 DEF ToldKept
  <2>4. CASE answer[KeyOf(q)] \in Outcomes
    BY <1>0, <2>1, <2>3, <2>4, StoredStays
  <2>5. CASE answer[KeyOf(q)] \notin Outcomes
    <3>1. q \in fresh /\ q \in fresh'
      BY <2>2, <2>5, MadeStays
    <3>2. ASSUME answer'[KeyOf(q)] \in Outcomes PROVE sent[q] = answer'[KeyOf(q)]
      <4>1. SaveAnswer(r) /\ KeyOf(r) = KeyOf(q)
        BY <1>0, <2>5, <3>2, StoredBy
      <4>2. saving[r] = "record" /\ r \in fresh
        BY <4>1 DEF SaveAnswer, SavingKept
      <4>3. r = q
        BY <3>1, <4>1, <4>2 DEF ClaimKept
      <4>4. answer[KeyOf(q)] = "in_progress"
        BY <4>2, <4>3 DEF SavingKept
      <4>5. QED BY <1>0, <4>1, <4>3, <4>4 DEF SaveAnswer, TypeOK
    <3>3. QED BY <2>1, <3>1, <3>2
  <2>6. QED BY <2>4, <2>5
<1>2. CASE sent[q] \notin Outcomes
  <2>1. q = r
    BY <1>2, OthersStay
  <2>2. CASE Report(r)
    <3>1. r \in fresh /\ answer[KeyOf(r)] \notin Outcomes
      BY <2>1, <2>2, HandlerUnanswered DEF Report, Handling
    <3>2. answer' = answer /\ fresh' = fresh
      BY <2>2 DEF Report, records
    <3>3. QED BY <2>1, <3>1, <3>2
  <2>3. CASE ~Report(r)
    BY <1>2, <2>1, <2>3, HeardFrom DEF records
  <2>4. QED BY <2>2, <2>3
<1>3. QED BY <1>1, <1>2

-----------------------------------------------------------------------------
\* A lock that is held is neither acquired nor released by another request.
LEMMA LocksStepKeeps ==
  ASSUME TypeOK, LocksKept, asked' = asked, NEW r \in Requests, RequestStep(r)
  PROVE  LocksKept'
<1> DEFINE Holds(q) ==
      /\ stage[q] \in {"lockSlot", "tx", "commit", "freeSlot", "freeFarmer"} =>
           lock[FarmerOf(q)] = q
      /\ stage[q] \in {"tx", "commit", "freeSlot"} => lock[SlotOf(q)] = q
<1>0. \A q \in Requests : q \notin lapsed => Holds(q)
  BY DEF LocksKept
<1>a. \A q \in Requests : FarmerOf(q) \in Farmers /\ SlotOf(q) \in Slots /\ q # None
  BY Asked, NoneIsNone
<1>b. lapsed' = lapsed
  BY DEF locks, RequestStep, GuardStep, HandlerStep, SaveStep, CutShort, Unguarded, ReadCache,
     MissCache, Look, Claim, ClaimForbidden, Poll, GiveUp, CheckFarmer, Refuse, Locked, LockFarmer,
     LockSlot, Acquires, Insert, Commit, CommitUnknown, Abort, ReleaseSlot, ReleaseFarmer,
     Releases, Report, SaveAnswer, SaveFails, SaveCache, Timeout, HangUp, Die, Meanwhile, BookingLeaves, BookingReturns
<1>1. CASE LockFarmer(r) \/ LockSlot(r)
  <2>1. PICK n \in {FarmerOf(r), SlotOf(r)} :
          /\ lock[n] = None
          /\ lock' = [lock EXCEPT ![n] = r]
    BY <1>1 DEF LockFarmer, LockSlot, Acquires
  <2>2. ASSUME NEW q \in Requests, q \notin lapsed, q # r PROVE Holds(q)'
    BY <1>0, <1>a, <2>1, <2>2, OthersStay, AskedStays DEF TypeOK
  <2>3. ASSUME r \notin lapsed PROVE Holds(r)'
    BY <1>0, <1>1, <1>a, <2>3, AskedStays, NoneIsNone
       DEF TypeOK, LockFarmer, LockSlot, Acquires, Goes
  <2>4. QED BY <1>b, <2>2, <2>3 DEF LocksKept
<1>2. CASE ReleaseSlot(r) \/ ReleaseFarmer(r)
  <2>1. PICK n \in {FarmerOf(r), SlotOf(r)} :
          lock' = lock \/ lock' = [lock EXCEPT ![n] = IF @ = r THEN None ELSE @]
    BY <1>2 DEF ReleaseSlot, ReleaseFarmer, Releases
  <2>2. ASSUME NEW q \in Requests, q \notin lapsed, q # r PROVE Holds(q)'
    BY <1>0, <1>a, <2>1, <2>2, OthersStay, AskedStays DEF TypeOK
  <2>3. ASSUME r \notin lapsed PROVE Holds(r)'
    BY <1>0, <1>2, <1>a, <2>3, AskedStays, NoneIsNone
       DEF TypeOK, ReleaseSlot, ReleaseFarmer, Releases, Goes
  <2>4. QED BY <1>b, <2>2, <2>3 DEF LocksKept
<1>3. CASE ~(LockFarmer(r) \/ LockSlot(r) \/ ReleaseSlot(r) \/ ReleaseFarmer(r))
  <2>0. lock' = lock
    BY <1>3 DEF locks, RequestStep, GuardStep, HandlerStep, SaveStep, CutShort, Unguarded,
       ReadCache,
     MissCache, Look, Claim, ClaimForbidden, Poll, GiveUp, CheckFarmer, Refuse, Locked, Insert,
     Commit, CommitUnknown, Abort, Report, SaveAnswer, SaveFails, SaveCache, Timeout, HangUp, Die,
     Meanwhile, BookingLeaves, BookingReturns
  <2>1. /\ stage'[r] \in {"lockSlot", "tx", "commit", "freeSlot", "freeFarmer"} =>
             stage[r] \in {"lockSlot", "tx", "commit", "freeSlot", "freeFarmer"}
        /\ stage'[r] \in {"tx", "commit", "freeSlot"} => stage[r] \in {"tx", "commit", "freeSlot"}
    BY <1>3 DEF TypeOK, Goes, RequestStep, GuardStep, HandlerStep, SaveStep, CutShort, Unguarded,
     ReadCache, MissCache, Look, Claim, ClaimForbidden, Poll, GiveUp, CheckFarmer, Refuse, Locked,
     Insert, Commit, CommitUnknown, Abort, Report, SaveAnswer, SaveFails, SaveCache, Timeout,
     HangUp, Die, Meanwhile, BookingLeaves, BookingReturns
  <2>2. ASSUME NEW q \in Requests, q \notin lapsed PROVE Holds(q)'
    BY <1>0, <2>0, <2>1, <2>2, OthersStay, AskedStays
  <2>3. QED BY <1>b, <2>2 DEF LocksKept
<1>4. QED BY <1>1, <1>2, <1>3

\* A lock that runs out is gone for the request it ran out under.
LEMMA ExpiryKeeps ==
  ASSUME TypeOK, LocksKept, asked' = asked, NEW n \in Farmers \cup Slots, LockExpires(n)
  PROVE  TypeOK' /\ LocksKept'
<1>1. /\ lock[n] \in Requests
      /\ lapsed' = lapsed \cup {lock[n]}
      /\ lock' = [lock EXCEPT ![n] = None]
      /\ stage' = stage
  BY DEF LockExpires, TypeOK
<1>2. TypeOK'
  BY <1>1 DEF LockExpires, TypeOK, talk, records
<1>3. ASSUME NEW q \in Requests, q \notin lapsed'
      PROVE  /\ lock[FarmerOf(q)] = q => lock'[FarmerOf(q)'] = q
             /\ lock[SlotOf(q)] = q => lock'[SlotOf(q)'] = q
  BY <1>1, <1>3, Asked, AskedStays DEF TypeOK
<1>4. QED BY <1>1, <1>2, <1>3 DEF LocksKept

\* An insert comes to the commit only past the bookings and the inserts before it.
LEMMA ApartStepKeeps ==
  ASSUME TypeOK, InsertsApart, BookedApart, asked' = asked, NEW t \in Requests, RequestStep(t)
  PROVE  InsertsApart' /\ BookedApart'
<1> DEFINE Apart(q, r) == SlotOf(q) # SlotOf(r) /\ FarmerOf(q) # FarmerOf(r)
<1>1. stage'[t] = "commit" =>
        \/ stage[t] = "commit"
        \/ \A q \in Requests : stage[q] = "commit" \/ Active(q) => Apart(q, t)
  <2>1. CASE Insert(t)
    BY <2>1 DEF TypeOK, Insert, Goes, Conflicts, FarmerBusy, SlotBusy
  <2>2. CASE ~Insert(t)
    BY <2>2 DEF TypeOK, Goes, RequestStep, GuardStep, HandlerStep, SaveStep, CutShort, Unguarded,
       ReadCache, MissCache, Look, Claim, ClaimForbidden, Poll, GiveUp, CheckFarmer, Refuse,
       Locked, LockFarmer, LockSlot, Acquires, Commit, CommitUnknown, Abort, ReleaseSlot,
       ReleaseFarmer, Releases, Report, SaveAnswer, SaveFails, SaveCache, Timeout, HangUp, Die,
       Meanwhile, BookingLeaves, BookingReturns
  <2>3. QED BY <2>1, <2>2
<1>2. Active(t)' =>
        \/ Active(t)
        \/ stage[t] = "commit"
        \/ \A q \in Requests : stage[q] = "commit" \/ Active(q) => Apart(q, t)
  <2>1. CASE BookingReturns(t)
    BY <2>1 DEF BookingReturns, Conflicts, FarmerBusy, SlotBusy
  <2>2. CASE ~BookingReturns(t)
    BY <2>2 DEF TypeOK, Active, RequestStep, GuardStep, HandlerStep, SaveStep, CutShort, Unguarded,
       ReadCache, MissCache, Look, Claim, ClaimForbidden, Poll, GiveUp, CheckFarmer, Refuse,
       Locked, LockFarmer, LockSlot, Acquires, Insert, Commit, CommitUnknown, Abort, ReleaseSlot,
       ReleaseFarmer, Releases, Report, SaveAnswer, SaveFails, SaveCache, Timeout, HangUp, Die,
       Meanwhile, BookingLeaves
  <2>3. QED BY <2>1, <2>2
<1>3. \A q \in Requests : q # t => stage'[q] = stage[q] /\ (Active(q)' <=> Active(q))
  BY OthersStay DEF Active
<1>4. \A q, r : Apart(q, r)' <=> Apart(q, r)
  BY AskedStays
<1>5. \A q, r \in Requests :
        (q # r /\ stage[r] = "commit" /\ (stage[q] = "commit" \/ Active(q))) => Apart(q, r)
  BY DEF InsertsApart
<1>6. \A q, r \in Requests : (q # r /\ Active(q) /\ Active(r)) => Apart(q, r)
  BY DEF BookedApart
<1>7. ASSUME NEW q \in Requests, NEW r \in Requests, q # r, stage'[r] = "commit",
             stage'[q] = "commit" \/ Active(q)'
      PROVE  Apart(q, r)
  <2>1. CASE t = r
    BY <1>1, <1>3, <1>5, <1>7, <2>1
  <2>2. CASE t = q
    BY <1>1, <1>2, <1>3, <1>5, <1>7, <2>2
  <2>3. CASE t # q /\ t # r
    BY <1>3, <1>5, <1>7, <2>3
  <2>4. QED BY <2>1, <2>2, <2>3
<1>8. ASSUME NEW q \in Requests, NEW r \in Requests, q # r, Active(q)', Active(r)'
      PROVE  Apart(q, r)
  <2>1. CASE t = q
    BY <1>2, <1>3, <1>5, <1>6, <1>8, <2>1
  <2>2. CASE t = r
    BY <1>2, <1>3, <1>5, <1>6, <1>8, <2>2
  <2>3. CASE t # q /\ t # r
    BY <1>3, <1>6, <1>8, <2>3
  <2>4. QED BY <2>1, <2>2, <2>3
<1>9. InsertsApart'
  BY <1>4, <1>7 DEF InsertsApart
<1>10. BookedApart'
  BY <1>4, <1>8 DEF BookedApart
<1>11. QED BY <1>9, <1>10

-----------------------------------------------------------------------------
(***************************************************************************)
(* The invariant.                                                          *)
(***************************************************************************)

\* The initial states satisfy the invariant.
LEMMA InductiveInit == Init => Inductive
<1> SUFFICES ASSUME Init PROVE Inductive
  OBVIOUS
<1>1. TypeOK
  BY TypeInit
<1>2. GuardKept /\ ClaimKept /\ OutcomeKept /\ SavingKept
  BY DEF Init, GuardKept, Guarding, Handling, InTx, ClaimKept, OutcomeKept, Untried, SavingKept,
     Outcomes
<1>3. ToldKept /\ StoredKept /\ CreatedIsBooked /\ CacheAgrees
  BY DEF Init, ToldKept, StoredKept, CreatedIsBooked, CacheAgrees, Outcomes
<1>4. LocksKept /\ InsertsApart /\ BookedApart
  BY DEF Init, LocksKept, InsertsApart, BookedApart, Active
<1>5. QED BY <1>1, <1>2, <1>3, <1>4 DEF Inductive

\* Every step keeps the invariant.
LEMMA InductiveStep == Inductive /\ [Next]_vars => Inductive'
<1> SUFFICES ASSUME Inductive, [Next]_vars PROVE Inductive'
  OBVIOUS
<1> USE DEF Inductive
<1>1. asked' = asked
  BY StepCases
<1>2. CASE \E r \in Requests : RequestStep(r)
  <2>1. PICK r \in Requests : RequestStep(r)
    BY <1>2
  <2>2. TypeOK'
    BY <1>1, <2>1, GuardType, HandlerType, OtherType DEF RequestStep
  <2>3. GuardKept' /\ OutcomeKept'
    BY <1>1, <2>1, GuardStepKeeps, OutcomeStepKeeps
  <2>4. ClaimKept' /\ SavingKept'
    BY <1>1, <2>1, ClaimStepKeeps, SavingStepKeeps
  <2>5. ToldKept' /\ StoredKept' /\ CreatedIsBooked' /\ CacheAgrees'
    BY <1>1, <2>1, ToldStepKeeps, StoredStepKeeps, CreatedStepKeeps, CacheStepKeeps
  <2>6. LocksKept' /\ InsertsApart' /\ BookedApart'
    BY <1>1, <2>1, LocksStepKeeps, ApartStepKeeps
  <2>7. QED BY <2>2, <2>3, <2>4, <2>5, <2>6
<1>3. CASE \E n \in Farmers \cup Slots : LockExpires(n)
  <2>1. PICK n \in Farmers \cup Slots : LockExpires(n)
    BY <1>3
  <2>2. TypeOK' /\ LocksKept'
    BY <1>1, <2>1, ExpiryKeeps
  <2>3. UNCHANGED <<stage, fresh, outcome, talk, records, cache, booked>>
    BY <2>1 DEF LockExpires
  <2>4. GuardKept' /\ ClaimKept' /\ OutcomeKept' /\ SavingKept'
    BY <1>1, <2>3, AskedStays DEF GuardKept, ClaimKept, OutcomeKept, SavingKept, talk, records
  <2>5. ToldKept' /\ StoredKept' /\ CreatedIsBooked' /\ CacheAgrees'
    BY <1>1, <2>3, AskedStays DEF ToldKept, StoredKept, CreatedIsBooked, SameKey, CacheAgrees, talk, records
  <2>6. InsertsApart' /\ BookedApart'
    BY <1>1, <2>3, AskedStays DEF InsertsApart, BookedApart, Active
  <2>7. QED BY <2>2, <2>4, <2>5, <2>6
<1>4. CASE UNCHANGED vars
  <2>1. UNCHANGED <<stage, fresh, outcome, sent, saving, cancelled, answer, hash, cache, lock,
                    lapsed, booked>>
    BY <1>4 DEF vars, talk, records, locks
  <2>2. TypeOK' /\ LocksKept'
    BY <1>1, <2>1, AskedStays DEF TypeOK, LocksKept
  <2>3. GuardKept' /\ ClaimKept' /\ OutcomeKept' /\ SavingKept'
    BY <1>1, <2>1, AskedStays DEF GuardKept, ClaimKept, OutcomeKept, SavingKept
  <2>4. ToldKept' /\ StoredKept' /\ CreatedIsBooked' /\ CacheAgrees'
    BY <1>1, <2>1, AskedStays DEF ToldKept, StoredKept, CreatedIsBooked, SameKey, CacheAgrees
  <2>5. InsertsApart' /\ BookedApart'
    BY <1>1, <2>1, AskedStays DEF InsertsApart, BookedApart, Active
  <2>6. QED BY <2>2, <2>3, <2>4, <2>5
<1>5. QED BY <1>2, <1>3, <1>4, StepCases

\* Who books under a key is its claimant, and a key has one.
LEMMA InductiveOncePerKey == Inductive => OncePerKey
<1> SUFFICES ASSUME Inductive, NEW q \in Requests, NEW r \in Requests, SameKey(q, r), q # r
             PROVE  /\ ~(q \in fresh /\ r \in fresh)
                    /\ booked[r] # "none" => q \notin fresh /\ booked[q] = "none"
  BY DEF OncePerKey
<1>1. ~(q \in fresh /\ r \in fresh)
  BY DEF Inductive, ClaimKept, SameKey
<1>2. \A p \in {q, r} : booked[p] # "none" => p \in fresh
  BY DEF Inductive, GuardKept, SameKey
<1>3. QED BY <1>1, <1>2

\* A lock is held by one request.
LEMMA InductiveLocksExclude == Inductive => LocksExclude
BY DEF Inductive, LocksKept, LocksExclude

\* A refusal is an outcome without a booking.
LEMMA InductiveRefused == Inductive => RefusedIsNotBooked
BY DEF Inductive, OutcomeKept, RefusedIsNotBooked

-----------------------------------------------------------------------------
(***************************************************************************)
(* BookingRequest implements Reservation.                                  *)
(***************************************************************************)

\* Two pairs of different kinds meet in one kind or the other.
LEMMA PairsMeet ==
  ASSUME NEW a, NEW b, NEW c, NEW d, a # d, b # c
  PROVE  ({a, b} \cap {c, d} = {}) <=> (a # c /\ b # d)
OBVIOUS

\* Two requests that want different farmers and slots have nothing in common.
LEMMA NeedsApart ==
  ASSUME NEW q \in Requests, NEW r \in Requests
  PROVE  (Needs[q] \cap Needs[r] = {}) <=> (SlotOf(q) # SlotOf(r) /\ FarmerOf(q) # FarmerOf(r))
<1> DEFINE farmer(t) == <<"farmer", FarmerOf(t)>>
           slot(t) == <<"slot", SlotOf(t)>>
<1>1. farmer(q) # slot(r) /\ slot(q) # farmer(r)
  OBVIOUS
<1>2. (farmer(q) = farmer(r)) <=> (FarmerOf(q) = FarmerOf(r))
  OBVIOUS
<1>3. (slot(q) = slot(r)) <=> (SlotOf(q) = SlotOf(r))
  OBVIOUS
<1>4. Needs[q] = {farmer(q), slot(q)} /\ Needs[r] = {farmer(r), slot(r)}
  BY DEF Needs
<1> HIDE DEF farmer, slot
<1>5. QED BY <1>1, <1>2, <1>3, <1>4, PairsMeet

\* A step makes a booking that the invariant keeps apart, sets one aside, lets one
\* return, or leaves all bookings alone.
LEMMA ReservationStep == Inductive /\ Inductive' /\ [Next]_vars => [Reserved!Next]_(Reserved!vars)
<1> SUFFICES ASSUME Inductive, Inductive', [Next]_vars
             PROVE  [Reserved!Next]_(Reserved!vars)
  OBVIOUS
<1>0. booked \in [Requests -> {"none", "active", "aside"}]
  BY DEF Inductive, TypeOK
<1>1. Needs' = Needs
  BY StepCases, AskedStays DEF Needs
<1>2. ASSUME NEW r \in Requests, Active(r)', booked' = [booked EXCEPT ![r] = "active"]
      PROVE  \A o \in Requests \ {r} : booked[o] = "active" => Needs[o] \cap Needs[r] = {}
  <2>1. \A o \in Requests \ {r} : booked[o] = "active" => Active(o)'
    BY <1>0, <1>2 DEF Active
  <2>2. \A o \in Requests \ {r} : Active(o)' => SlotOf(o)' # SlotOf(r)' /\ FarmerOf(o)' # FarmerOf(r)'
    BY <1>2 DEF Inductive, BookedApart
  <2>3. \A o \in Requests \ {r} : Active(o)' => SlotOf(o) # SlotOf(r) /\ FarmerOf(o) # FarmerOf(r)
    BY <2>2, StepCases, AskedStays
  <2>4. QED BY <2>1, <2>3, NeedsApart
<1>3. CASE \E r \in Requests : RequestStep(r)
  <2>1. PICK r \in Requests : RequestStep(r)
    BY <1>3
  <2>2. CASE Commit(r) \/ CommitUnknown(r)
    <3>1. booked[r] = "none" /\ booked' = [booked EXCEPT ![r] = "active"]
      BY <2>2 DEF Commit, CommitUnknown, Inductive, OutcomeKept, Untried
    <3>2. Active(r)'
      BY <1>0, <3>1 DEF Active
    <3>3. Reserved!Make(r)
      BY <1>1, <1>2, <3>1, <3>2 DEF Reserved!Make, Reserved!Moves, Reserved!Vacant
    <3>4. QED BY <3>3 DEF Reserved!Next
  <2>3. CASE BookingLeaves(r)
    BY <1>1, <2>3 DEF BookingLeaves, Active, Reserved!SetAside, Reserved!Moves, Reserved!Next
  <2>4. CASE BookingReturns(r)
    <3>1. booked[r] = "aside" /\ booked' = [booked EXCEPT ![r] = "active"]
      BY <2>4 DEF BookingReturns
    <3>2. Active(r)'
      BY <1>0, <3>1 DEF Active
    <3>3. Reserved!Return(r)
      BY <1>1, <1>2, <3>1, <3>2 DEF Reserved!Return, Reserved!Moves, Reserved!Vacant
    <3>4. QED BY <3>3 DEF Reserved!Next
  <2>5. CASE ~(Commit(r) \/ CommitUnknown(r) \/ Meanwhile(r))
    <3>1. booked' = booked
      BY <2>1, <2>5 DEF RequestStep, GuardStep, HandlerStep, SaveStep, CutShort, Unguarded,
         ReadCache, MissCache, Look, Claim, ClaimForbidden, Poll, GiveUp, CheckFarmer, Refuse,
         Locked, LockFarmer, LockSlot, Acquires, Insert, Abort, ReleaseSlot, ReleaseFarmer,
         Releases, Report, SaveAnswer, SaveFails, SaveCache, Timeout, HangUp, Die
    <3>2. QED BY <1>1, <3>1 DEF Reserved!vars
  <2>6. QED BY <2>2, <2>3, <2>4, <2>5 DEF Meanwhile
<1>4. CASE (\E n \in Farmers \cup Slots : LockExpires(n)) \/ UNCHANGED vars
  <2>1. booked' = booked
    BY <1>4 DEF LockExpires, vars
  <2>2. QED BY <1>1, <2>1 DEF Reserved!vars
<1>5. QED BY <1>3, <1>4, StepCases

-----------------------------------------------------------------------------
(***************************************************************************)
(* BookingRequest implements OnceOnly.                                     *)
(***************************************************************************)

\* What a request asks for, as module OnceOnly sees it, does not change.
LEMMA AsksStay ==
  ASSUME asked' = asked
  PROVE  /\ [r \in Requests |-> KeyOf(r)]' = [r \in Requests |-> KeyOf(r)]
         /\ [r \in Requests |-> SlotOf(r)]' = [r \in Requests |-> SlotOf(r)]
BY AskedStays

\* What was told stays told.
LEMMA ToldSame ==
  ASSUME TypeOK, NEW r \in Requests, RequestStep(r),
         sent[r] \in Outcomes \/ sent'[r] \notin Outcomes
  PROVE  Told' = Told
<1>1. ASSUME NEW q \in Requests
      PROVE  \/ sent'[q] = sent[q]
             \/ sent[q] \notin Outcomes /\ sent'[q] \notin Outcomes
  <2>1. CASE q = r
    BY <2>1, MadeStays DEF Outcomes
  <2>2. CASE q # r
    BY <2>2, OthersStay
  <2>3. QED BY <2>1, <2>2
<1>2. QED BY <1>1 DEF Told

\* Only a commit carries a request out.
LEMMA DoneSame ==
  ASSUME TypeOK, NEW r \in Requests, RequestStep(r), ~(Commit(r) \/ CommitUnknown(r))
  PROVE  Done' = Done
<1>1. booked'[r] # "none" <=> booked[r] # "none"
  BY DEF TypeOK, RequestStep, GuardStep, HandlerStep, SaveStep, CutShort, Unguarded, ReadCache,
     MissCache, Look, Claim, ClaimForbidden, Poll, GiveUp, CheckFarmer, Refuse, Locked,
     LockFarmer, LockSlot, Acquires, Insert, Abort, ReleaseSlot, ReleaseFarmer, Releases, Report,
     SaveAnswer, SaveFails, SaveCache, Timeout, HangUp, Die, Meanwhile, BookingLeaves,
     BookingReturns, Active
<1>2. \A q \in Requests : booked'[q] # "none" <=> booked[q] # "none"
  BY <1>1, OthersStay
<1>3. QED BY <1>2 DEF Done

\* Only SaveAnswer stores an answer.
LEMMA StoredSame ==
  ASSUME TypeOK, NEW r \in Requests, RequestStep(r), ~SaveAnswer(r)
  PROVE  Stored' = Stored
<1>1. ASSUME NEW k \in Keys
      PROVE  \/ answer'[k] = answer[k] /\ hash'[k] = hash[k]
             \/ answer[k] \notin Outcomes /\ answer'[k] \notin Outcomes
  BY StoredStays, StoredBy
<1>2. QED BY <1>1 DEF Stored

\* While a handler is at work nobody with its key has heard an answer, and nobody but
\* itself has booked.
LEMMA FirstOfItsKey ==
  ASSUME Inductive, NEW r \in Requests, stage[r] \in Handling
  PROVE  /\ Answered!Unanswered(r)
         /\ booked[r] = "none" => Answered!Same(r) \cap Done = {}
<1> USE DEF Inductive
<1>1. sent[r] \notin Outcomes
  <2>1. stage[r] \notin {"end", "dead"}
    BY DEF Handling, InTx
  <2>2. QED BY <2>1 DEF SavingKept
<1>2. ASSUME NEW q \in Requests, q # r, KeyOf(q) = KeyOf(r), KeyOf(r) # None
      PROVE  sent[q] \notin Outcomes /\ booked[q] = "none"
  <2>1. r \in fresh /\ answer[KeyOf(r)] \notin Outcomes
    BY <1>2, HandlerUnanswered
  <2>2. q \notin fresh
    BY <1>2, <2>1 DEF ClaimKept
  <2>3. QED BY <1>2, <2>1, <2>2 DEF ToldKept, GuardKept
<1>3. Answered!Unanswered(r)
  BY <1>1, <1>2 DEF Answered!Unanswered, Answered!Same, Told
<1>4. booked[r] = "none" => Answered!Same(r) \cap Done = {}
  BY <1>2 DEF Answered!Same, Done
<1>5. QED BY <1>3, <1>4

\* A commit is the one time that the request of a key is carried out.
LEMMA CommitCarriesOut ==
  ASSUME Inductive, asked' = asked, NEW r \in Requests, RequestStep(r), Commit(r) \/ CommitUnknown(r)
  PROVE  Answered!CarryOut(r)
<1>1. stage[r] \in Handling /\ booked[r] = "none"
  BY DEF Commit, CommitUnknown, Inductive, OutcomeKept, Untried, Handling, InTx
<1>2. Done' = Done \cup {r}
  BY DEF Commit, CommitUnknown, Inductive, TypeOK, Done
<1>3. r \notin Done
  BY <1>1 DEF Done
<1>4. sent' = sent /\ ~SaveAnswer(r)
  BY DEF Commit, CommitUnknown, SaveAnswer, Inductive, SavingKept, talk
<1>5. Told' = Told /\ Stored' = Stored
  BY <1>4, StoredSame DEF Told, Inductive
<1>6. QED BY <1>1, <1>2, <1>3, <1>5, FirstOfItsKey, AsksStay DEF Answered!CarryOut, Answered!asks

\* What a request is newly told is its own answer, the first of its key, or the stored one.
LEMMA TellingAnswers ==
  ASSUME Inductive, asked' = asked, NEW r \in Requests, RequestStep(r),
         sent[r] \notin Outcomes, sent'[r] \in Outcomes
  PROVE  Answered!Answer(r) \/ Answered!Repeat(r)
<1> USE DEF Inductive
<1>1. Told[r] = "nothing" /\ Told'[r] = sent'[r] /\ Told' = [Told EXCEPT ![r] = sent'[r]]
  <2>1. sent' = [sent EXCEPT ![r] = sent'[r]]
    BY HeardFrom
  <2>2. \A q \in Requests : q # r => sent'[q] = sent[q]
    BY <2>1 DEF TypeOK
  <2>3. QED BY <2>2 DEF Told
<1>2. Done' = Done /\ Stored' = Stored
  <2>1. UNCHANGED <<answer, hash, booked>>
    BY HeardFrom DEF records
  <2>2. QED BY <2>1 DEF Done, Stored
<1>3. UNCHANGED Answered!asks
  BY AsksStay DEF Answered!asks
<1>4. CASE KeyOf(r) \in Keys /\ answer[KeyOf(r)] = sent'[r] /\ hash[KeyOf(r)] = SlotOf(r)
  <2>1. Stored[KeyOf(r)].body = SlotOf(r) /\ Stored[KeyOf(r)].answer = sent'[r]
    BY <1>4 DEF Stored
  <2>2. KeyOf(r) # None
    BY <1>4, NoneIsNone
  <2>3. sent'[r] \in Answered!Answers
    BY DEF Outcomes, Answered!Answers
  <2>4. Told' = [Told EXCEPT ![r] = Stored[KeyOf(r)].answer]
    BY <1>1, <2>1
  <2>. HIDE DEF Inductive
  <2>5. Answered!Repeat(r)
    BY <1>1, <1>2, <1>3, <2>1, <2>2, <2>3, <2>4 DEF Answered!Repeat
  <2>6. QED BY <2>5
<1>5. CASE Report(r) /\ sent'[r] \in {outcome[r]} \cup {c \in {"error"} : outcome[r] = "created"}
  <2>1. stage[r] \in Handling
    BY <1>5 DEF Report, Handling
  <2>2. Answered!Unanswered(r)
    BY <2>1, FirstOfItsKey
  <2>3. sent'[r] = "created" => r \in Done
    BY <1>5 DEF OutcomeKept, Done
  <2>4. sent'[r] = "refused" => Answered!Same(r) \cap Done = {}
    BY <1>5, <2>1, FirstOfItsKey DEF OutcomeKept
  <2>5. sent'[r] \in Answered!Answers
    BY DEF Outcomes, Answered!Answers
  <2>6. Answered!Answer(r)
    BY <1>1, <1>2, <1>3, <2>2, <2>3, <2>4, <2>5 DEF Answered!Answer
  <2>7. QED BY <2>6
<1>6. QED BY <1>4, <1>5, HeardFrom

\* The claimant stores what it was told, once.
LEMMA SavingKeeps ==
  ASSUME Inductive, asked' = asked, NEW r \in Requests, RequestStep(r), SaveAnswer(r)
  PROVE  Answered!Keep(r)
<1> USE DEF Inductive
<1>1. r \in fresh /\ sent[r] \in Outcomes /\ answer[KeyOf(r)] = "in_progress"
  BY DEF SaveAnswer, SavingKept
<1>2. KeyOf(r) \in Keys /\ hash[KeyOf(r)] = SlotOf(r)
  BY <1>1 DEF ClaimKept
<1>3. KeyOf(r) # None
  BY <1>2, NoneIsNone
<1>4. Stored[KeyOf(r)] = Answered!NotKept
  BY <1>1, <1>2 DEF Stored, Answered!NotKept, Outcomes
<1>5. Stored' = [Stored EXCEPT ![KeyOf(r)] = [body |-> SlotOf(r), answer |-> sent[r]]]
  <2>1. answer' = [answer EXCEPT ![KeyOf(r)] = sent[r]] /\ hash' = hash
    BY <1>1, <1>2 DEF SaveAnswer, TypeOK
  <2>2. \A k \in Keys : answer'[k] = IF k = KeyOf(r) THEN sent[r] ELSE answer[k]
    BY <2>1 DEF TypeOK
  <2>3. QED BY <1>1, <1>2, <2>1, <2>2 DEF Stored
<1>6. Told[r] = sent[r] /\ Told[r] \in Answered!Answers
  BY <1>1 DEF Told, Outcomes, Answered!Answers
<1>7. Told' = Told /\ Done' = Done
  BY DEF SaveAnswer, Told, Done
<1>8. QED BY <1>3, <1>4, <1>5, <1>6, <1>7, AsksStay DEF Answered!Keep, Answered!asks

\* Every step carries a request out, answers it, stores or repeats its answer, or is
\* none that a client could tell from nothing.
LEMMA OnceOnlyStep == Inductive /\ [Next]_vars => [Answered!Next]_(Answered!vars)
<1> SUFFICES ASSUME Inductive, [Next]_vars
             PROVE  [Answered!Next]_(Answered!vars)
  OBVIOUS
<1>0. asked' = asked
  BY StepCases
<1>1. CASE \E r \in Requests : RequestStep(r)
  <2>1. PICK r \in Requests : RequestStep(r)
    BY <1>1
  <2>2. CASE Commit(r) \/ CommitUnknown(r)
    BY <1>0, <2>1, <2>2, CommitCarriesOut DEF Answered!Next
  <2>3. CASE sent[r] \notin Outcomes /\ sent'[r] \in Outcomes
    BY <1>0, <2>1, <2>3, TellingAnswers DEF Answered!Next
  <2>4. CASE SaveAnswer(r)
    BY <1>0, <2>1, <2>4, SavingKeeps DEF Answered!Next
  <2>5. CASE /\ ~(Commit(r) \/ CommitUnknown(r))
             /\ sent[r] \in Outcomes \/ sent'[r] \notin Outcomes
             /\ ~SaveAnswer(r)
    <3>1. Told' = Told /\ Done' = Done /\ Stored' = Stored
      BY <2>1, <2>5, ToldSame, DoneSame, StoredSame DEF Inductive
    <3>2. QED BY <1>0, <3>1, AsksStay DEF Answered!vars, Answered!asks
  <2>6. QED BY <2>2, <2>3, <2>4, <2>5
<1>2. CASE (\E n \in Farmers \cup Slots : LockExpires(n)) \/ UNCHANGED vars
  <2>1. UNCHANGED <<sent, answer, hash, booked>>
    BY <1>2 DEF LockExpires, vars, talk, records
  <2>2. Told' = Told /\ Done' = Done /\ Stored' = Stored
    BY <2>1 DEF Told, Done, Stored
  <2>3. QED BY <1>0, <2>2, AsksStay DEF Answered!vars, Answered!asks
<1>3. QED BY <1>1, <1>2, StepCases

\* Of one key everybody hears the same.
LEMMA InductiveOneAnswer == Inductive => OneAnswer
<1> SUFFICES ASSUME Inductive, NEW q \in Requests, NEW r \in Requests, SameKey(q, r), q # r,
                    sent[q] \in Outcomes, sent[r] \in Outcomes
             PROVE  sent[q] = sent[r]
  BY DEF OneAnswer
<1>1. q \notin fresh \/ r \notin fresh
  BY DEF Inductive, ClaimKept, SameKey
<1>2. QED BY <1>1 DEF Inductive, ToldKept, SameKey

-----------------------------------------------------------------------------
(***************************************************************************)
(* The theorems.                                                           *)
(***************************************************************************)

\* The invariant holds in every state of every execution of POST /bookings/create:
\* guard, records, locks and transactions agree with each other, wherever requests
\* are cut short by the timer, a closed connection or a crash.
THEOREM InductiveInvariant == Spec => []Inductive
BY InductiveInit, InductiveStep, PTL DEF Spec

\* Every variable keeps its type, and what requests ask for is one of the plans.
THEOREM TypeCorrect == Spec => []TypeOK
<1>1. Inductive => TypeOK
  BY DEF Inductive
<1>2. QED BY <1>1, InductiveInvariant, PTL

\* Of the requests with one Idempotency-Key one at most passes the guard, and no
\* other of them books, however often the middleware meets the key.
THEOREM OncePerKeyHolds == Spec => []OncePerKey
BY InductiveInvariant, InductiveOncePerKey, PTL

\* A client that is told "created", by the handler, by the stored record or by Redis,
\* has a booking of the slot it asked for.
THEOREM CreatedTrue == Spec => []CreatedIsBooked
<1>1. Inductive => CreatedIsBooked
  BY DEF Inductive
<1>2. QED BY <1>1, InductiveInvariant, PTL

\* A handler that came to a refusal has booked nothing, whatever its transaction
\* tried before.
THEOREM RefusedTrue == Spec => []RefusedIsNotBooked
BY InductiveInvariant, InductiveRefused, PTL

\* What Redis holds of an answer is what the record holds.
THEOREM CacheTrue == Spec => []CacheAgrees
<1>1. Inductive => CacheAgrees
  BY DEF Inductive
<1>2. QED BY <1>1, InductiveInvariant, PTL

\* The Redis locks of bookingLifecycle.js keep two requests for one slot or of one
\* farmer out of the transaction together, while no lock runs out.
THEOREM LocksExcludeHolds == Spec => []LocksExclude
BY InductiveInvariant, InductiveLocksExclude, PTL

\* The unique partial indexes of booking.model.js leave one active booking to each
\* farmer and to each slot, whatever becomes of the locks.
THEOREM BookedApartHolds == Spec => []BookedApart
<1>1. Inductive => BookedApart
  BY DEF Inductive
<1>2. QED BY <1>1, InductiveInvariant, PTL

\* Requests and their bookings keep the promise of module Reservation, whatever becomes
\* of locks, answers and commits: the unique partial indexes decide.
THEOREM ReservationImplemented == Spec => ReservationKept
<1>1. Init => Reserved!Init
  BY DEF Init, Reserved!Init
<1>2. QED BY <1>1, ReservationStep, InductiveInvariant, PTL
           DEF Spec, ReservationKept, Reserved!Spec

\* The idempotency guard keeps the promise of module OnceOnly: a key's request is
\* carried out once at most and not after an answer, and what is stored of the first
\* answer is all that a repetition hears.
THEOREM OnceOnlyImplemented == Spec => OnceOnlyKept
<1>1. Init => Answered!Init
  BY DEF Init, Answered!Init, Answered!NotKept, Told, Done, Stored, Outcomes
<1>2. QED BY <1>1, OnceOnlyStep, InductiveInvariant, PTL
           DEF Spec, OnceOnlyKept, Answered!Spec

\* Two clients with one key, or one that asks twice, never have different answers from
\* the handler: the second has it from the record or from Redis.
THEOREM OneAnswerHolds == Spec => []OneAnswer
BY InductiveInvariant, InductiveOneAnswer, PTL

=============================================================================
