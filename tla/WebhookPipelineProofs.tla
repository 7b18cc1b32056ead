------------------------ MODULE WebhookPipelineProofs ------------------------
(***************************************************************************)
(* Proofs about WebhookPipeline, for any set of payments and any bound on  *)
(* faults, attempts and scans.                                             *)
(***************************************************************************)
EXTENDS WebhookPipeline, TLAPS

\* The steps of one payment, as in Next.
Local(p) == Around(p) \/ Deliver(p) \/ DropNotice(p) \/ Work(p) \/ Recover(p) \/ LockExpires(p)

-----------------------------------------------------------------------------
\* The two moves of a finalizer keep the types of the locks and of the faults.
LEMMA AcquireType ==
  ASSUME TypeOK, NEW source \in Sources, NEW p \in Payments, Acquire(source, p)
  PROVE  /\ finalizing' \subseteq Sources \X Payments
         /\ lock' \in [Payments -> Sources \cup {"free"}]
BY DEF TypeOK, Acquire

LEMMA ReleaseType ==
  ASSUME TypeOK, NEW source \in Sources, NEW p \in Payments, Release(source, p)
  PROVE  /\ finalizing' \subseteq Sources \X Payments
         /\ lock' \in [Payments -> Sources \cup {"free"}]
         /\ faults' \in Nat
BY DEF TypeOK, Release, Fault, NoFault

LEMMA AttemptType ==
  ASSUME TypeOK, NEW p \in Payments, AttemptFails(p)
  PROVE  job' \in [Payments -> JobStates] /\ tries' \in [Payments -> Nat]
BY DEF TypeOK, AttemptFails, JobStates

LEMMA ThrowsType ==
  ASSUME TypeOK, ReconcileThrows
  PROVE  /\ recJob' \in JobStates
         /\ recTries' \in Nat
         /\ recLock' \in {"free", "held"}
         /\ phase' \in Phases
         /\ scan' \subseteq Payments
         /\ declined' \subseteq Payments
BY DEF TypeOK, ReconcileThrows, JobStates

LEMMA TypeInit == Init => TypeOK
BY DEF Init, TypeOK, Providers, RowStatuses, Places, Notices, JobStates, Phases

LEMMA LocalType ==
  ASSUME TypeOK, NEW p \in Payments, Local(p)
  PROVE  TypeOK'
<1> USE DEF money, events, jobs, locks, reconciler
<1>1. CASE Around(p)
  BY <1>1 DEF TypeOK, Around, Capture, Decline, RecordAdvance, TakePlace, FreePlace,
     Providers, RowStatuses, Places, Notices, Fault, NoFault
<1>2. CASE Deliver(p) \/ DropNotice(p)
  BY <1>2 DEF TypeOK, Deliver, DropNotice, ReceiveNotice, EnqueueNotice, Notices, JobStates,
     Fault, NoFault
<1>3. CASE StartJob(p)
  <2>1. CASE Acquire("webhook", p)
    BY <1>3, <2>1, AcquireType DEF TypeOK, StartJob, Acquire, Busy, JobStates, Sources
  <2>2. CASE Busy(p)
    BY <1>3, <2>2, AttemptType DEF TypeOK, StartJob, Acquire, Busy
  <2>3. QED BY <1>3, <2>1, <2>2 DEF StartJob
<1>4. CASE EndJob(p)
  <2>1. "webhook" \in Sources
    BY DEF Sources
  <2>2. CASE Refused(p)
    BY <1>4, <2>1, <2>2, ReleaseType, AttemptType DEF TypeOK, EndJob
  <2>3. CASE ~Refused(p)
    BY <1>4, <2>1, <2>3, ReleaseType DEF TypeOK, EndJob, JobStates, RowStatuses
  <2>4. QED BY <2>2, <2>3
<1>5. CASE Recover(p)
  <2>1. "recovery" \in Sources
    BY DEF Sources
  <2>2. CASE RecoveryFires(p)
    BY <1>5, <2>1, <2>2, AcquireType DEF TypeOK, RecoveryFires, Fault, NoFault
  <2>3. CASE RecoveryEnds(p)
    BY <1>5, <2>1, <2>3, ReleaseType DEF TypeOK, RecoveryEnds, RowStatuses
  <2>4. QED BY <1>5, <2>2, <2>3 DEF Recover
<1>6. CASE LockExpires(p)
  BY <1>6 DEF TypeOK, LockExpires
<1>7. QED BY <1>1, <1>2, <1>3, <1>4, <1>5, <1>6 DEF Local, Work

LEMMA ReconcileType ==
  ASSUME TypeOK, Reconcile
  PROVE  TypeOK'
<1> USE DEF money, events, jobs, locks
<1>1. "reconcile" \in Sources
  BY DEF Sources
<1>2. CASE EnqueueReconcile \/ StartReconcile
  BY <1>2 DEF TypeOK, EnqueueReconcile, StartReconcile, Oldest, JobStates, Phases
<1>3. CASE ReconcileTurns \/ ReconcileEnds
  BY <1>3 DEF TypeOK, ReconcileTurns, ReconcileEnds, Oldest, JobStates, Phases
<1>4. ASSUME NEW p \in Payments, ReconcileFinalizes(p)
      PROVE  TypeOK'
  BY <1>1, <1>4, AcquireType, ThrowsType DEF TypeOK, ReconcileFinalizes
<1>5. ASSUME NEW p \in Payments, ReconcileSkips(p) \/ ReconcileMarksFailed(p)
      PROVE  TypeOK'
  BY <1>5 DEF TypeOK, ReconcileSkips, ReconcileMarksFailed, RowStatuses, Fault, NoFault
<1>6. ASSUME NEW p \in Payments, ReconcileFinalized(p)
      PROVE  TypeOK'
  <2>1. CASE Refused(p)
    BY <1>1, <1>6, <2>1, ReleaseType, ThrowsType DEF TypeOK, ReconcileFinalized
  <2>2. CASE ~Refused(p)
    BY <1>1, <1>6, <2>2, ReleaseType DEF TypeOK, ReconcileFinalized, reconciler, RowStatuses
  <2>3. QED BY <2>1, <2>2
<1>7. QED BY <1>2, <1>3, <1>4, <1>5, <1>6 DEF Reconcile

LEMMA TypeStep == TypeOK /\ [Next]_vars => TypeOK'
<1> SUFFICES ASSUME TypeOK, [Next]_vars
             PROVE  TypeOK'
  OBVIOUS
<1> USE DEF money, events, jobs, locks, reconciler
<1>1. ASSUME NEW p \in Payments, Local(p)
      PROVE  TypeOK'
  BY <1>1, LocalType
<1>2. CASE Reconcile
  BY <1>2, ReconcileType
<1>3. CASE ReconcileLockExpires
  BY <1>3 DEF TypeOK, ReconcileLockExpires
<1>4. CASE Crash
  BY <1>4 DEF TypeOK, Crash, Fault, JobStates
<1>5. CASE UNCHANGED vars
  BY <1>5 DEF TypeOK, vars
<1>6. QED BY <1>1, <1>2, <1>3, <1>4, <1>5 DEF Next, Local

\* Every row, event, job and lock keeps its shape.
THEOREM TypeCorrect == Spec => []TypeOK
BY TypeInit, TypeStep, PTL DEF Spec

-----------------------------------------------------------------------------
(***************************************************************************)
(* Only captured money is confirmed.                                       *)
(***************************************************************************)
Sourced == OnlyCaptured /\ Provenance

LEMMA SourcedInit == Init => Sourced
BY DEF Init, Sourced, OnlyCaptured, Provenance

LEMMA SourcedLocal ==
  ASSUME TypeOK, Sourced, NEW p \in Payments, Local(p)
  PROVE  Sourced'
<1> USE DEF money, events, jobs, locks, reconciler, Sourced, TypeOK, OnlyCaptured, Provenance
<1>1. CASE Capture(p) \/ Decline(p) \/ RecordAdvance(p)
  BY <1>1 DEF Capture, Decline, RecordAdvance
<1>2. CASE TakePlace(p) \/ FreePlace(p) \/ LockExpires(p)
  BY <1>2 DEF TakePlace, FreePlace, LockExpires
<1>3. CASE ReceiveNotice(p)
  BY <1>3 DEF ReceiveNotice
<1>9. CASE EnqueueNotice(p)
  <2>1. p \in seen /\ provider[p] = "captured"
    BY <1>9 DEF EnqueueNotice
  <2>2. \A q \in Payments \ {p} : notice'[q] = notice[q] /\ job'[q] = job[q]
    BY <1>9 DEF EnqueueNotice
  <2>3. UNCHANGED <<provider, row, seen, finalizing, phase, scan>> /\ intake' \subseteq intake
    BY <1>9 DEF EnqueueNotice
  <2>4. QED BY <2>1, <2>2, <2>3
<1>10. CASE DropNotice(p)
  BY <1>10 DEF DropNotice
<1>4. CASE StartJob(p)
  BY <1>4 DEF StartJob, Acquire, AttemptFails, Sources
<1>5. CASE EndJob(p)
  <2>1. p \in seen /\ provider[p] = "captured"
    BY <1>5 DEF EndJob, Sources
  <2>2. row' = row \/ row' = [row EXCEPT ![p] = "SUCCESS"]
    BY <1>5 DEF EndJob
  <2>3. \A q \in Payments \ {p} : job'[q] = job[q]
    BY <1>5 DEF EndJob, AttemptFails
  <2>4. finalizing' \subseteq finalizing
    BY <1>5 DEF EndJob, Release
  <2>5. UNCHANGED <<provider, notice, seen, intake, phase, scan>>
    BY <1>5 DEF EndJob
  <2>6. OnlyCaptured'
    BY <2>1, <2>2, <2>4, <2>5
  <2>7. Provenance'
    BY <2>1, <2>2, <2>3, <2>4, <2>5
  <2>8. QED BY <2>6, <2>7
<1>6. CASE RecoveryFires(p)
  BY <1>6 DEF RecoveryFires, Acquire
<1>7. CASE RecoveryEnds(p)
  BY <1>7 DEF RecoveryEnds, Release, Sources
<1>11. QED
  BY <1>1, <1>2, <1>3, <1>4, <1>5, <1>6, <1>7, <1>9, <1>10
     DEF Local, Around, Deliver, Work, Recover

LEMMA SourcedReconcile ==
  ASSUME TypeOK, Sourced, Reconcile
  PROVE  Sourced'
<1> USE DEF money, events, jobs, locks, reconciler, Sourced, TypeOK, OnlyCaptured, Provenance
<1>1. CASE EnqueueReconcile \/ StartReconcile \/ ReconcileTurns \/ ReconcileEnds
  BY <1>1 DEF EnqueueReconcile, StartReconcile, ReconcileTurns, ReconcileEnds, Oldest
<1>2. ASSUME NEW p \in Payments, ReconcileFinalizes(p)
      PROVE  Sourced'
  BY <1>2 DEF ReconcileFinalizes, IsNext, Acquire, ReconcileThrows, Phases
<1>3. ASSUME NEW p \in Payments, ReconcileSkips(p) \/ ReconcileMarksFailed(p)
      PROVE  Sourced'
  BY <1>3 DEF ReconcileSkips, ReconcileMarksFailed
<1>4. ASSUME NEW p \in Payments, ReconcileFinalized(p)
      PROVE  Sourced'
  BY <1>4 DEF ReconcileFinalized, Release, ReconcileThrows, Sources
<1>5. QED BY <1>1, <1>2, <1>3, <1>4 DEF Reconcile

LEMMA SourcedStep ==
  ASSUME TypeOK, Sourced, [Next]_vars
  PROVE  Sourced'
<1>1. CASE ReconcileLockExpires \/ Crash \/ UNCHANGED vars
  BY <1>1 DEF ReconcileLockExpires, Crash, vars, money, events, jobs, locks, reconciler,
     Sourced, TypeOK, OnlyCaptured, Provenance
<1>2. QED BY <1>1, SourcedLocal, SourcedReconcile DEF Next, Local

\* Confirmed rows, events, jobs and finalizers all stand on captured money.
THEOREM CapturedOnly == Spec => []OnlyCaptured
<1>1. TypeOK /\ Sourced /\ [Next]_vars => TypeOK' /\ Sourced'
  BY TypeStep, SourcedStep
<1>2. Sourced => OnlyCaptured
  BY DEF Sourced
<1>3. QED BY <1>1, <1>2, TypeInit, SourcedInit, PTL DEF Spec

-----------------------------------------------------------------------------
(***************************************************************************)
(* No captured payment is forgotten without a cause.                       *)
(***************************************************************************)
\* The two invariants, for one payment.
KeptOf(p) ==
  /\ Unfinished(p) => InHand(p) \/ faults > 0 \/ place[p] # "free"
  /\ faults = 0 =>
       /\ notice[p] # "dropped"
       /\ p \in seen /\ notice[p] = "sent" => p \in intake
       /\ Busy(p) => <<lock[p], p>> \in finalizing

Kept == \A p \in Payments : KeptOf(p)

\* A step that leaves p alone.
Elsewhere(p) ==
  /\ provider'[p] = provider[p] /\ row'[p] = row[p] /\ place'[p] = place[p]
  /\ notice'[p] = notice[p] /\ job'[p] = job[p] /\ lock'[p] = lock[p]
  /\ p \in seen' <=> p \in seen
  /\ p \in intake' <=> p \in intake
  /\ p \in timer' <=> p \in timer
  /\ \A source \in Sources : <<source, p>> \in finalizing' <=> <<source, p>> \in finalizing

LEMMA KeptInit == Init => Kept
BY DEF Init, Kept, KeptOf, Unfinished, Busy

\* Once something has gone wrong, nothing is claimed.
LEMMA KeptAfterFault ==
  ASSUME TypeOK, Fault
  PROVE  Kept'
BY DEF TypeOK, Fault, Kept, KeptOf

LEMMA KeptElsewhere ==
  ASSUME TypeOK, NEW p \in Payments, KeptOf(p), Elsewhere(p), UNCHANGED faults
  PROVE  KeptOf(p)'
<1>1. Unfinished(p)' <=> Unfinished(p)
  BY DEF Unfinished, Elsewhere
<1>2. InHand(p)' <=> InHand(p)
  BY DEF InHand, Elsewhere
<1>3. Busy(p)' <=> Busy(p)
  BY DEF Busy, Elsewhere
<1>4. Busy(p) => (<<lock[p], p>> \in finalizing)' <=> <<lock[p], p>> \in finalizing
  BY DEF TypeOK, Busy, Elsewhere
<1>5. QED BY <1>1, <1>2, <1>3, <1>4 DEF KeptOf, Elsewhere

LEMMA FaultOrNot ==
  ASSUME TypeOK, NEW p \in Payments, Local(p)
  PROVE  Fault \/ UNCHANGED faults
BY DEF Local, Around, Capture, Decline, RecordAdvance, TakePlace, FreePlace, Deliver,
   ReceiveNotice, EnqueueNotice, DropNotice, Work, StartJob, EndJob, Recover, RecoveryFires,
   RecoveryEnds, LockExpires, Release, NoFault

\* A step of one payment leaves the others alone.
LEMMA LocalElsewhere ==
  ASSUME TypeOK, NEW p \in Payments, NEW q \in Payments, q # p, Local(p)
  PROVE  Elsewhere(q)
<1> USE DEF money, events, jobs, locks, TypeOK, Elsewhere
<1>1. CASE Around(p)
  BY <1>1 DEF Around, Capture, Decline, RecordAdvance, TakePlace, FreePlace
<1>2. CASE Deliver(p) \/ DropNotice(p)
  BY <1>2 DEF Deliver, DropNotice, ReceiveNotice, EnqueueNotice
<1>3. CASE StartJob(p)
  BY <1>3 DEF StartJob, Acquire, AttemptFails
<1>4. CASE EndJob(p)
  BY <1>4 DEF EndJob, Release, AttemptFails
<1>5. CASE RecoveryFires(p) \/ LockExpires(p)
  BY <1>5 DEF RecoveryFires, Acquire, LockExpires
<1>6. CASE RecoveryEnds(p)
  BY <1>6 DEF RecoveryEnds, Release
<1>7. QED BY <1>1, <1>2, <1>3, <1>4, <1>5, <1>6 DEF Local, Work, Recover

\* What a release does to the lock of its payment, when nothing goes wrong.
LEMMA ReleaseKeeps ==
  ASSUME TypeOK, NEW source \in Sources, NEW p \in Payments, KeptOf(p), Release(source, p),
         faults = 0, UNCHANGED faults
  PROVE  Busy(p)' => (<<lock[p], p>> \in finalizing)'
BY DEF TypeOK, KeptOf, Release, Busy, Fault

LEMMA KeptLocal ==
  ASSUME TypeOK, Sourced, Kept, NEW p \in Payments, Local(p)
  PROVE  Kept'
<1>1. CASE Fault
  BY <1>1, KeptAfterFault
<1>2. CASE UNCHANGED faults
  <2>1. SUFFICES KeptOf(p)'
    <3>1. ASSUME NEW q \in Payments, q # p
          PROVE  KeptOf(q)'
      BY <1>2, <3>1, LocalElsewhere, KeptElsewhere DEF Kept
    <3>2. QED BY <3>1 DEF Kept
  <2>2. KeptOf(p) /\ faults \in Nat
    BY DEF Kept, TypeOK
  <2> USE DEF money, events, jobs, locks, TypeOK
  <2>3. CASE Capture(p) \/ Decline(p)
    BY <1>2, <2>2, <2>3 DEF Capture, Decline, KeptOf, Unfinished, InHand, Busy, Sourced, OnlyCaptured
  <2>4. CASE RecordAdvance(p)
    BY <1>2, <2>2, <2>4 DEF RecordAdvance, Fault, KeptOf, Unfinished, InHand, Busy
  <2>5. CASE TakePlace(p) \/ FreePlace(p)
    BY <1>2, <2>2, <2>5 DEF TakePlace, FreePlace, KeptOf, Unfinished, InHand, Busy
  <2>6. CASE ReceiveNotice(p)
    BY <1>2, <2>2, <2>6 DEF ReceiveNotice, KeptOf, Unfinished, InHand, Busy
  <2>7. CASE EnqueueNotice(p)
    BY <1>2, <2>2, <2>7 DEF EnqueueNotice, Fault, KeptOf, Unfinished, InHand, Busy
  <2>8. CASE DropNotice(p)
    BY <1>2, <2>2, <2>8 DEF DropNotice, Fault
  <2>9. CASE StartJob(p)
    <3>1. CASE Acquire("webhook", p)
      BY <1>2, <2>2, <2>9, <3>1 DEF StartJob, Acquire, KeptOf, Unfinished, InHand, Busy, Sources
    <3>2. CASE Busy(p) /\ UNCHANGED locks
      BY <1>2, <2>2, <2>9, <3>2 DEF StartJob, KeptOf, Unfinished, InHand, Busy
    <3>3. QED BY <2>9, <3>1, <3>2 DEF StartJob
  <2>10. CASE EndJob(p)
    <3>1. faults = 0 => (Busy(p) => <<lock[p], p>> \in finalizing)'
      BY <1>2, <2>2, <2>10, ReleaseKeeps DEF EndJob, Sources, Busy
    <3>2. UNCHANGED <<provider, place, notice, seen, intake>>
      BY <2>10 DEF EndJob
    <3>3. row'[p] = "SUCCESS" \/ (row' = row /\ Refused(p))
      BY <2>10 DEF EndJob
    <3>4. Unfinished(p)' => place'[p] # "free"
      BY <3>2, <3>3 DEF Unfinished, Refused
    <3>5. QED BY <1>2, <2>2, <3>1, <3>2, <3>4 DEF KeptOf
  <2>11. CASE RecoveryFires(p)
    <3>1. CASE Acquire("recovery", p)
      BY <1>2, <2>2, <2>11, <3>1
         DEF RecoveryFires, Acquire, KeptOf, Unfinished, InHand, Busy, Sources
    <3>2. CASE UNCHANGED locks /\ (Busy(p) \/ provider[p] # "captured")
      BY <1>2, <2>2, <2>11, <3>2 DEF RecoveryFires, KeptOf, Unfinished, InHand, Busy
    <3>3. QED BY <1>2, <2>2, <2>11, <3>1, <3>2 DEF RecoveryFires, Fault
  <2>12. CASE RecoveryEnds(p)
    <3>1. faults = 0 => (Busy(p) => <<lock[p], p>> \in finalizing)'
      BY <1>2, <2>2, <2>12, ReleaseKeeps DEF RecoveryEnds, Sources, Busy
    <3>2. UNCHANGED <<provider, place, notice, seen, intake>>
      BY <2>12 DEF RecoveryEnds
    <3>3. row'[p] = "SUCCESS" \/ (row' = row /\ Refused(p))
      BY <2>12 DEF RecoveryEnds
    <3>4. Unfinished(p)' => place'[p] # "free"
      BY <3>2, <3>3 DEF Unfinished, Refused
    <3>5. QED BY <1>2, <2>2, <3>1, <3>2, <3>4 DEF KeptOf
  <2>13. CASE LockExpires(p)
    BY <1>2, <2>2, <2>13 DEF LockExpires, KeptOf, Unfinished, InHand, Busy
  <2>14. QED
    BY <2>3, <2>4, <2>5, <2>6, <2>7, <2>8, <2>9, <2>10, <2>11, <2>12, <2>13
       DEF Local, Around, Deliver, Work, Recover
<1>3. QED BY <1>1, <1>2, FaultOrNot

\* What reconciliation does to the payment it is at.
LEMMA KeptReconcile ==
  ASSUME TypeOK, Kept, Reconcile
  PROVE  Kept'
<1> USE DEF money, events, jobs, locks, reconciler, TypeOK
<1>1. CASE EnqueueReconcile \/ StartReconcile \/ ReconcileTurns \/ ReconcileEnds
  <2>1. UNCHANGED <<money, events, jobs, locks, faults>>
    BY <1>1 DEF EnqueueReconcile, StartReconcile, ReconcileTurns, ReconcileEnds
  <2>2. \A p \in Payments : Elsewhere(p)
    BY <2>1 DEF Elsewhere
  <2>3. QED BY <2>1, <2>2, KeptElsewhere DEF Kept
<1>2. ASSUME NEW p \in Payments, ReconcileFinalizes(p)
      PROVE  Kept'
  <2>1. UNCHANGED <<money, events, jobs, faults>>
    BY <1>2 DEF ReconcileFinalizes
  <2>2. ASSUME NEW q \in Payments, q # p
        PROVE  KeptOf(q)'
    <3>1. Elsewhere(q)
      BY <1>2, <2>1, <2>2 DEF ReconcileFinalizes, Acquire, Elsewhere
    <3>2. QED BY <2>1, <3>1, KeptElsewhere DEF Kept
  <2>3. KeptOf(p)'
    BY <1>2, <2>1 DEF ReconcileFinalizes, Acquire, Kept, KeptOf, Unfinished, InHand, Busy, Sources
  <2>4. QED BY <2>2, <2>3 DEF Kept
<1>3. ASSUME NEW p \in Payments, ReconcileSkips(p)
      PROVE  Kept'
  <2>1. CASE Fault
    BY <2>1, KeptAfterFault
  <2>2. CASE UNCHANGED faults
    <3>1. \A q \in Payments : Elsewhere(q)
      BY <1>3 DEF ReconcileSkips, Elsewhere
    <3>2. QED BY <2>2, <3>1, KeptElsewhere DEF Kept
  <2>3. QED BY <1>3, <2>1, <2>2 DEF ReconcileSkips, NoFault
<1>4. ASSUME NEW p \in Payments, ReconcileMarksFailed(p)
      PROVE  Kept'
  BY <1>4 DEF ReconcileMarksFailed, Kept, KeptOf, Unfinished, InHand, Busy
<1>5. ASSUME NEW p \in Payments, ReconcileFinalized(p)
      PROVE  Kept'
  <2>1. CASE Fault
    BY <2>1, KeptAfterFault
  <2>2. CASE UNCHANGED faults
    <3>1. UNCHANGED <<provider, place, notice, seen, intake>>
      BY <1>5 DEF ReconcileFinalized
    <3>2. row'[p] = "SUCCESS" \/ (row' = row /\ Refused(p))
      BY <1>5 DEF ReconcileFinalized
    <3>3. ASSUME NEW q \in Payments, q # p
          PROVE  KeptOf(q)'
      <4>1. Elsewhere(q)
        BY <1>5, <3>3 DEF ReconcileFinalized, Release, Elsewhere
      <4>2. QED BY <2>2, <4>1, KeptElsewhere DEF Kept
    <3>4. faults = 0 => (Busy(p) => <<lock[p], p>> \in finalizing)'
      BY <1>5, <2>2, ReleaseKeeps DEF ReconcileFinalized, Sources, Busy, Kept
    <3>5. Unfinished(p)' => place'[p] # "free"
      BY <3>1, <3>2 DEF Unfinished, Refused
    <3>6. KeptOf(p)'
      BY <2>2, <3>1, <3>4, <3>5 DEF Kept, KeptOf
    <3>7. QED BY <3>3, <3>6 DEF Kept
  <2>3. QED BY <1>5, <2>1, <2>2 DEF ReconcileFinalized, Release, NoFault
<1>6. QED BY <1>1, <1>2, <1>3, <1>4, <1>5 DEF Reconcile

LEMMA KeptStep ==
  ASSUME TypeOK, Sourced, Kept, [Next]_vars
  PROVE  Kept'
<1>1. CASE ReconcileLockExpires \/ UNCHANGED vars
  <2>1. UNCHANGED <<money, events, jobs, locks, faults>>
    BY <1>1 DEF ReconcileLockExpires, vars
  <2>2. \A p \in Payments : Elsewhere(p)
    BY <2>1 DEF Elsewhere, money, events, jobs, locks
  <2>3. QED BY <2>1, <2>2, KeptElsewhere DEF Kept
<1>2. CASE Crash
  BY <1>2, KeptAfterFault DEF Crash
<1>3. QED BY <1>1, <1>2, KeptLocal, KeptReconcile DEF Next, Local

-----------------------------------------------------------------------------
(***************************************************************************)
(* Deliveries, attempts and timers run out.                                *)
(***************************************************************************)
\* JobsFit for one payment.
JobFits(p) ==
  /\ p \in intake => job[p] = "none"
  /\ job[p] = "none" => tries[p] = 0
  /\ job[p] \in {"waiting", "active"} => tries[p] < MaxAttempts
  /\ <<"webhook", p>> \in finalizing <=> job[p] = "active"

\* A step that leaves the event, the job and the timer of p alone.
Idle(p) ==
  /\ notice'[p] = notice[p] /\ job'[p] = job[p] /\ tries'[p] = tries[p]
  /\ p \in seen' <=> p \in seen
  /\ p \in intake' <=> p \in intake
  /\ p \in timer' <=> p \in timer
  /\ \A source \in {"webhook", "recovery"} :
       <<source, p>> \in finalizing' <=> <<source, p>> \in finalizing

LEMMA IdleFits ==
  ASSUME NEW p \in Payments, JobFits(p), Idle(p)
  PROVE  JobFits(p)'
BY DEF JobFits, Idle

LEMMA IdleEfforts ==
  ASSUME NEW p \in Payments, Idle(p)
  PROVE  Efforts(p)' = Efforts(p)
<1>1. ToDeliver(p)' = ToDeliver(p)
  BY DEF ToDeliver, Idle
<1>2. ToWork(p)' = ToWork(p)
  BY DEF ToWork, Idle
<1>3. ToRecover(p)' = ToRecover(p)
  BY DEF ToRecover, Idle
<1>4. QED BY <1>1, <1>2, <1>3 DEF Efforts

LEMMA LocalIdle ==
  ASSUME TypeOK, NEW p \in Payments, NEW q \in Payments, q # p, Local(p)
  PROVE  Idle(q)
<1>1. Elsewhere(q)
  BY LocalElsewhere
<1>2. tries'[q] = tries[q]
  BY DEF TypeOK, Local, Around, Capture, Decline, RecordAdvance, TakePlace, FreePlace, Deliver,
     ReceiveNotice, EnqueueNotice, DropNotice, Work, StartJob, EndJob, AttemptFails, Recover,
     RecoveryFires, RecoveryEnds, LockExpires, jobs
<1>3. QED BY <1>1, <1>2 DEF Elsewhere, Idle, Sources

LEMMA ReconcileIdle ==
  ASSUME TypeOK, Reconcile, NEW q \in Payments
  PROVE  Idle(q)
<1> USE DEF money, events, jobs, locks, reconciler, Idle
<1>1. CASE EnqueueReconcile \/ StartReconcile \/ ReconcileTurns \/ ReconcileEnds
  BY <1>1 DEF EnqueueReconcile, StartReconcile, ReconcileTurns, ReconcileEnds
<1>2. ASSUME NEW p \in Payments,
             ReconcileFinalizes(p) \/ ReconcileSkips(p) \/ ReconcileMarksFailed(p)
      PROVE  Idle(q)
  BY <1>2 DEF ReconcileFinalizes, Acquire, ReconcileSkips, ReconcileMarksFailed
<1>3. ASSUME NEW p \in Payments, ReconcileFinalized(p)
      PROVE  Idle(q)
  BY <1>3 DEF ReconcileFinalized, Release
<1>4. QED BY <1>1, <1>2, <1>3 DEF Reconcile

LEMMA JobsInit == Init => \A p \in Payments : JobFits(p)
BY Sizes DEF Init, JobFits

\* A step of p's own.
LEMMA JobFitsOwn ==
  ASSUME TypeOK, Provenance, NEW p \in Payments, JobFits(p), Local(p)
  PROVE  JobFits(p)'
<1> USE DEF money, events, jobs, locks, TypeOK, JobFits
<1>1. CASE Around(p) \/ DropNotice(p) \/ LockExpires(p)
  BY <1>1 DEF Around, Capture, Decline, RecordAdvance, TakePlace, FreePlace, DropNotice, LockExpires
<1>2. CASE ReceiveNotice(p)
  BY <1>2 DEF ReceiveNotice, Provenance
<1>3. CASE EnqueueNotice(p)
  BY <1>3, Sizes DEF EnqueueNotice
<1>4. CASE StartJob(p)
  <2>1. CASE Acquire("webhook", p)
    BY <1>4, <2>1 DEF StartJob, Acquire, Busy
  <2>2. CASE Busy(p)
    BY <1>4, <2>2, Sizes DEF StartJob, Acquire, Busy, AttemptFails
  <2>3. QED BY <1>4, <2>1, <2>2 DEF StartJob
<1>5. CASE EndJob(p)
  <2>1. <<"webhook", p>> \notin finalizing' /\ job[p] = "active" /\ UNCHANGED intake
    BY <1>5 DEF EndJob, Release
  <2>2. CASE Refused(p)
    BY <1>5, <2>1, <2>2, Sizes DEF EndJob, AttemptFails
  <2>3. CASE ~Refused(p)
    BY <1>5, <2>1, <2>3 DEF EndJob
  <2>4. QED BY <2>2, <2>3
<1>6. CASE RecoveryFires(p)
  BY <1>6 DEF RecoveryFires, Acquire
<1>7. CASE RecoveryEnds(p)
  BY <1>7 DEF RecoveryEnds, Release
<1>8. QED BY <1>1, <1>2, <1>3, <1>4, <1>5, <1>6, <1>7 DEF Local, Deliver, Work, Recover

LEMMA JobsStep ==
  ASSUME TypeOK, Provenance, JobsFit, [Next]_vars
  PROVE  JobsFit'
<1> SUFFICES ASSUME NEW q \in Payments
             PROVE  JobFits(q)'
  BY DEF JobsFit, JobFits
<1>1. JobFits(q)
  BY DEF JobsFit, JobFits
<1>2. ASSUME NEW p \in Payments, Local(p)
      PROVE  JobFits(q)'
  BY <1>1, <1>2, JobFitsOwn, LocalIdle, IdleFits
<1>3. CASE Reconcile
  BY <1>1, <1>3, ReconcileIdle, IdleFits
<1>4. CASE ReconcileLockExpires \/ UNCHANGED vars
  <2>1. Idle(q)
    BY <1>4 DEF ReconcileLockExpires, vars, events, jobs, locks, Idle
  <2>2. QED BY <1>1, <2>1, IdleFits
<1>5. CASE Crash
  BY <1>1, <1>5 DEF Crash, JobFits, TypeOK
<1>6. QED BY <1>2, <1>3, <1>4, <1>5 DEF Next, Local

LEMMA EffortsNat ==
  ASSUME TypeOK, NEW p \in Payments, JobFits(p)
  PROVE  ToDeliver(p) \in Nat /\ ToWork(p) \in Nat /\ ToRecover(p) \in Nat
<1>1. ToDeliver(p) \in Nat
  BY Sizes DEF ToDeliver
<1>2. ToWork(p) \in Nat
  BY Sizes DEF TypeOK, ToWork, JobFits
<1>3. ToRecover(p) \in Nat
  BY DEF ToRecover
<1>4. QED BY <1>1, <1>2, <1>3

LEMMA EffortsNatNext ==
  ASSUME TypeOK', NEW p \in Payments, JobFits(p)'
  PROVE  ToDeliver(p)' \in Nat /\ ToWork(p)' \in Nat /\ ToRecover(p)' \in Nat
<1>1. ToDeliver(p)' \in Nat
  BY Sizes DEF ToDeliver
<1>2. ToWork(p)' \in Nat
  BY Sizes DEF TypeOK, ToWork, JobFits
<1>3. ToRecover(p)' \in Nat
  BY DEF ToRecover
<1>4. QED BY <1>1, <1>2, <1>3

\* A delivery, an attempt or the timer leaves less to do.
LEMMA EffortSpent ==
  ASSUME TypeOK, TypeOK', Provenance, NEW p \in Payments, JobFits(p), JobFits(p)',
         Deliver(p) \/ Work(p) \/ Recover(p)
  PROVE  Efforts(p)' < Efforts(p)
<1> USE DEF events, jobs, locks, TypeOK
<1>1. /\ ToDeliver(p) \in Nat /\ ToWork(p) \in Nat /\ ToRecover(p) \in Nat
      /\ ToDeliver(p)' \in Nat /\ ToWork(p)' \in Nat /\ ToRecover(p)' \in Nat
  BY EffortsNat, EffortsNatNext
<1>2. CASE Deliver(p)
  <2>1. ToRecover(p)' = ToRecover(p)
    BY <1>2 DEF Deliver, ReceiveNotice, EnqueueNotice, ToRecover
  <2>2. CASE ReceiveNotice(p)
    <3>1. ToWork(p)' = ToWork(p)
      BY <2>2 DEF ReceiveNotice, ToWork
    <3>2. ToDeliver(p)' < ToDeliver(p)
      <4>1. CASE p \in seen
        BY <2>2, <4>1, Sizes DEF ReceiveNotice, ToDeliver
      <4>2. CASE p \notin seen
        BY <2>2, <4>2, Sizes DEF ReceiveNotice, ToDeliver, Provenance
      <4>3. QED BY <4>1, <4>2
    <3>3. QED BY <1>1, <2>1, <3>1, <3>2 DEF Efforts
  <2>3. CASE EnqueueNotice(p)
    <3>1. job[p] = "none" /\ tries[p] = 0 /\ p \in seen
      BY <2>3 DEF EnqueueNotice, JobFits, Provenance
    <3>2. ToWork(p) = 0 /\ ToWork(p)' <= 2 * MaxAttempts
      BY <2>3, <3>1, Sizes DEF EnqueueNotice, ToWork
    <3>3. ToDeliver(p)' <= ToDeliver(p) - (2 * MaxAttempts + 1)
      BY <2>3, <3>1, Sizes DEF EnqueueNotice, ToDeliver
    <3>4. QED BY <1>1, <2>1, <3>2, <3>3, Sizes DEF Efforts
  <2>4. QED BY <1>2, <2>2, <2>3 DEF Deliver
<1>3. CASE Work(p)
  <2>1. ToDeliver(p)' = ToDeliver(p)
    BY <1>3 DEF Work, StartJob, EndJob, ToDeliver
  <2>2. ToRecover(p)' = ToRecover(p)
    BY <1>3 DEF Work, StartJob, EndJob, Acquire, Release, ToRecover
  <2>3. ToWork(p)' < ToWork(p)
    <3>1. CASE StartJob(p)
      BY <3>1, Sizes DEF StartJob, AttemptFails, ToWork, JobFits
    <3>2. CASE EndJob(p)
      <4>1. job[p] = "active" /\ tries[p] < MaxAttempts
        BY <3>2 DEF EndJob, JobFits
      <4>2. ToWork(p) = 2 * (MaxAttempts - tries[p]) - 1
        BY <4>1 DEF ToWork
      <4>3. ToWork(p)' = 0 \/ ToWork(p)' = 2 * (MaxAttempts - (tries[p] + 1))
        BY <3>2, <4>1 DEF EndJob, AttemptFails, ToWork
      <4>4. QED BY <4>1, <4>2, <4>3, Sizes
    <3>3. QED BY <1>3, <3>1, <3>2 DEF Work
  <2>4. QED BY <1>1, <2>1, <2>2, <2>3 DEF Efforts
<1>4. CASE Recover(p)
  <2>1. ToDeliver(p)' = ToDeliver(p)
    BY <1>4 DEF Recover, RecoveryFires, RecoveryEnds, ToDeliver
  <2>2. ToWork(p)' = ToWork(p)
    BY <1>4 DEF Recover, RecoveryFires, RecoveryEnds, ToWork
  <2>3. ToRecover(p)' < ToRecover(p)
    BY <1>4 DEF Recover, RecoveryFires, RecoveryEnds, Acquire, Release, ToRecover
  <2>4. QED BY <1>1, <2>1, <2>2, <2>3 DEF Efforts
<1>5. QED BY <1>2, <1>3, <1>4

\* No other step leaves more to do, but for a capture, a new row and a crash.
LEMMA NoEffortAdded ==
  ASSUME TypeOK, TypeOK', Provenance, NEW q \in Payments, JobFits(q), JobFits(q)', [Next]_vars,
         ~Capture(q), ~RecordAdvance(q), ~Crash
  PROVE  Efforts(q)' <= Efforts(q)
<1>1. /\ ToDeliver(q) \in Nat /\ ToWork(q) \in Nat /\ ToRecover(q) \in Nat
      /\ ToDeliver(q)' \in Nat /\ ToWork(q)' \in Nat /\ ToRecover(q)' \in Nat
  BY EffortsNat, EffortsNatNext
<1>2. Efforts(q) \in Nat /\ Efforts(q)' \in Nat
  BY <1>1 DEF Efforts
<1>3. CASE Idle(q)
  BY <1>2, <1>3, IdleEfforts
<1>4. CASE Deliver(q) \/ Work(q) \/ Recover(q)
  BY <1>2, <1>4, EffortSpent
<1>5. CASE DropNotice(q)
  <2>1. ToDeliver(q)' <= ToDeliver(q)
    BY <1>5, Sizes DEF DropNotice, TypeOK, ToDeliver
  <2>2. ToWork(q)' = ToWork(q) /\ ToRecover(q)' = ToRecover(q)
    BY <1>5 DEF DropNotice, jobs, locks, ToWork, ToRecover
  <2>3. QED BY <1>1, <2>1, <2>2 DEF Efforts
<1>6. CASE Decline(q) \/ TakePlace(q) \/ FreePlace(q) \/ LockExpires(q)
  <2>1. Idle(q)
    BY <1>6 DEF Decline, TakePlace, FreePlace, LockExpires, events, jobs, locks, Idle
  <2>2. QED BY <2>1, <1>3
<1>7. ASSUME NEW p \in Payments, Local(p)
      PROVE  Efforts(q)' <= Efforts(q)
  BY <1>3, <1>4, <1>5, <1>6, <1>7, LocalIdle DEF Local, Around
<1>8. CASE Reconcile
  BY <1>3, <1>8, ReconcileIdle
<1>9. CASE ReconcileLockExpires \/ UNCHANGED vars
  <2>1. Idle(q)
    BY <1>9 DEF ReconcileLockExpires, vars, events, jobs, locks, Idle
  <2>2. QED BY <2>1, <1>3
<1>10. QED BY <1>7, <1>8, <1>9 DEF Next, Local

\* The strengthened invariant of the pipeline.
THEOREM InductiveInvariant == Spec => []Inductive
<1>1. Init => TypeOK /\ Sourced /\ Kept /\ JobsFit
  BY TypeInit, SourcedInit, KeptInit, JobsInit DEF JobsFit, JobFits
<1>2. /\ TypeOK /\ Sourced /\ Kept /\ JobsFit /\ [Next]_vars
      => TypeOK' /\ Sourced' /\ Kept' /\ JobsFit'
  BY TypeStep, SourcedStep, KeptStep, JobsStep DEF Sourced
<1>3. TypeOK /\ Sourced /\ Kept /\ JobsFit => Inductive
  BY DEF Sourced, Kept, KeptOf, ForgottenForACause, Undisturbed, Inductive
<1>4. QED BY <1>1, <1>2, <1>3, PTL DEF Spec

\* Deliveries, attempts and the timer of a payment run out, for any number of
\* attempts: each leaves less to do, and only a capture, a new row and a crash more.
THEOREM EffortsRunOut == Spec => EffortsEnd
<1> DEFINE Less(p) ==
      /\ Efforts(p)' <= Efforts(p)
      /\ Deliver(p) \/ Work(p) \/ Recover(p) => Efforts(p)' < Efforts(p)
<1>1. ASSUME Inductive, Inductive', [Next]_vars
      PROVE  [\A p \in Payments :
                 \/ Capture(p)
                 \/ RecordAdvance(p)
                 \/ Crash
                 \/ /\ Efforts(p)' <= Efforts(p)
                    /\ Deliver(p) \/ Work(p) \/ Recover(p) => Efforts(p)' < Efforts(p)]_vars
  <2>1. ASSUME NEW p \in Payments, ~Capture(p), ~RecordAdvance(p), ~Crash
        PROVE  Less(p)
    <3>1. TypeOK /\ TypeOK' /\ Provenance /\ JobFits(p) /\ JobFits(p)'
      BY <1>1, <2>1 DEF Inductive, JobsFit, JobFits
    <3>2. Efforts(p)' <= Efforts(p)
      BY <1>1, <2>1, <3>1, NoEffortAdded
    <3>3. Deliver(p) \/ Work(p) \/ Recover(p) => Efforts(p)' < Efforts(p)
      BY <3>1, EffortSpent
    <3>4. QED BY <3>2, <3>3
  <2>2. QED BY <2>1
<1>2. QED BY <1>1, InductiveInvariant, PTL DEF Spec, EffortsEnd

\* Without a fault or a refusal, a captured payment always has somebody who will
\* still try to finalize it.
THEOREM NothingForgotten == Spec => []ForgottenForACause
<1>1. Inductive => ForgottenForACause
  BY DEF Inductive
<1>2. QED BY <1>1, InductiveInvariant, PTL

-----------------------------------------------------------------------------
(***************************************************************************)
(* The pipeline implements Escrow.                                         *)
(***************************************************************************)

\* All that a step can do to the provider's view of p and to its row.
Moves(p) ==
  \/ row' = row /\ provider[p] # "captured" /\ provider' = [provider EXCEPT ![p] = "captured"]
  \/ row' = row /\ provider[p] = "created" /\ provider' = [provider EXCEPT ![p] = "failed"]
  \/ /\ provider' = provider
     /\ \/ row[p] = "none" /\ row' = [row EXCEPT ![p] = "PENDING"]
        \/ row[p] = "PENDING" /\ row' = [row EXCEPT ![p] = "FAILED"]
        \/ /\ row[p] \in {"PENDING", "FAILED"}
           /\ provider[p] = "captured"
           /\ row' = [row EXCEPT ![p] = "SUCCESS"]

LEMMA Confirms ==
  ASSUME TypeOK, Sourced, NEW p \in Payments, NEW source \in Sources,
         <<source, p>> \in finalizing, ~Refused(p),
         provider' = provider, row' = [row EXCEPT ![p] = "SUCCESS"]
  PROVE  Moves(p) \/ UNCHANGED <<provider, row>>
<1>1. provider[p] = "captured"
  BY DEF Sourced, OnlyCaptured
<1>2. row[p] \in {"PENDING", "FAILED", "SUCCESS"}
  BY DEF TypeOK, RowStatuses, Refused
<1>3. CASE row[p] = "SUCCESS"
  BY <1>3 DEF TypeOK
<1>4. CASE row[p] # "SUCCESS"
  BY <1>1, <1>2, <1>4 DEF Moves
<1>5. QED BY <1>3, <1>4

LEMMA StepMoves ==
  ASSUME TypeOK, Sourced, [Next]_vars
  PROVE  (\E p \in Payments : Moves(p)) \/ UNCHANGED <<provider, row>>
<1>1. ASSUME NEW p \in Payments, Local(p)
      PROVE  Moves(p) \/ UNCHANGED <<provider, row>>
  <2>1. CASE Around(p)
    BY <1>1, <2>1 DEF Around, Capture, Decline, RecordAdvance, TakePlace, FreePlace, Moves
  <2>2. CASE Deliver(p) \/ DropNotice(p) \/ StartJob(p) \/ RecoveryFires(p) \/ LockExpires(p)
    BY <2>2 DEF Deliver, ReceiveNotice, EnqueueNotice, DropNotice, StartJob, RecoveryFires,
       LockExpires, money
  <2>3. CASE EndJob(p)
    BY <2>3, Confirms DEF EndJob, Sources
  <2>4. CASE RecoveryEnds(p)
    BY <2>4, Confirms DEF RecoveryEnds, Sources
  <2>5. QED BY <1>1, <2>1, <2>2, <2>3, <2>4 DEF Local, Work, Recover
<1>2. ASSUME NEW p \in Payments, ReconcileMarksFailed(p)
      PROVE  Moves(p) \/ UNCHANGED <<provider, row>>
  BY <1>2 DEF ReconcileMarksFailed, Moves
<1>3. ASSUME NEW p \in Payments, ReconcileFinalized(p)
      PROVE  Moves(p) \/ UNCHANGED <<provider, row>>
  BY <1>3, Confirms DEF ReconcileFinalized, Sources
<1>4. CASE Reconcile
  BY <1>2, <1>3, <1>4 DEF Reconcile, EnqueueReconcile, StartReconcile, ReconcileTurns,
     ReconcileEnds, ReconcileFinalizes, ReconcileSkips, money
<1>5. CASE ReconcileLockExpires \/ Crash \/ UNCHANGED vars
  BY <1>5 DEF ReconcileLockExpires, Crash, vars, money
<1>6. QED BY <1>1, <1>4, <1>5 DEF Next, Local

\* Escrow's view of the rows and of the wallets.
Advance(rows) ==
  [p \in Payments |-> [t \in {"advance", "remaining"} |->
    IF t = "advance" THEN rows[p] ELSE "none"]]
Purse(rows) == [p \in Payments |-> IF rows[p] = "none" THEN 1 ELSE 0]
Taken(view) == {p \in Payments : view[p] = "captured"} \X {"advance"}

LEMMA AdvanceMoves ==
  ASSUME TypeOK, NEW p \in Payments, NEW status, row' = [row EXCEPT ![p] = status]
  PROVE  Advance(row') = [Advance(row) EXCEPT ![p]["advance"] = status]
BY DEF TypeOK, Advance

LEMMA PurseMoves ==
  ASSUME TypeOK, NEW p \in Payments, NEW status, status # "none",
         row' = [row EXCEPT ![p] = status]
  PROVE  Purse(row') = IF row[p] = "none" THEN [Purse(row) EXCEPT ![p] = Purse(row)[p] - 1]
                                          ELSE Purse(row)
BY DEF TypeOK, Purse

LEMMA EscrowInit == Init => Promise!Init
BY DEF Init, Promise!Init, Promise!PaymentTypes

LEMMA EscrowMoves ==
  ASSUME TypeOK, NEW p \in Payments, Moves(p)
  PROVE  [Promise!Next]_(Promise!vars)
<1> USE DEF Promise!vars, Promise!PaymentTypes
<1>1. CASE row' = row /\ provider[p] # "captured" /\ provider' = [provider EXCEPT ![p] = "captured"]
  <2>1. Taken(provider') = Taken(provider) \cup {<<p, "advance">>}
    BY <1>1 DEF TypeOK, Taken
  <2>2. Promise!Capture(p, "advance")
    BY <1>1, <2>1 DEF Promise!Capture, Taken
  <2>3. QED BY <2>2 DEF Promise!Next
<1>2. CASE row' = row /\ provider[p] = "created" /\ provider' = [provider EXCEPT ![p] = "failed"]
  <2>1. Taken(provider') = Taken(provider)
    BY <1>2 DEF TypeOK, Taken
  <2>2. QED BY <1>2, <2>1 DEF Taken
<1>3. CASE provider' = provider /\ row[p] = "none" /\ row' = [row EXCEPT ![p] = "PENDING"]
  <2>1. Advance(row') = [Advance(row) EXCEPT ![p]["advance"] = "PENDING"]
    BY <1>3, AdvanceMoves
  <2>2. Purse(row') = [Purse(row) EXCEPT ![p] = Purse(row)[p] - 1] /\ Purse(row)[p] > 0
    <3>1. Purse(row') = [Purse(row) EXCEPT ![p] = Purse(row)[p] - 1]
      BY <1>3, PurseMoves
    <3>2. Purse(row)[p] = 1
      BY <1>3 DEF Purse
    <3>3. QED BY <3>1, <3>2
  <2>3. Promise!RecordAdvance(p)
    BY <1>3, <2>1, <2>2 DEF Promise!RecordAdvance, Advance, Purse
  <2>4. QED BY <2>3 DEF Promise!Next
<1>4. CASE provider' = provider /\ row[p] = "PENDING" /\ row' = [row EXCEPT ![p] = "FAILED"]
  <2>1. Advance(row') = [Advance(row) EXCEPT ![p]["advance"] = "FAILED"]
    BY <1>4, AdvanceMoves
  <2>2. Purse(row') = Purse(row)
    BY <1>4, PurseMoves
  <2>3. Promise!Decline(p, "advance")
    BY <1>4, <2>1, <2>2 DEF Promise!Decline, Advance, Purse
  <2>4. QED BY <2>3 DEF Promise!Next
<1>5. CASE /\ provider' = provider
           /\ row[p] \in {"PENDING", "FAILED"}
           /\ provider[p] = "captured"
           /\ row' = [row EXCEPT ![p] = "SUCCESS"]
  <2>1. Advance(row') = [Advance(row) EXCEPT ![p]["advance"] = "SUCCESS"]
    BY <1>5, AdvanceMoves
  <2>2. Purse(row') = Purse(row)
    BY <1>5, PurseMoves
  <2>3. Promise!Confirm(p, "advance")
    BY <1>5, <2>1, <2>2 DEF Promise!Confirm, Advance, Purse
  <2>4. QED BY <2>3 DEF Promise!Next
<1>6. QED BY <1>1, <1>2, <1>3, <1>4, <1>5 DEF Moves

LEMMA EscrowStep ==
  TypeOK /\ Sourced /\ [Next]_vars => [Promise!Next]_(Promise!vars)
<1> SUFFICES ASSUME TypeOK, Sourced, [Next]_vars
             PROVE  [Promise!Next]_(Promise!vars)
  OBVIOUS
<1>1. CASE UNCHANGED <<provider, row>>
  BY <1>1 DEF Promise!vars
<1>2. QED BY <1>1, StepMoves, EscrowMoves

\* The webhook, the timer, reconciliation and the crashes between them keep the
\* promise about the money of an advance.
THEOREM EscrowImplemented == Spec => EscrowKept
<1>1. Inductive => TypeOK /\ Sourced
  BY DEF Inductive, Sourced
<1>2. Spec => Promise!Init /\ [][Promise!Next]_(Promise!vars)
  BY <1>1, EscrowInit, EscrowStep, InductiveInvariant, PTL DEF Spec
<1>3. QED BY <1>2 DEF EscrowKept, Promise!Spec

=============================================================================
