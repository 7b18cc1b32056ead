--------------------------- MODULE WebhookPipeline ---------------------------
(***************************************************************************)
(* How a captured advance reaches the finalizer: Razorpay's webhook, its   *)
(* dedupe row and BullMQ job; the recovery timer payAdvance arms; and the  *)
(* reconciliation job a cron enqueues.  All three call the finalizer,      *)
(* which takes a Redis lock per payment and may be refused by an index.    *)
(*                                                                         *)
(* A payment is the place of its row in the order of insertion, so a scan  *)
(* sorted by createdAt takes the least payment first.  Redis and MongoDB   *)
(* are configured; backoffs and the length of a TTL are not modelled.      *)
(***************************************************************************)
EXTENDS Naturals, FiniteSets

CONSTANTS
  Payments,     \* rows, numbered as they are inserted
  Contended,    \* payments whose slot or farmer another booking may take
  MaxAttempts,  \* attempts of a BullMQ job
  ScanLimit,    \* rows a reconciliation looks at
  MaxFaults     \* bound: crashes, failed calls and lost events in a behaviour

ASSUME Sizes ==
  /\ Payments \subseteq Nat \ {0}
  /\ Contended \subseteq Payments
  /\ MaxAttempts \in Nat \ {0}
  /\ ScanLimit \in Nat
  /\ MaxFaults \in Nat

VARIABLES
  provider,    \* payment -> Razorpay's status of it
  row,         \* payment -> status of its Payment document
  place,       \* payment -> may the indexes take its booking as confirmed?
  notice,      \* payment -> the event payment.captured, as Razorpay sees it
  seen,        \* payments whose event has a WebhookEvent document
  intake,      \* payments whose event is between its dedupe row and its job
  job,         \* payment -> state of its job in webhookQueue
  tries,       \* payment -> failed attempts of that job
  timer,       \* payments whose recovery timer is armed, in process memory
  finalizing,  \* <<source, payment>> for each finalizer that has its lock
  lock,        \* payment -> holder of lock:payment:finalize
  recJob,      \* state of the one job "reconcilePayments"
  recTries,    \* failed attempts of that job
  recLock,     \* state of lock:payments:reconcile
  phase,       \* which of its two loops the active reconciliation is in
  scan,        \* payments it has yet to look at
  declined,    \* payments it fetched as failed and has yet to mark
  faults       \* faults so far

money == <<provider, row, place>>
events == <<notice, seen, intake>>
jobs == <<job, tries, timer>>
locks == <<finalizing, lock>>
reconciler == <<recJob, recTries, recLock, phase, scan, declined>>
vars == <<money, events, jobs, locks, reconciler, faults>>

Sources == {"webhook", "recovery", "reconcile"}
RowStatuses == {"none", "PENDING", "SUCCESS", "FAILED"}
Providers == {"created", "captured", "failed"}
Places == {"free", "taken", "freed"}
Notices == {"none", "sent", "acked", "dropped"}
JobStates == {"none", "waiting", "active", "completed", "failed"}
Phases == {"pending", "mismatch"}

TypeOK ==
  /\ provider \in [Payments -> Providers]
  /\ row \in [Payments -> RowStatuses]
  /\ place \in [Payments -> Places]
  /\ notice \in [Payments -> Notices]
  /\ seen \subseteq Payments
  /\ intake \subseteq Payments
  /\ job \in [Payments -> JobStates]
  /\ tries \in [Payments -> Nat]
  /\ timer \subseteq Payments
  /\ finalizing \subseteq Sources \X Payments
  /\ lock \in [Payments -> Sources \cup {"free"}]
  /\ recJob \in JobStates
  /\ recTries \in Nat
  /\ recLock \in {"free", "held"}
  /\ phase \in Phases
  /\ scan \subseteq Payments
  /\ declined \subseteq Payments
  /\ faults \in Nat

Init ==
  /\ provider = [p \in Payments |-> "created"]
  /\ row = [p \in Payments |-> "none"]
  /\ place = [p \in Payments |-> "free"]
  /\ notice = [p \in Payments |-> "none"]
  /\ seen = {}
  /\ intake = {}
  /\ job = [p \in Payments |-> "none"]
  /\ tries = [p \in Payments |-> 0]
  /\ timer = {}
  /\ finalizing = {}
  /\ lock = [p \in Payments |-> "free"]
  /\ recJob = "none"
  /\ recTries = 0
  /\ recLock = "free"
  /\ phase = "pending"
  /\ scan = {}
  /\ declined = {}
  /\ faults = 0

\* Something outside the code goes wrong, or nothing does.
Fault == faults < MaxFaults /\ faults' = faults + 1
NoFault == UNCHANGED faults

-----------------------------------------------------------------------------
(***************************************************************************)
(* Around the pipeline: the provider, payAdvance, other bookings.          *)
(***************************************************************************)

Capture(p) ==
  /\ provider[p] # "captured"
  /\ provider' = [provider EXCEPT ![p] = "captured"]
  /\ notice' = [notice EXCEPT ![p] = "sent"]
  /\ UNCHANGED <<row, place, seen, intake, jobs, locks, reconciler, faults>>

Decline(p) ==
  /\ provider[p] = "created"
  /\ provider' = [provider EXCEPT ![p] = "failed"]
  /\ UNCHANGED <<row, place, events, jobs, locks, reconciler, faults>>

\* payAdvance records a payment, which the farmer may already have made, and
\* arms the recovery timer once its transaction has committed and others have
\* been told: the process may die before that.
RecordAdvance(p) ==
  /\ row[p] = "none"
  /\ \A q \in Payments : q < p => row[q] # "none"
  /\ row' = [row EXCEPT ![p] = "PENDING"]
  /\ \/ timer' = timer \cup {p} /\ NoFault
     \/ timer' = timer /\ Fault
  /\ UNCHANGED <<provider, place, events, job, tries, locks, reconciler>>

\* Another booking takes the slot or the farmer while the payment is pending,
\* and is finished or cancelled later.
TakePlace(p) ==
  /\ p \in Contended
  /\ place[p] = "free"
  /\ row[p] \in {"PENDING", "FAILED"}
  /\ place' = [place EXCEPT ![p] = "taken"]
  /\ UNCHANGED <<provider, row, events, jobs, locks, reconciler, faults>>

FreePlace(p) ==
  /\ place[p] = "taken"
  /\ place' = [place EXCEPT ![p] = "freed"]
  /\ UNCHANGED <<provider, row, events, jobs, locks, reconciler, faults>>

-----------------------------------------------------------------------------
(***************************************************************************)
(* razorpayWebhook: the dedupe row first, then the job.                    *)
(***************************************************************************)

\* Razorpay delivers and delivers again until it gets a 2xx answer.
ReceiveNotice(p) ==
  /\ notice[p] = "sent"
  /\ IF p \in seen
     THEN notice' = [notice EXCEPT ![p] = "acked"] /\ UNCHANGED <<seen, intake>>
     ELSE seen' = seen \cup {p} /\ intake' = intake \cup {p} /\ UNCHANGED notice
  /\ UNCHANGED <<money, jobs, locks, reconciler, faults>>

\* Mutant: the event is acknowledged before its job is queued, and that fails.
EnqueueNoticeUnqueued(p) ==
  /\ p \in intake
  /\ intake' = intake \ {p}
  /\ notice' = [notice EXCEPT ![p] = "acked"]
  /\ UNCHANGED <<job, faults>>
  /\ UNCHANGED <<money, seen, tries, timer, locks, reconciler>>

\* enqueueRazorpayWebhookJob, or a queue that cannot be reached: a 500.
EnqueueNotice(p) ==
  /\ p \in intake
  /\ intake' = intake \ {p}
  /\ \/ /\ job' = [job EXCEPT ![p] = "waiting"]
        /\ notice' = [notice EXCEPT ![p] = "acked"]
        /\ NoFault
     \/ UNCHANGED <<job, notice>> /\ Fault
  /\ UNCHANGED <<money, seen, tries, timer, locks, reconciler>>

\* Razorpay gives up after a day of answers that are no 2xx.
DropNotice(p) ==
  /\ notice[p] = "sent"
  /\ notice' = [notice EXCEPT ![p] = "dropped"]
  /\ Fault
  /\ UNCHANGED <<money, seen, intake, jobs, locks, reconciler>>

-----------------------------------------------------------------------------
(***************************************************************************)
(* The finalizer: lock, transaction, release.                              *)
(***************************************************************************)

Acquire(source, p) ==
  /\ lock[p] = "free"
  /\ lock' = [lock EXCEPT ![p] = source]
  /\ finalizing' = finalizing \cup {<<source, p>>}

Busy(p) == lock[p] # "free"

\* The token decides whose lock a release deletes; a release may be lost.
Release(source, p) ==
  /\ finalizing' = finalizing \ {<<source, p>>}
  /\ \/ /\ lock' = [lock EXCEPT ![p] = IF @ = source THEN "free" ELSE @]
        /\ NoFault
     \/ lock' = lock /\ Fault

\* The TTL, also while the holder is still at work.
LockExpires(p) ==
  /\ Busy(p)
  /\ lock' = [lock EXCEPT ![p] = "free"]
  /\ UNCHANGED <<money, events, jobs, finalizing, reconciler, faults>>

\* Mutant: only a payment that is still PENDING is finalized.
RefusedUnlessPending(p) == row[p] # "PENDING" \/ place[p] = "taken"

\* PAYMENT_NOT_FOUND, or a promotion that an index refuses.  What is not refused
\* ends in SUCCESS, a replay included.
Refused(p) == row[p] = "none" \/ (row[p] # "SUCCESS" /\ place[p] = "taken")

\* A failed attempt is retried until MaxAttempts, then it is a dead letter.
AttemptFails(p) ==
  /\ tries' = [tries EXCEPT ![p] = @ + 1]
  /\ job' = [job EXCEPT ![p] = IF tries[p] + 1 < MaxAttempts THEN "waiting" ELSE "failed"]

\* The webhook worker takes the job; a busy lock is a failed attempt.
StartJob(p) ==
  /\ job[p] = "waiting"
  /\ \/ Acquire("webhook", p) /\ job' = [job EXCEPT ![p] = "active"] /\ UNCHANGED tries
     \/ Busy(p) /\ AttemptFails(p) /\ UNCHANGED locks
  /\ UNCHANGED <<money, events, timer, reconciler, faults>>

EndJob(p) ==
  /\ <<"webhook", p>> \in finalizing
  /\ Release("webhook", p)
  /\ IF Refused(p)
     THEN AttemptFails(p) /\ UNCHANGED row
     ELSE /\ row' = [row EXCEPT ![p] = "SUCCESS"]
          /\ job' = [job EXCEPT ![p] = "completed"]
          /\ UNCHANGED tries
  /\ UNCHANGED <<provider, place, events, timer, reconciler>>

-----------------------------------------------------------------------------
(***************************************************************************)
(* schedulePaymentRecoveryCheck: one look at the provider, 45 s later.     *)
(***************************************************************************)

\* Mutant: the timer finalizes whatever the provider answered.
RecoveryFiresUnchecked(p) ==
  /\ p \in timer
  /\ timer' = timer \ {p}
  /\ \/ Acquire("recovery", p)
     \/ Busy(p) /\ UNCHANGED locks
  /\ UNCHANGED <<money, events, job, tries, reconciler, faults>>

RecoveryFires(p) ==
  /\ p \in timer
  /\ timer' = timer \ {p}
  /\ \/ provider[p] = "captured" /\ Acquire("recovery", p) /\ NoFault
     \/ provider[p] = "captured" /\ Busy(p) /\ UNCHANGED locks /\ NoFault
     \/ provider[p] # "captured" /\ UNCHANGED locks /\ NoFault
     \/ UNCHANGED locks /\ Fault
  /\ UNCHANGED <<money, events, job, tries, reconciler>>

RecoveryEnds(p) ==
  /\ <<"recovery", p>> \in finalizing
  /\ Release("recovery", p)
  /\ row' = IF Refused(p) THEN row ELSE [row EXCEPT ![p] = "SUCCESS"]
  /\ UNCHANGED <<provider, place, events, jobs, reconciler>>

-----------------------------------------------------------------------------
(***************************************************************************)
(* Reconciliation.                                                         *)
(***************************************************************************)

\* Every three minutes the cron adds the job under one fixed id; BullMQ ignores
\* the call while a job of that id is kept, also as completed or failed, and
\* removeOnComplete: 100 keeps this queue's only one.
EnqueueReconcile ==
  /\ recJob = "none"
  /\ recJob' = "waiting"
  /\ UNCHANGED <<money, events, jobs, locks, recTries, recLock, phase, scan, declined, faults>>

\* The rows a query with a limit returns, oldest first.
Oldest(rows) == {p \in rows : Cardinality({q \in rows : q < p}) < ScanLimit}

\* The worker takes the job; if the lock is held it completes without a scan.
StartReconcile ==
  /\ recJob = "waiting"
  /\ IF recLock = "held"
     THEN recJob' = "completed" /\ UNCHANGED <<recLock, phase, scan>>
     ELSE /\ recJob' = "active"
          /\ recLock' = "held"
          /\ phase' = "pending"
          /\ scan' = Oldest({p \in Payments : row[p] = "PENDING"})
  /\ UNCHANGED <<money, events, jobs, locks, recTries, declined, faults>>

\* The scan waits for the finalizer and for the mark it has asked for.
Scanning ==
  /\ recJob = "active"
  /\ declined = {}
  /\ \A p \in Payments : <<"reconcile", p>> \notin finalizing

IsNext(p) == p \in scan /\ \A q \in scan : p <= q

\* The finalizer throws and ends both loops: the job fails, or is tried again.
ReconcileThrows ==
  /\ recTries' = recTries + 1
  /\ recJob' = IF recTries + 1 < MaxAttempts THEN "waiting" ELSE "failed"
  /\ recLock' = "free"
  /\ scan' = {}
  /\ UNCHANGED <<phase, declined>>

\* One captured payment, or one mismatch: the finalizer, once its lock is free.
ReconcileFinalizes(p) ==
  /\ Scanning
  /\ IsNext(p)
  /\ phase = "mismatch" \/ provider[p] = "captured"
  /\ \/ /\ Acquire("reconcile", p)
        /\ scan' = scan \ {p}
        /\ UNCHANGED <<recJob, recTries, recLock, phase, declined>>
     \/ Busy(p) /\ ReconcileThrows /\ UNCHANGED locks
  /\ UNCHANGED <<money, events, jobs, faults>>

\* A payment that is not captured, or whose status cannot be fetched.
ReconcileSkips(p) ==
  /\ Scanning
  /\ IsNext(p)
  /\ phase = "pending"
  /\ \/ provider[p] = "created" /\ UNCHANGED declined /\ NoFault
     \/ provider[p] = "failed" /\ declined' = {p} /\ NoFault
     \/ UNCHANGED declined /\ Fault
  /\ scan' = scan \ {p}
  /\ UNCHANGED <<money, events, jobs, locks, recJob, recTries, recLock, phase>>

\* Mutants: the row is marked by its id alone, or in the provider's spelling.
ReconcileMarksFailedBlind(p) ==
  /\ p \in declined
  /\ declined' = {}
  /\ row' = [row EXCEPT ![p] = "FAILED"]
  /\ UNCHANGED <<provider, place, events, jobs, locks, recJob, recTries, recLock, phase, scan, faults>>

ReconcileMarksFailed(p) ==
  /\ p \in declined
  /\ declined' = {}
  /\ row' = IF row[p] = "PENDING" THEN [row EXCEPT ![p] = "FAILED"] ELSE row
  /\ UNCHANGED <<provider, place, events, jobs, locks, recJob, recTries, recLock, phase, scan, faults>>

ReconcileFinalized(p) ==
  /\ <<"reconcile", p>> \in finalizing
  /\ Release("reconcile", p)
  /\ IF Refused(p)
     THEN ReconcileThrows /\ UNCHANGED row
     ELSE row' = [row EXCEPT ![p] = "SUCCESS"] /\ UNCHANGED reconciler
  /\ UNCHANGED <<provider, place, events, jobs>>

\* After the pending rows, the confirmed ones whose booking is not "confirmed".
ReconcileTurns ==
  /\ Scanning
  /\ scan = {}
  /\ phase = "pending"
  /\ phase' = "mismatch"
  /\ \E mismatches \in SUBSET {p \in Payments : row[p] = "SUCCESS"} : scan' = Oldest(mismatches)
  /\ UNCHANGED <<money, events, jobs, locks, recJob, recTries, recLock, declined, faults>>

ReconcileEnds ==
  /\ Scanning
  /\ scan = {}
  /\ phase = "mismatch"
  /\ recJob' = "completed"
  /\ recLock' = "free"
  /\ UNCHANGED <<money, events, jobs, locks, recTries, phase, scan, declined, faults>>

ReconcileLockExpires ==
  /\ recLock = "held"
  /\ recLock' = "free"
  /\ UNCHANGED <<money, events, jobs, locks, recJob, recTries, phase, scan, declined, faults>>

-----------------------------------------------------------------------------
\* The process dies: timers, intakes and running finalizers are gone, the locks
\* stay until their TTL, and BullMQ hands a stalled job out again (it gives up a
\* job that stalls twice, which one crash does not reach).
Crash ==
  /\ Fault
  /\ intake' = {}
  /\ timer' = {}
  /\ finalizing' = {}
  /\ job' = [p \in Payments |-> IF job[p] = "active" THEN "waiting" ELSE job[p]]
  /\ recJob' = IF recJob = "active" THEN "waiting" ELSE recJob
  /\ scan' = {}
  /\ declined' = {}
  /\ UNCHANGED <<money, notice, seen, tries, lock, recTries, recLock, phase>>

Deliver(p) == ReceiveNotice(p) \/ EnqueueNotice(p)
Work(p) == StartJob(p) \/ EndJob(p)
Recover(p) == RecoveryFires(p) \/ RecoveryEnds(p)

Reconcile ==
  \/ EnqueueReconcile
  \/ StartReconcile
  \/ ReconcileTurns
  \/ ReconcileEnds
  \/ \E p \in Payments :
       \/ ReconcileFinalizes(p)
       \/ ReconcileSkips(p)
       \/ ReconcileMarksFailed(p)
       \/ ReconcileFinalized(p)

Around(p) == Capture(p) \/ Decline(p) \/ RecordAdvance(p) \/ TakePlace(p) \/ FreePlace(p)

Next ==
  \/ \E p \in Payments :
       Around(p) \/ Deliver(p) \/ DropNotice(p) \/ Work(p) \/ Recover(p) \/ LockExpires(p)
  \/ Reconcile
  \/ ReconcileLockExpires
  \/ Crash

Spec == Init /\ [][Next]_vars

\* Razorpay delivers until it is answered, BullMQ's workers take the jobs that
\* wait, a timer fires, node-cron ticks, and what has begun goes on; a lock
\* expires.  Nobody has to pay, to record a payment or to let go of a slot.
FairSpec ==
  /\ Spec
  /\ \A p \in Payments :
       WF_vars(Deliver(p)) /\ WF_vars(Work(p)) /\ WF_vars(Recover(p)) /\ WF_vars(LockExpires(p))
  /\ WF_vars(Reconcile)
  /\ WF_vars(ReconcileLockExpires)

-----------------------------------------------------------------------------
(***************************************************************************)
(* Properties.                                                             *)
(***************************************************************************)

Unfinished(p) == provider[p] = "captured" /\ row[p] \in {"PENDING", "FAILED"}

\* Somebody will still try to finalize p, whatever becomes of reconciliation.
InHand(p) ==
  \/ notice[p] = "sent"
  \/ p \in intake \cup timer
  \/ job[p] \in {"waiting", "active"}
  \/ \E source \in Sources : <<source, p>> \in finalizing

\* Money that was captured is never forgotten without a cause: when the webhook,
\* its job and the timer have all had their turn and the row is not SUCCESS, a
\* call failed, the process died, or an index refused the promotion.
ForgottenForACause ==
  \A p \in Payments : Unfinished(p) => InHand(p) \/ faults > 0 \/ place[p] # "free"

\* A row is confirmed, and anything that could confirm it under way, only for
\* money that was captured: the finalizer itself does not ask the provider.
OnlyCaptured ==
  \A p \in Payments :
    \/ row[p] = "SUCCESS"
    \/ p \in seen
    \/ \E source \in Sources : <<source, p>> \in finalizing
    => provider[p] = "captured"

\* Where nothing goes wrong and no index refuses, every captured advance that was
\* recorded is confirmed in the end: whichever comes first, the money, the row,
\* the webhook or the timer.
CapturedIsFinalized == \A p \in Payments : Unfinished(p) ~> row[p] = "SUCCESS"

\* What is left to do about p at most, reconciliation apart: its event and the
\* request that queues it, the attempts of its job, its timer and its finalizer.
ToDeliver(p) ==
  (CASE notice[p] = "sent" /\ p \notin seen -> 2 * MaxAttempts + 3
     [] notice[p] = "sent" /\ p \in seen -> 1
     [] OTHER -> 0)
  + (IF p \in intake THEN 2 * MaxAttempts + 1 ELSE 0)

ToWork(p) ==
  CASE job[p] = "waiting" -> 2 * (MaxAttempts - tries[p])
    [] job[p] = "active" -> 2 * (MaxAttempts - tries[p]) - 1
    [] OTHER -> 0

ToRecover(p) ==
  (IF p \in timer THEN 2 ELSE 0) + (IF <<"recovery", p>> \in finalizing THEN 1 ELSE 0)

Efforts(p) == ToDeliver(p) + ToWork(p) + ToRecover(p)

\* The safety half of CapturedIsFinalized.  Deliveries, attempts and the timer run
\* out: each takes something off, whatever else is under way and however it ends,
\* and only a capture, a new row or a crash, which hands an active job out again,
\* can add to it.
EffortsEnd ==
  [][\A p \in Payments :
       \/ Capture(p)
       \/ RecordAdvance(p)
       \/ Crash
       \/ /\ Efforts(p)' <= Efforts(p)
          /\ Deliver(p) \/ Work(p) \/ Recover(p) => Efforts(p)' < Efforts(p)]_vars

\* The pipeline keeps module Escrow's promise about advances.
Promise == INSTANCE Escrow WITH
  Bookings <- Payments,
  Farmers <- Payments,
  FarmerOf <- [p \in Payments |-> p],
  WalletStart <- 1,
  captured <- {p \in Payments : provider[p] = "captured"} \X {"advance"},
  row <- [p \in Payments |-> [t \in {"advance", "remaining"} |->
           IF t = "advance" THEN row[p] ELSE "none"]],
  wallet <- [p \in Payments |-> IF row[p] = "none" THEN 1 ELSE 0],
  began <- {},
  finished <- {},
  earned <- {}

EscrowKept == Promise!Spec

-----------------------------------------------------------------------------
(***************************************************************************)
(* The inductive invariant behind the safety properties.                   *)
(***************************************************************************)

\* Where an event, a job and a scanned row come from.
Provenance ==
  /\ \A p \in Payments :
       /\ notice[p] # "none" => provider[p] = "captured"
       /\ \/ p \in intake
          \/ job[p] # "none"
          \/ <<"webhook", p>> \in finalizing
          => p \in seen
  /\ phase = "mismatch" => \A p \in scan : row[p] = "SUCCESS"

\* As long as nothing has gone wrong: an event is delivered until its job is
\* queued, and whoever holds a lock is at work on the payment.
Undisturbed ==
  faults = 0 =>
    \A p \in Payments :
      /\ notice[p] # "dropped"
      /\ p \in seen /\ notice[p] = "sent" => p \in intake
      /\ Busy(p) => <<lock[p], p>> \in finalizing

\* A payment's one job is queued by its one intake, is active while the worker's
\* finalizer runs, and waits only while it has attempts left.
JobsFit ==
  \A p \in Payments :
    /\ p \in intake => job[p] = "none"
    /\ job[p] = "none" => tries[p] = 0
    /\ job[p] \in {"waiting", "active"} => tries[p] < MaxAttempts
    /\ <<"webhook", p>> \in finalizing <=> job[p] = "active"

Inductive ==
  /\ TypeOK /\ OnlyCaptured /\ ForgottenForACause
  /\ Provenance /\ Undisturbed /\ JobsFit

=============================================================================
