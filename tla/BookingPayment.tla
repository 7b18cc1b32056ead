--------------------------- MODULE BookingPayment ---------------------------
(***************************************************************************)
(* The booking and payment core: the booking documents, the payment rows,  *)
(* and every handler, cron and finalizer that writes them, as they         *)
(* interleave on one MongoDB.                                              *)
(*                                                                         *)
(* A handler that awaits between reading a booking and writing it is two   *)
(* or more actions of a request; between them any other step may happen,   *)
(* or the request may die (Crash).  A MongoDB transaction whose write set  *)
(* contains every document its decision rests on is one action, since a    *)
(* write conflict aborts it.                                               *)
(***************************************************************************)
EXTENDS Naturals, FiniteSets

CONSTANTS
  Bookings,      \* booking documents that may be created
  Farmers,       \* users with role farmer
  Operators,     \* users with role operator
  Slots,         \* (tractor, date, time) triples
  FarmerOf,      \* booking -> its farmer
  OperatorOf,    \* booking -> its operator
  SlotOf,        \* booking -> the slot it asks for
  Requests,      \* HTTP requests that can be in flight at the same time
  RequestKinds,  \* which requests the clients issue
  Outcomes,      \* how Razorpay may settle an attempt
  WalletStart    \* advances a farmer's wallet can cover at the start

Kinds == {"accept", "reject", "start", "complete", "cancelByFarmer",
          "cancelByOperator", "payAdvance", "payRemaining"}

ASSUME Assignment ==
  /\ IsFiniteSet(Bookings)
  /\ FarmerOf \in [Bookings -> Farmers]
  /\ OperatorOf \in [Bookings -> Operators]
  /\ SlotOf \in [Bookings -> Slots]

ASSUME Environment ==
  /\ RequestKinds \subseteq Kinds
  /\ Outcomes \subseteq {"captured", "failed"}
  /\ WalletStart \in Nat

-----------------------------------------------------------------------------
(***************************************************************************)
(* Documents.                                                              *)
(***************************************************************************)

\* BOOKING_STATUSES, and "absent" for a document not yet created.
Statuses == {"absent", "pending", "accepted", "rejected", "confirmed", "en_route",
             "in_progress", "completed", "payment_pending", "closed", "cancelled"}

\* FARMER_ACTIVE_BOOKING_STATUSES, also the filter of machine_slot_unique_active.
ActiveStatuses == {"pending", "accepted", "confirmed", "en_route", "in_progress"}

\* OPERATOR_RESPOND_BUSY_STATUSES.
BusyStatuses == {"accepted", "confirmed", "en_route", "in_progress"}

\* ACTION_BLOCKED_STATUSES and PAYMENT_TERMINAL_STATUSES.
TerminalStatuses == {"cancelled", "closed", "rejected"}

PaymentStatuses == {"no_payment", "advance_due", "advance_paid", "balance_due", "fully_paid"}
RefundStatuses == {"none", "pending", "approved", "rejected", "partial_failed"}
Cancellers == {"none", "farmer", "operator", "system"}

\* lockExpiresAt: null, still ahead, or past.
Locks == {"none", "set", "elapsed"}

Booking ==
  [status        : Statuses,
   paymentStatus : PaymentStatuses,
   refundStatus  : RefundStatuses,
   cancelledBy   : Cancellers,
   lock          : Locks,
   startTime     : BOOLEAN,
   endTime       : BOOLEAN]

NewBooking(status) ==
  [status |-> status, paymentStatus |-> "no_payment", refundStatus |-> "none",
   cancelledBy |-> "none", lock |-> "none", startTime |-> FALSE, endTime |-> FALSE]

PaymentTypes == {"advance", "remaining"}

\* The status of the one row that {bookingId, type} may have, or "none".  REFUNDED,
\* which only processRefund writes, is left to the module about refunds.
RowStatuses == {"none", "PENDING", "SUCCESS", "FAILED"}

\* A request between two of its awaits: what it is doing, on which booking,
\* and the document it has read.
Steps == {"accept", "acceptTx", "start", "complete", "cancelByFarmer", "cancelByOperator",
          "payAdvance", "payRemaining", "logAdvance", "logRemaining"}
Idle == [step |-> "idle"]
InFlight == [step : Steps, b : Bookings, read : Booking]

VARIABLES
  booking,     \* booking -> document
  payment,     \* booking -> payment type -> row status
  provider,    \* booking -> payment type -> Razorpay's view of the attempt
  wallet,      \* farmer -> advances the wallet still covers
  ledger,      \* <<booking, type>> with a LedgerTransaction of status success
  earning,     \* bookings with an OperatorEarning row
  request,     \* request -> Idle or a record of InFlight
  failedSeen   \* payments reconcileOnce fetched as failed and has yet to mark

docs == <<booking, payment>>
books == <<wallet, ledger, earning>>
vars == <<booking, payment, provider, wallet, ledger, earning, request, failedSeen>>

TypeOK ==
  /\ booking \in [Bookings -> Booking]
  /\ payment \in [Bookings -> [PaymentTypes -> RowStatuses]]
  /\ provider \in [Bookings -> [PaymentTypes -> {"created", "captured", "failed"}]]
  /\ wallet \in [Farmers -> Nat]
  /\ ledger \subseteq Bookings \X PaymentTypes
  /\ earning \subseteq Bookings
  /\ request \in [Requests -> {Idle} \cup InFlight]
  /\ failedSeen \subseteq Bookings \X PaymentTypes

Init ==
  /\ booking = [b \in Bookings |-> NewBooking("absent")]
  /\ payment = [b \in Bookings |-> [t \in PaymentTypes |-> "none"]]
  /\ provider = [b \in Bookings |-> [t \in PaymentTypes |-> "created"]]
  /\ wallet = [f \in Farmers |-> WalletStart]
  /\ ledger = {}
  /\ earning = {}
  /\ request = [r \in Requests |-> Idle]
  /\ failedSeen = {}

-----------------------------------------------------------------------------
(***************************************************************************)
(* The two partial unique indexes, and Mongoose's save().                  *)
(***************************************************************************)

\* Mutants: one of the two indexes is missing.
AdmitsFarmerOnly(b, status) ==
  status \in ActiveStatuses =>
    \A o \in Bookings \ {b} : booking[o].status \in ActiveStatuses => FarmerOf[o] # FarmerOf[b]

AdmitsSlotOnly(b, status) ==
  status \in ActiveStatuses =>
    \A o \in Bookings \ {b} : booking[o].status \in ActiveStatuses => SlotOf[o] # SlotOf[b]

\* Whether MongoDB lets b take this status: farmer_one_active_booking and
\* machine_slot_unique_active index only documents with an active status.
Admits(b, status) ==
  status \in ActiveStatuses =>
    \A o \in Bookings \ {b} :
      booking[o].status \in ActiveStatuses =>
        FarmerOf[o] # FarmerOf[b] /\ SlotOf[o] # SlotOf[b]

\* save() sends a $set of the paths whose value differs from the one read, by
\* _id and with no version check: every other path keeps what the database has.
Field(now, read, edited) == IF edited = read THEN now ELSE edited

Saved(now, read, edited) ==
  [status        |-> Field(now.status, read.status, edited.status),
   paymentStatus |-> Field(now.paymentStatus, read.paymentStatus, edited.paymentStatus),
   refundStatus  |-> Field(now.refundStatus, read.refundStatus, edited.refundStatus),
   cancelledBy   |-> Field(now.cancelledBy, read.cancelledBy, edited.cancelledBy),
   lock          |-> Field(now.lock, read.lock, edited.lock),
   startTime     |-> Field(now.startTime, read.startTime, edited.startTime),
   endTime       |-> Field(now.endTime, read.endTime, edited.endTime)]

\* Request r, idle so far, reads b and goes on to the given step.
Begin(r, step, b) ==
  /\ request[r] = Idle
  /\ request' = [request EXCEPT ![r] = [step |-> step, b |-> b, read |-> booking[b]]]

GoTo(r, step) == request' = [request EXCEPT ![r].step = step]
Finish(r) == request' = [request EXCEPT ![r] = Idle]
At(r, step) == request[r].step = step

\* The process dies, or the handler fails at one of its awaits or checks.
Crash(r) ==
  /\ request[r] # Idle
  /\ Finish(r)
  /\ UNCHANGED <<docs, provider, books, failedSeen>>

-----------------------------------------------------------------------------
(***************************************************************************)
(* Booking, responding, working, cancelling.                               *)
(***************************************************************************)

\* createBookingFlow's transaction: no active booking of the farmer, and the
\* insert passes both indexes.
Create(b) ==
  /\ booking[b].status = "absent"
  /\ Admits(b, "pending")
  /\ booking' = [booking EXCEPT ![b] = NewBooking("pending")]
  /\ UNCHANGED <<payment, provider, books, request, failedSeen>>

\* Other bookings of b's operator with one of the given statuses.
OthersOfOperator(b, statuses) ==
  {o \in Bookings \ {b} : OperatorOf[o] = OperatorOf[b] /\ booking[o].status \in statuses}

\* respondToBooking, accept: the checks made before the transaction ...
AcceptRead(r, b) ==
  /\ "accept" \in RequestKinds
  /\ booking[b].status = "pending"
  /\ OthersOfOperator(b, BusyStatuses) = {}
  /\ Begin(r, "accept", b)
  /\ UNCHANGED <<docs, provider, books, failedSeen>>

\* ... the transaction's look at the operator's other bookings, in its snapshot ...
AcceptTxRead(r) ==
  /\ At(r, "accept")
  /\ IF OthersOfOperator(request[r].b, {"accepted", "in_progress"}) = {}
     THEN GoTo(r, "acceptTx")
     ELSE Finish(r)
  /\ UNCHANGED <<docs, provider, books, failedSeen>>

\* Mutant: the update filters by _id alone.
AcceptCommitBlind(r) ==
  /\ At(r, "acceptTx")
  /\ booking' = [booking EXCEPT ![request[r].b].status = "accepted",
                                ![request[r].b].paymentStatus = "advance_due"]
  /\ Finish(r)
  /\ UNCHANGED <<payment, provider, books, failedSeen>>

\* ... and its conditional update, which conflicts with writes to b alone.
AcceptCommit(r) ==
  /\ At(r, "acceptTx")
  /\ LET b == request[r].b
         due == IF request[r].read.paymentStatus = "no_payment"
                THEN "advance_due" ELSE booking[b].paymentStatus
     IN booking' = IF booking[b].status = "pending"
                   THEN [booking EXCEPT ![b].status = "accepted", ![b].paymentStatus = due]
                   ELSE booking
  /\ Finish(r)
  /\ UNCHANGED <<payment, provider, books, failedSeen>>

\* respondToBooking, reject: one conditional update.
Reject(b) ==
  /\ "reject" \in RequestKinds
  /\ booking[b].status = "pending"
  /\ booking' = [booking EXCEPT ![b].status = "rejected"]
  /\ UNCHANGED <<payment, provider, books, request, failedSeen>>

\* The end of a handler that edits the document it read and saves it: the save
\* lands, or an index refuses it (E11000) and the handler fails.
SaveAndFinish(r, edited) ==
  LET b == request[r].b
      doc == Saved(booking[b], request[r].read, edited)
  IN /\ booking' = IF Admits(b, doc.status) THEN [booking EXCEPT ![b] = doc] ELSE booking
     /\ Finish(r)
     /\ UNCHANGED <<payment, provider, books, failedSeen>>

\* Mutant: a job may start while its advance is being confirmed.
StartJobReadUnconfirmed(r, b) ==
  /\ "start" \in RequestKinds
  /\ booking[b].status \in {"confirmed", "en_route", "payment_pending"}
  /\ booking[b].paymentStatus = "advance_paid"
  /\ Begin(r, "start", b)
  /\ UNCHANGED <<docs, provider, books, failedSeen>>

StartJobRead(r, b) ==
  /\ "start" \in RequestKinds
  /\ booking[b].status \in {"confirmed", "en_route"}
  /\ booking[b].paymentStatus = "advance_paid"
  /\ Begin(r, "start", b)
  /\ UNCHANGED <<docs, provider, books, failedSeen>>

StartJobSave(r) ==
  /\ At(r, "start")
  /\ SaveAndFinish(r, [request[r].read EXCEPT !.status = "in_progress", !.startTime = TRUE])

CompleteJobRead(r, b) ==
  /\ "complete" \in RequestKinds
  /\ booking[b].status = "in_progress"
  /\ booking[b].paymentStatus = "advance_paid"
  /\ booking[b].startTime
  /\ Begin(r, "complete", b)
  /\ UNCHANGED <<docs, provider, books, failedSeen>>

CompleteJobSave(r) ==
  /\ At(r, "complete")
  /\ SaveAndFinish(r, [request[r].read EXCEPT !.status = "completed",
                                               !.paymentStatus = "balance_due",
                                               !.endTime = TRUE])

CancelRead(r, b, kind) ==
  /\ kind \in {"cancelByFarmer", "cancelByOperator"} \cap RequestKinds
  /\ booking[b].status \notin {"absent", "completed", "closed", "cancelled", "rejected"}
  /\ Begin(r, kind, b)
  /\ UNCHANGED <<docs, provider, books, failedSeen>>

\* The advance comes back only when the operator cancels.
CancelByFarmerSave(r) ==
  /\ At(r, "cancelByFarmer")
  /\ SaveAndFinish(r, [request[r].read EXCEPT !.status = "cancelled",
                                               !.cancelledBy = "farmer",
                                               !.refundStatus = "none"])

CancelByOperatorSave(r) ==
  /\ At(r, "cancelByOperator")
  /\ LET read == request[r].read
     IN SaveAndFinish(r, [read EXCEPT
          !.status = "cancelled",
          !.cancelledBy = "operator",
          !.refundStatus = IF read.paymentStatus = "advance_paid" THEN "pending" ELSE "none"])

-----------------------------------------------------------------------------
(***************************************************************************)
(* Paying.  The farmer goes through Razorpay's checkout, then reports the  *)
(* attempt to payAdvance or payRemaining, which record it as PENDING.      *)
(***************************************************************************)

\* Razorpay settles an attempt; a failed one may still be captured late.
ProviderSettles(b, t, outcome) ==
  /\ outcome \in Outcomes
  /\ \/ payment[b][t] # "none"
     \/ booking[b].status = (IF t = "advance" THEN "accepted" ELSE "completed")
  /\ \/ provider[b][t] = "created"
     \/ provider[b][t] = "failed" /\ outcome = "captured"
  /\ provider' = [provider EXCEPT ![b][t] = outcome]
  /\ UNCHANGED <<docs, books, request, failedSeen>>

Recorded(b, t) == payment[b][t] \in {"PENDING", "SUCCESS"}

\* The checks of payAdvance and payRemaining before their transactions; the
\* first request that finds a recorded row only replays it.
PayAdvanceRead(r, b) ==
  /\ "payAdvance" \in RequestKinds
  /\ booking[b].status \notin TerminalStatuses \cup {"absent"}
  /\ ~Recorded(b, "advance")
  /\ Begin(r, "payAdvance", b)
  /\ UNCHANGED <<docs, provider, books, failedSeen>>

\* The transaction reads the booking again, debits the wallet and inserts the
\* one row that {bookingId, type} may have.
CanPayAdvance(b) ==
  /\ booking[b].status = "accepted"
  /\ booking[b].paymentStatus = "advance_due"
  /\ wallet[FarmerOf[b]] > 0
  /\ payment[b]["advance"] = "none"

PayAdvanceTx(r) ==
  /\ At(r, "payAdvance")
  /\ LET b == request[r].b
     IN /\ CanPayAdvance(b)
        /\ wallet' = [wallet EXCEPT ![FarmerOf[b]] = @ - 1]
        /\ payment' = [payment EXCEPT ![b]["advance"] = "PENDING"]
        /\ booking' = [booking EXCEPT ![b].status = "payment_pending",
                                      ![b].paymentStatus = "advance_paid",
                                      ![b].lock = "set"]
  /\ GoTo(r, "logAdvance")
  /\ UNCHANGED <<provider, ledger, earning, failedSeen>>

\* Mutant: the wallet is debited outside the transaction that fails.
PayAdvanceRefusedDebited(r) ==
  /\ At(r, "payAdvance")
  /\ ~CanPayAdvance(request[r].b)
  /\ wallet' = [wallet EXCEPT ![FarmerOf[request[r].b]] = IF @ > 0 THEN @ - 1 ELSE @]
  /\ Finish(r)
  /\ UNCHANGED <<docs, provider, ledger, earning, failedSeen>>

PayAdvanceRefused(r) ==
  /\ At(r, "payAdvance")
  /\ ~CanPayAdvance(request[r].b)
  /\ Finish(r)
  /\ UNCHANGED <<docs, provider, books, failedSeen>>

PayRemainingRead(r, b) ==
  /\ "payRemaining" \in RequestKinds
  /\ booking[b].status \notin TerminalStatuses \cup {"absent"}
  /\ Begin(r, "payRemaining", b)
  /\ UNCHANGED <<docs, provider, books, failedSeen>>

\* Mutant: the balance is accepted while the work goes on.
CanPayRemainingEarly(b) ==
  /\ booking[b].status \in {"in_progress", "completed"}
  /\ payment[b]["remaining"] = "none"

CanPayRemaining(b) ==
  /\ booking[b].status = "completed"
  /\ booking[b].paymentStatus = "balance_due"
  /\ payment[b]["remaining"] = "none"

PayRemainingTx(r) ==
  /\ At(r, "payRemaining")
  /\ LET b == request[r].b
     IN /\ CanPayRemaining(b)
        /\ payment' = [payment EXCEPT ![b]["remaining"] = "PENDING"]
        /\ booking' = [booking EXCEPT ![b].status = "payment_pending",
                                      ![b].paymentStatus = "fully_paid",
                                      ![b].lock = "set"]
  /\ GoTo(r, "logRemaining")
  /\ UNCHANGED <<provider, books, failedSeen>>

\* The payment is already recorded, as found before the transaction or after it
\* failed: the only place where a booking that has closed is settled, and then
\* only if a commission is active.
PayRemainingReplay(r) ==
  /\ At(r, "payRemaining")
  /\ LET b == request[r].b
     IN /\ Recorded(b, "remaining")
        /\ \/ /\ booking[b].status = "closed"
              /\ booking[b].paymentStatus = "fully_paid"
              /\ earning' = earning \cup {b}
           \/ earning' = earning
  /\ Finish(r)
  /\ UNCHANGED <<docs, provider, wallet, ledger, failedSeen>>

PayRemainingRefused(r) ==
  /\ At(r, "payRemaining")
  /\ ~CanPayRemaining(request[r].b)
  /\ ~Recorded(request[r].b, "remaining")
  /\ Finish(r)
  /\ UNCHANGED <<docs, provider, books, failedSeen>>

\* logPaymentSuccess, awaited after the transaction has committed.
LogPayment(r) ==
  /\ \E t \in PaymentTypes :
       /\ At(r, IF t = "advance" THEN "logAdvance" ELSE "logRemaining")
       /\ ledger' = ledger \cup {<<request[r].b, t>>}
  /\ Finish(r)
  /\ UNCHANGED <<docs, provider, wallet, earning, failedSeen>>

-----------------------------------------------------------------------------
(***************************************************************************)
(* finalizeRazorpayPaymentCaptured: one transaction, called by the webhook *)
(* worker, by the recovery timer and by reconciliation, any number of      *)
(* times and in any order, once Razorpay reports the payment captured.     *)
(***************************************************************************)

\* Mutant: the provider's status is not looked at.
CanFinalizeUncaptured(b, t) == payment[b][t] \in {"PENDING", "FAILED"}

CanFinalize(b, t) ==
  /\ provider[b][t] = "captured"
  /\ payment[b][t] \in {"PENDING", "FAILED"}

\* Mutant: only an accepted booking is promoted by its advance.
PromotedAcceptedOnly(b, t) ==
  CASE t = "advance" /\ booking[b].status = "accepted" -> "confirmed"
    [] t = "remaining" /\ booking[b].status = "payment_pending"
         /\ booking[b].paymentStatus = "fully_paid" -> "closed"
    [] OTHER -> booking[b].status

\* The status the booking is promoted to, or its own when it is not promoted.
Promoted(b, t) ==
  CASE t = "advance" /\ booking[b].status \in {"accepted", "payment_pending"} -> "confirmed"
    [] t = "remaining" /\ booking[b].status = "payment_pending"
         /\ booking[b].paymentStatus = "fully_paid" -> "closed"
    [] OTHER -> booking[b].status

\* An index that refuses the promotion aborts the transaction, row and all.
FinalizePromote(b, t) ==
  /\ CanFinalize(b, t)
  /\ Promoted(b, t) # booking[b].status
  /\ Admits(b, Promoted(b, t))
  /\ payment' = [payment EXCEPT ![b][t] = "SUCCESS"]
  /\ booking' = [booking EXCEPT ![b].status = Promoted(b, t), ![b].lock = "none"]
  /\ UNCHANGED <<provider, books, request, failedSeen>>

\* The money is in, the booking is no longer waiting for it: only the row moves.
\* The booking read here is not written, so nothing conflicts with its readers; it
\* cannot begin to wait for this row later, as the row is inserted with the wait.
FinalizeRowOnly(b, t) ==
  /\ CanFinalize(b, t)
  /\ Promoted(b, t) = booking[b].status
  /\ payment' = [payment EXCEPT ![b][t] = "SUCCESS"]
  /\ UNCHANGED <<booking, provider, books, request, failedSeen>>

\* reconcileOnce: fetch the status of a PENDING payment, then mark it.
ReconcileFetchFailed(b, t) ==
  /\ payment[b][t] = "PENDING"
  /\ provider[b][t] = "failed"
  /\ <<b, t>> \notin failedSeen
  /\ failedSeen' = failedSeen \cup {<<b, t>>}
  /\ UNCHANGED <<docs, provider, books, request>>

\* Mutants: the row is marked by its id alone, or in the provider's spelling.
ReconcileMarkFailedBlind(b, t) ==
  /\ <<b, t>> \in failedSeen
  /\ failedSeen' = failedSeen \ {<<b, t>>}
  /\ payment' = [payment EXCEPT ![b][t] = "FAILED"]
  /\ UNCHANGED <<booking, provider, books, request>>

ReconcileMarkFailedAsProvider(b, t) ==
  /\ <<b, t>> \in failedSeen
  /\ failedSeen' = failedSeen \ {<<b, t>>}
  /\ payment' = IF payment[b][t] = "PENDING"
                THEN [payment EXCEPT ![b][t] = provider[b][t]] ELSE payment
  /\ UNCHANGED <<booking, provider, books, request>>

ReconcileMarkFailed(b, t) ==
  /\ <<b, t>> \in failedSeen
  /\ failedSeen' = failedSeen \ {<<b, t>>}
  /\ payment' = IF payment[b][t] = "PENDING"
                THEN [payment EXCEPT ![b][t] = "FAILED"] ELSE payment
  /\ UNCHANGED <<booking, provider, books, request>>

-----------------------------------------------------------------------------
(***************************************************************************)
(* Crons.  Ages are not modelled: a deadline passes at any time.           *)
(***************************************************************************)

\* PAYMENT_PENDING_TTL_MS passes; lockExpiresAt is read only while it matters.
LockElapses(b) ==
  /\ booking[b].status = "payment_pending"
  /\ booking[b].lock = "set"
  /\ booking' = [booking EXCEPT ![b].lock = "elapsed"]
  /\ UNCHANGED <<payment, provider, books, request, failedSeen>>

\* expireOnce, its transaction on one candidate.
ExpireLock(b) ==
  /\ booking[b].status = "payment_pending"
  /\ booking[b].lock = "elapsed"
  /\ booking' = [booking EXCEPT ![b].status = "cancelled",
                                ![b].cancelledBy = "system",
                                ![b].lock = "none"]
  /\ UNCHANGED <<payment, provider, books, request, failedSeen>>

\* bookingReminder: four hours without an answer ...
CancelUnanswered(b) ==
  /\ booking[b].status = "pending"
  /\ booking' = [booking EXCEPT ![b].status = "cancelled", ![b].cancelledBy = "system"]
  /\ UNCHANGED <<payment, provider, books, request, failedSeen>>

\* Mutant: the deadline of the advance looks for the wrong payment status.
CancelUnpaidNoPayment(b) ==
  /\ booking[b].status = "accepted"
  /\ booking[b].paymentStatus = "no_payment"
  /\ booking' = [booking EXCEPT ![b].status = "cancelled", ![b].cancelledBy = "system"]
  /\ UNCHANGED <<payment, provider, books, request, failedSeen>>

\* ... or thirty minutes without the advance, as conditional updates.
CancelUnpaid(b) ==
  /\ booking[b].status = "accepted"
  /\ booking[b].paymentStatus = "advance_due"
  /\ booking' = [booking EXCEPT ![b].status = "cancelled", ![b].cancelledBy = "system"]
  /\ UNCHANGED <<payment, provider, books, request, failedSeen>>

-----------------------------------------------------------------------------
Read(r, b) ==
  \/ AcceptRead(r, b)
  \/ StartJobRead(r, b)
  \/ CompleteJobRead(r, b)
  \/ \E kind \in {"cancelByFarmer", "cancelByOperator"} : CancelRead(r, b, kind)
  \/ PayAdvanceRead(r, b)
  \/ PayRemainingRead(r, b)

Continue(r) ==
  \/ AcceptTxRead(r)
  \/ AcceptCommit(r)
  \/ StartJobSave(r)
  \/ CompleteJobSave(r)
  \/ CancelByFarmerSave(r)
  \/ CancelByOperatorSave(r)
  \/ PayAdvanceTx(r)
  \/ PayAdvanceRefused(r)
  \/ PayRemainingTx(r)
  \/ PayRemainingReplay(r)
  \/ PayRemainingRefused(r)
  \/ LogPayment(r)
  \/ Crash(r)

Finalizer(b, t) ==
  \/ FinalizePromote(b, t)
  \/ FinalizeRowOnly(b, t)
  \/ ReconcileFetchFailed(b, t)
  \/ ReconcileMarkFailed(b, t)

Cron(b) == ExpireLock(b) \/ CancelUnanswered(b) \/ CancelUnpaid(b)

Next ==
  \/ \E b \in Bookings : Create(b) \/ Reject(b) \/ LockElapses(b) \/ Cron(b)
  \/ \E b \in Bookings, t \in PaymentTypes :
       \/ Finalizer(b, t)
       \/ \E outcome \in {"captured", "failed"} : ProviderSettles(b, t, outcome)
  \/ \E r \in Requests : Continue(r) \/ \E b \in Bookings : Read(r, b)

Spec == Init /\ [][Next]_vars

\* Time passes and the two crons keep ticking: node-cron runs them every minute
\* on the instance that gets the leader lock.
FairSpec ==
  /\ Spec
  /\ \A b \in Bookings : WF_vars(LockElapses(b)) /\ WF_vars(Cron(b))

-----------------------------------------------------------------------------
(***************************************************************************)
(* Properties.                                                             *)
(***************************************************************************)

Collected(b, t) == payment[b][t] = "SUCCESS"

\* A booking that has got past the advance, and any request that has read it
\* so, stands on an advance that was confirmed, even when a save made from an
\* old read has moved the booking around in the meantime.
WorkNeedsAdvance ==
  \A b \in Bookings :
    \/ booking[b].status \in {"confirmed", "en_route", "in_progress", "completed", "closed"}
    \/ booking[b].paymentStatus \in {"balance_due", "fully_paid"}
    => Collected(b, "advance")

\* A booking's money and work keep their order: a balance row exists only for
\* work that started and ended, and a closed or settled booking has collected it.
MoneyOrder ==
  \A b \in Bookings :
    /\ payment[b]["remaining"] # "none" => booking[b].endTime /\ Collected(b, "advance")
    /\ booking[b].endTime => booking[b].startTime
    /\ booking[b].status = "closed" \/ b \in earning => Collected(b, "remaining")

\* A booking that waits for a payment is one that a deadline will find.  An accepted
\* one owes its advance, as bookingReminder asks, whatever was read when it was
\* accepted.  One in payment_pending has a lock, as expireOnce asks, and waits for a
\* row that is there and still unconfirmed: the finalizer's no-op on a SUCCESS row
\* cannot strand it.
AwaitedPayment ==
  \A b \in Bookings :
    /\ booking[b].status = "accepted" => booking[b].paymentStatus = "advance_due"
    /\ booking[b].status = "payment_pending" =>
         /\ booking[b].lock # "none"
         /\ \/ booking[b].paymentStatus = "advance_paid"
               /\ payment[b]["advance"] \in {"PENDING", "FAILED"}
            \/ booking[b].paymentStatus = "fully_paid"
               /\ payment[b]["remaining"] \in {"PENDING", "FAILED"}

\* One tractor, and one farmer, is never at work or due to be for two bookings at
\* once, although both are let go while a payment is confirmed and a stale save
\* can bring a cancelled booking back.
Engaged(b) == booking[b].status \in {"confirmed", "en_route", "in_progress"}

NoDoubleWork ==
  \A b, o \in Bookings :
    /\ b # o
    /\ SlotOf[b] = SlotOf[o] \/ FarmerOf[b] = FarmerOf[o]
    => ~(Engaged(b) /\ Engaged(o))

\* Two payAdvance requests of one farmer, retried or for several bookings, debit
\* the wallet once for each advance row and never below zero.
WalletPaysOnce ==
  \A f \in Farmers :
    wallet[f] + Cardinality({b \in Bookings :
      FarmerOf[b] = f /\ payment[b]["advance"] # "none"}) = WalletStart

\* A confirmed payment is never declined afterwards: not by a reconciliation
\* that fetched the status before a late capture.
SuccessIsFinal ==
  [][\A b \in Bookings, t \in PaymentTypes : Collected(b, t) => Collected(b, t)']_vars

\* The transitions assertBookingTransition allows.
NextStatuses(status) ==
  CASE status = "pending" -> {"accepted", "rejected", "cancelled"}
    [] status = "accepted" -> {"payment_pending", "cancelled"}
    [] status = "payment_pending" -> {"confirmed", "closed", "cancelled"}
    [] status = "confirmed" -> {"in_progress", "cancelled"}
    [] status = "en_route" -> {"in_progress", "cancelled"}
    [] status = "in_progress" -> {"completed", "cancelled"}
    [] status = "completed" -> {"payment_pending", "closed", "cancelled"}
    [] OTHER -> {}

\* A request finishes by saving b, which is no longer as it read it.
StaleSave(b) ==
  \E r \in Requests :
    /\ request[r].step \in {"start", "complete", "cancelByFarmer", "cancelByOperator"}
    /\ request[r].b = b
    /\ request[r].read.status # booking[b].status
    /\ request'[r] = Idle

\* Every change of status follows assertBookingTransition's map, except those
\* made by a save whose booking has changed since it was read.
OnlyStaleSavesLeaveTheMap ==
  [][\A b \in Bookings :
       \/ booking[b].status \in {"absent", booking'[b].status}
       \/ booking'[b].status \in NextStatuses(booking[b].status)
       \/ StaleSave(b)]_vars

Waiting == {"pending", "accepted", "payment_pending"}

\* Nobody waits for ever: a booking that waits for the operator, for the advance
\* or for the provider leaves these stages, by an answer or by a deadline.
WaitingEnds ==
  \A b \in Bookings :
    booking[b].status \in Waiting ~> booking[b].status \notin Waiting

\* How many deadlines are ahead of a booking while it waits; 0 when it does not.
Stage(b) ==
  CASE booking[b].status = "pending" -> 4
    [] booking[b].status = "accepted" -> 3
    [] booking[b].status = "payment_pending" /\ booking[b].lock = "set" -> 2
    [] booking[b].status = "payment_pending" /\ booking[b].lock # "set" -> 1
    [] OTHER -> 0

\* The safety half of WaitingEnds.  While a booking waits, no handler, finalizer or
\* stale save gives it back a stage it has left, and a deadline that passes, or a
\* cron that acts on it, takes one away.
WaitShortens ==
  [][\A b \in Bookings :
       Stage(b) > 0 =>
         /\ Stage(b)' <= Stage(b)
         /\ LockElapses(b) \/ Cron(b) => Stage(b)' < Stage(b)]_vars

\* The backend implements the promise of module Escrow.
Promise == INSTANCE Escrow WITH
  captured <- {p \in Bookings \X PaymentTypes : provider[p[1]][p[2]] = "captured"},
  row      <- payment,
  began    <- {b \in Bookings : booking[b].startTime},
  finished <- {b \in Bookings : booking[b].endTime},
  earned   <- earning

EscrowKept == Promise!Spec

\* What a booking occupies while it is active, and how it stands: a booking that is
\* being paid for, or is over, occupies nothing, and a stale save may bring it back.
Needs == [b \in Bookings |-> {<<"farmer", FarmerOf[b]>>, <<"slot", SlotOf[b]>>}]

Standing ==
  [b \in Bookings |->
     CASE booking[b].status = "absent" -> "none"
       [] booking[b].status \in ActiveStatuses -> "active"
       [] OTHER -> "aside"]

\* The backend implements the promise of module Reservation: whichever handler,
\* finalizer or stale save makes a booking active, its farmer and its slot are
\* vacant at that step.
Reserved == INSTANCE Reservation WITH needs <- Needs, state <- Standing

ReservationKept == Reserved!Spec

-----------------------------------------------------------------------------
(***************************************************************************)
(* The inductive invariant behind the safety properties.                   *)
(***************************************************************************)

\* What MongoDB's indexes keep true of all documents.
IndexesHold == \A b \in Bookings : Admits(b, booking[b].status)

\* The work of a booking follows its creation and precedes its balance.
WorkDates ==
  \A b \in Bookings :
    /\ booking[b].status = "absent" => ~booking[b].startTime /\ ~booking[b].endTime
    /\ \/ booking[b].status \in {"completed", "closed"}
       \/ booking[b].paymentStatus \in {"balance_due", "fully_paid"}
       => booking[b].endTime

\* The row of the advance is inserted as the booking leaves "accepted" for good.
AdvanceRow ==
  \A b \in Bookings :
    booking[b].status \in {"absent", "pending", "accepted", "rejected"} =>
      payment[b]["advance"] = "none"

\* Nothing is due before the operator has accepted.
NothingDue ==
  \A b \in Bookings :
    booking[b].status \in {"absent", "pending"} => booking[b].paymentStatus = "no_payment"

\* What a request read, and what is still true of the booking when it saves.
ReadFits(q) ==
  /\ booking[q.b].status # "absent"
  /\ q.read.startTime => booking[q.b].startTime
  /\ q.read.endTime => booking[q.b].endTime
  /\ q.step \in {"accept", "acceptTx"} => q.read.paymentStatus = "no_payment"
  /\ q.step = "start" =>
       q.read.status \in {"confirmed", "en_route"} /\ Collected(q.b, "advance")
  /\ q.step = "complete" =>
       /\ q.read.status = "in_progress"
       /\ q.read.startTime
       /\ Collected(q.b, "advance")
  /\ q.step \in {"cancelByFarmer", "cancelByOperator"} =>
       q.read.status \notin {"absent", "completed", "closed", "cancelled", "rejected"}

ReadsFit == \A r \in Requests : request[r] # Idle => ReadFits(request[r])

\* Every safety property above follows from this, and every step preserves it.
Inductive ==
  /\ TypeOK
  /\ WorkNeedsAdvance
  /\ MoneyOrder
  /\ AwaitedPayment
  /\ IndexesHold
  /\ WorkDates
  /\ AdvanceRow
  /\ NothingDue
  /\ ReadsFit

=============================================================================
