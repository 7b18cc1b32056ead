------------------------ MODULE BookingPaymentProofs ------------------------
(***************************************************************************)
(* Proofs about BookingPayment, for any number of bookings, farmers,       *)
(* operators, slots and requests.                                          *)
(***************************************************************************)
EXTENDS BookingPayment, FiniteSetTheorems, TLAPS

\* The four handlers that end by saving the document they read.
Saves(r) ==
  StartJobSave(r) \/ CompleteJobSave(r) \/ CancelByFarmerSave(r) \/ CancelByOperatorSave(r)

\* The steps that write no document.
NoDocument == UNCHANGED docs

-----------------------------------------------------------------------------
\* A save writes a well-formed document, whatever the handler edited.
LEMMA SavedType ==
  ASSUME NEW now \in Booking, NEW read \in Booking, NEW edited \in Booking
  PROVE  Saved(now, read, edited) \in Booking
BY DEF Saved, Field, Booking

\* A request in flight is a record that names a booking and what was read of it.
LEMMA InFlightType ==
  ASSUME TypeOK, NEW r \in Requests, request[r] # Idle
  PROVE  /\ request[r] \in InFlight
         /\ request[r].b \in Bookings
         /\ request[r].read \in Booking
         /\ booking[request[r].b] \in Booking
BY DEF TypeOK, InFlight

\* Typing survives the three moves of a request.
LEMMA BeginType ==
  ASSUME TypeOK, NEW r \in Requests, NEW step \in Steps, NEW b \in Bookings,
         Begin(r, step, b)
  PROVE  request' \in [Requests -> {Idle} \cup InFlight]
<1>1. [step |-> step, b |-> b, read |-> booking[b]] \in InFlight
  BY DEF TypeOK, InFlight
<1>2. QED BY <1>1 DEF TypeOK, Begin

LEMMA GoToType ==
  ASSUME TypeOK, NEW r \in Requests, NEW step \in Steps, request[r] # Idle, GoTo(r, step)
  PROVE  request' \in [Requests -> {Idle} \cup InFlight]
<1>1. request[r] \in InFlight
  BY InFlightType
<1>2. [request[r] EXCEPT !.step = step] \in InFlight
  BY <1>1 DEF InFlight
<1>3. request' = [request EXCEPT ![r] = [request[r] EXCEPT !.step = step]]
  BY DEF GoTo
<1>4. QED BY <1>2, <1>3 DEF TypeOK

LEMMA FinishType ==
  ASSUME TypeOK, NEW r \in Requests, Finish(r)
  PROVE  request' \in [Requests -> {Idle} \cup InFlight]
BY DEF TypeOK, Finish

\* A request that is at a step, or continues, is in flight.
LEMMA AtBusy ==
  ASSUME NEW r, NEW step \in Steps, At(r, step)
  PROVE  request[r] # Idle
BY DEF At, Idle, Steps

LEMMA ContinueBusy ==
  ASSUME NEW r, Continue(r)
  PROVE  request[r] # Idle
<1>1. CASE \E step \in Steps : At(r, step)
  BY <1>1, AtBusy
<1>2. CASE LogPayment(r)
  <2>1. At(r, "logAdvance") \/ At(r, "logRemaining")
    BY <1>2 DEF LogPayment
  <2>2. QED BY <2>1, <1>1 DEF Steps
<1>3. CASE Crash(r)
  BY <1>3 DEF Crash
<1>4. QED
  BY <1>1, <1>2, <1>3 DEF Continue, AcceptTxRead, AcceptCommit, StartJobSave, CompleteJobSave,
     CancelByFarmerSave, CancelByOperatorSave, PayAdvanceTx, PayAdvanceRefused,
     PayRemainingTx, PayRemainingReplay, PayRemainingRefused, Steps

LEMMA TypeInit == Init => TypeOK
BY Environment DEF Init, TypeOK, NewBooking, Booking, Statuses, PaymentStatuses,
  RefundStatuses, Cancellers, Locks, PaymentTypes, RowStatuses

LEMMA SaveType ==
  ASSUME TypeOK, NEW r \in Requests, Saves(r)
  PROVE  TypeOK'
<1> DEFINE read == request[r].read
           b == request[r].b
<1>1. request[r] # Idle
  BY AtBusy DEF Saves, StartJobSave, CompleteJobSave, CancelByFarmerSave,
                CancelByOperatorSave, Steps
<1>2. b \in Bookings /\ read \in Booking /\ booking[b] \in Booking
  BY <1>1, InFlightType
<1>3. PICK edited \in Booking : SaveAndFinish(r, edited)
  <2>1. CASE StartJobSave(r)
    <3>1. [read EXCEPT !.status = "in_progress", !.startTime = TRUE] \in Booking
      BY <1>2 DEF Booking, Statuses
    <3>2. QED BY <2>1, <3>1 DEF StartJobSave
  <2>2. CASE CompleteJobSave(r)
    <3>1. [read EXCEPT !.status = "completed", !.paymentStatus = "balance_due",
                       !.endTime = TRUE] \in Booking
      BY <1>2 DEF Booking, Statuses, PaymentStatuses
    <3>2. QED BY <2>2, <3>1 DEF CompleteJobSave
  <2>3. CASE CancelByFarmerSave(r)
    <3>1. [read EXCEPT !.status = "cancelled", !.cancelledBy = "farmer",
                       !.refundStatus = "none"] \in Booking
      BY <1>2 DEF Booking, Statuses, Cancellers, RefundStatuses
    <3>2. QED BY <2>3, <3>1 DEF CancelByFarmerSave
  <2>4. CASE CancelByOperatorSave(r)
    <3> DEFINE due == IF read.paymentStatus = "advance_paid" THEN "pending" ELSE "none"
    <3>1. due \in RefundStatuses
      BY DEF RefundStatuses
    <3>2. SaveAndFinish(r, [read EXCEPT !.status = "cancelled", !.cancelledBy = "operator",
                                        !.refundStatus = due])
      BY <2>4 DEF CancelByOperatorSave
    <3> HIDE DEF due
    <3>3. [read EXCEPT !.status = "cancelled", !.cancelledBy = "operator",
                       !.refundStatus = due] \in Booking
      BY <1>2, <3>1 DEF Booking, Statuses, Cancellers
    <3>4. QED BY <3>2, <3>3
  <2>5. QED BY <2>1, <2>2, <2>3, <2>4 DEF Saves
<1>4. booking' \in [Bookings -> Booking]
  <2>1. Saved(booking[b], read, edited) \in Booking
    BY <1>2, SavedType
  <2>2. QED BY <1>3, <2>1 DEF SaveAndFinish, TypeOK
<1>5. request' \in [Requests -> {Idle} \cup InFlight]
  BY <1>3, FinishType DEF SaveAndFinish
<1>6. QED BY <1>3, <1>4, <1>5 DEF SaveAndFinish, TypeOK, docs, books

LEMMA ReadType ==
  ASSUME TypeOK, NEW r \in Requests, NEW b \in Bookings, Read(r, b)
  PROVE  TypeOK'
<1>1. /\ \E step \in Steps : Begin(r, step, b)
      /\ UNCHANGED <<docs, provider, books, failedSeen>>
  BY DEF Read, AcceptRead, StartJobRead, CompleteJobRead, CancelRead, PayAdvanceRead,
         PayRemainingRead, Steps
<1>2. request' \in [Requests -> {Idle} \cup InFlight]
  BY <1>1, BeginType
<1>3. QED BY <1>1, <1>2 DEF TypeOK, docs, books

LEMMA ContinueType ==
  ASSUME TypeOK, NEW r \in Requests, Continue(r)
  PROVE  TypeOK'
<1> DEFINE b == request[r].b
<1>1. request[r] # Idle
  BY ContinueBusy
<1>2. b \in Bookings /\ booking[b] \in Booking
  BY <1>1, InFlightType
<1>3. CASE AcceptTxRead(r)
  <2>1. GoTo(r, "acceptTx") \/ Finish(r)
    BY <1>3 DEF AcceptTxRead
  <2>2. request' \in [Requests -> {Idle} \cup InFlight]
    BY <1>1, <2>1, GoToType, FinishType DEF Steps
  <2>3. QED BY <1>3, <2>2 DEF AcceptTxRead, TypeOK, docs, books
<1>4. CASE AcceptCommit(r)
  <2> DEFINE due == IF request[r].read.paymentStatus = "no_payment"
                    THEN "advance_due" ELSE booking[b].paymentStatus
  <2>1. due \in PaymentStatuses
    BY <1>2 DEF Booking, PaymentStatuses
  <2>2. booking' = IF booking[b].status = "pending"
                   THEN [booking EXCEPT ![b].status = "accepted", ![b].paymentStatus = due]
                   ELSE booking
    BY <1>4 DEF AcceptCommit
  <2> HIDE DEF due
  <2>3. [booking[b] EXCEPT !.status = "accepted", !.paymentStatus = due] \in Booking
    BY <1>2, <2>1 DEF Booking, Statuses
  <2>4. booking' \in [Bookings -> Booking]
    BY <1>2, <2>2, <2>3 DEF TypeOK
  <2>5. request' \in [Requests -> {Idle} \cup InFlight]
    BY <1>4, FinishType DEF AcceptCommit
  <2>6. QED BY <1>4, <2>4, <2>5 DEF AcceptCommit, TypeOK, books
<1>5. CASE Saves(r)
  BY <1>5, SaveType
<1>6. CASE PayAdvanceTx(r)
  <2>1. [booking[b] EXCEPT !.status = "payment_pending", !.paymentStatus = "advance_paid",
                           !.lock = "set"] \in Booking
    BY <1>2 DEF Booking, Statuses, PaymentStatuses, Locks
  <2>2. booking' \in [Bookings -> Booking]
    BY <1>2, <1>6, <2>1 DEF PayAdvanceTx, TypeOK
  <2>3. payment' \in [Bookings -> [PaymentTypes -> RowStatuses]]
    BY <1>2, <1>6 DEF PayAdvanceTx, TypeOK, RowStatuses
  <2>4. wallet' \in [Farmers -> Nat]
    <3>1. FarmerOf[b] \in Farmers /\ wallet[FarmerOf[b]] \in Nat
      BY <1>2, Assignment DEF TypeOK
    <3>2. wallet[FarmerOf[b]] - 1 \in Nat
      BY <1>6, <3>1 DEF PayAdvanceTx, CanPayAdvance
    <3>3. QED BY <1>6, <3>1, <3>2 DEF PayAdvanceTx, TypeOK
  <2>5. request' \in [Requests -> {Idle} \cup InFlight]
    BY <1>1, <1>6, GoToType DEF PayAdvanceTx, Steps
  <2>6. QED BY <1>6, <2>2, <2>3, <2>4, <2>5 DEF PayAdvanceTx, TypeOK
<1>7. CASE PayRemainingTx(r)
  <2>1. [booking[b] EXCEPT !.status = "payment_pending", !.paymentStatus = "fully_paid",
                           !.lock = "set"] \in Booking
    BY <1>2 DEF Booking, Statuses, PaymentStatuses, Locks
  <2>2. booking' \in [Bookings -> Booking]
    BY <1>2, <1>7, <2>1 DEF PayRemainingTx, TypeOK
  <2>3. payment' \in [Bookings -> [PaymentTypes -> RowStatuses]]
    BY <1>2, <1>7 DEF PayRemainingTx, TypeOK, RowStatuses
  <2>4. request' \in [Requests -> {Idle} \cup InFlight]
    BY <1>1, <1>7, GoToType DEF PayRemainingTx, Steps
  <2>5. QED BY <1>7, <2>2, <2>3, <2>4 DEF PayRemainingTx, TypeOK, books
<1>8. CASE PayRemainingReplay(r)
  <2>1. request' \in [Requests -> {Idle} \cup InFlight]
    BY <1>8, FinishType DEF PayRemainingReplay
  <2>2. earning' \subseteq Bookings
    BY <1>2, <1>8 DEF PayRemainingReplay, TypeOK
  <2>3. QED BY <1>8, <2>1, <2>2 DEF PayRemainingReplay, TypeOK, docs
<1>9. CASE LogPayment(r)
  <2>1. request' \in [Requests -> {Idle} \cup InFlight]
    BY <1>9, FinishType DEF LogPayment
  <2>2. ledger' \subseteq Bookings \X PaymentTypes
    BY <1>2, <1>9 DEF LogPayment, TypeOK
  <2>3. QED BY <1>9, <2>1, <2>2 DEF LogPayment, TypeOK, docs
<1>10. CASE PayAdvanceRefused(r) \/ PayRemainingRefused(r) \/ Crash(r)
  <2>1. Finish(r) /\ UNCHANGED <<docs, provider, books, failedSeen>>
    BY <1>10 DEF PayAdvanceRefused, PayRemainingRefused, Crash
  <2>2. QED BY <2>1, FinishType DEF TypeOK, docs, books
<1>11. QED
  BY <1>3, <1>4, <1>5, <1>6, <1>7, <1>8, <1>9, <1>10 DEF Continue, Saves

LEMMA FinalizerType ==
  ASSUME TypeOK, NEW b \in Bookings, NEW t \in PaymentTypes, Finalizer(b, t)
  PROVE  TypeOK'
<1>1. booking[b] \in Booking
  BY DEF TypeOK
<1>2. payment' \in [Bookings -> [PaymentTypes -> RowStatuses]]
  <2>1. \A status \in RowStatuses :
          [payment EXCEPT ![b][t] = status] \in [Bookings -> [PaymentTypes -> RowStatuses]]
    BY DEF TypeOK
  <2>2. payment' = payment \/ \E status \in RowStatuses : payment' = [payment EXCEPT ![b][t] = status]
    BY DEF Finalizer, FinalizePromote, FinalizeRowOnly, ReconcileFetchFailed,
           ReconcileMarkFailed, docs, RowStatuses
  <2>3. QED BY <2>1, <2>2 DEF TypeOK
<1>3. CASE FinalizePromote(b, t)
  <2>1. Promoted(b, t) \in Statuses
    BY <1>1 DEF Promoted, Booking, Statuses
  <2>2. [booking[b] EXCEPT !.status = Promoted(b, t), !.lock = "none"] \in Booking
    BY <1>1, <2>1 DEF Booking, Locks
  <2>3. QED BY <1>2, <1>3, <2>2 DEF FinalizePromote, TypeOK, books
<1>4. CASE FinalizeRowOnly(b, t)
  BY <1>2, <1>4 DEF FinalizeRowOnly, TypeOK, books
<1>5. CASE ReconcileFetchFailed(b, t) \/ ReconcileMarkFailed(b, t)
  BY <1>2, <1>5 DEF ReconcileFetchFailed, ReconcileMarkFailed, TypeOK, docs, books
<1>6. QED BY <1>3, <1>4, <1>5 DEF Finalizer

LEMMA TickType ==
  ASSUME TypeOK, NEW b \in Bookings,
         Create(b) \/ Reject(b) \/ LockElapses(b) \/ Cron(b)
  PROVE  TypeOK'
<1>1. booking[b] \in Booking
  BY DEF TypeOK
<1>2. PICK doc \in Booking : booking' = [booking EXCEPT ![b] = doc]
  <2>1. CASE Create(b)
    <3>1. NewBooking("pending") \in Booking
      BY DEF NewBooking, Booking, Statuses, PaymentStatuses, RefundStatuses, Cancellers, Locks
    <3>2. QED BY <2>1, <3>1 DEF Create
  <2>2. CASE Reject(b)
    <3>1. [booking[b] EXCEPT !.status = "rejected"] \in Booking
      BY <1>1 DEF Booking, Statuses
    <3>2. QED BY <2>2, <3>1 DEF Reject
  <2>3. CASE LockElapses(b)
    <3>1. [booking[b] EXCEPT !.lock = "elapsed"] \in Booking
      BY <1>1 DEF Booking, Locks
    <3>2. QED BY <2>3, <3>1 DEF LockElapses
  <2>4. CASE ExpireLock(b)
    <3>1. [booking[b] EXCEPT !.status = "cancelled", !.cancelledBy = "system",
                             !.lock = "none"] \in Booking
      BY <1>1 DEF Booking, Statuses, Cancellers, Locks
    <3>2. QED BY <2>4, <3>1 DEF ExpireLock
  <2>5. CASE CancelUnanswered(b) \/ CancelUnpaid(b)
    <3>1. [booking[b] EXCEPT !.status = "cancelled", !.cancelledBy = "system"] \in Booking
      BY <1>1 DEF Booking, Statuses, Cancellers
    <3>2. QED BY <2>5, <3>1 DEF CancelUnanswered, CancelUnpaid
  <2>6. QED BY <2>1, <2>2, <2>3, <2>4, <2>5 DEF Cron
<1>3. UNCHANGED <<payment, provider, books, request, failedSeen>>
  BY DEF Create, Reject, LockElapses, Cron, ExpireLock, CancelUnanswered, CancelUnpaid
<1>4. QED BY <1>2, <1>3 DEF TypeOK, books

LEMMA ProviderType ==
  ASSUME TypeOK, NEW b \in Bookings, NEW t \in PaymentTypes,
         NEW outcome \in {"captured", "failed"}, ProviderSettles(b, t, outcome)
  PROVE  TypeOK'
BY DEF ProviderSettles, TypeOK, docs, books

\* Every document, row and request keeps its type.
LEMMA TypeStep == TypeOK /\ [Next]_vars => TypeOK'
<1> SUFFICES ASSUME TypeOK, [Next]_vars PROVE TypeOK'
  OBVIOUS
<1>1. CASE UNCHANGED vars
  BY <1>1 DEF vars, TypeOK
<1>2. CASE Next
  BY <1>2, TickType, FinalizerType, ProviderType, ContinueType, ReadType DEF Next
<1>3. QED BY <1>1, <1>2

\* All collections keep the shape their schemas give them.
THEOREM TypeCorrect == Spec => []TypeOK
<1>1. QED BY TypeInit, TypeStep, PTL DEF Spec

-----------------------------------------------------------------------------
\* The part of the inductive invariant that speaks of documents and rows alone.
DocsFit ==
  WorkNeedsAdvance /\ MoneyOrder /\ AwaitedPayment /\ WorkDates /\ AdvanceRow /\ NothingDue

\* What a landing save does to the booking, in the terms the invariant needs.
SaveEffect(b, doc) ==
  /\ booking' = [booking EXCEPT ![b] = doc]
  /\ Admits(b, doc.status)
  /\ doc.status \in {"in_progress", "completed", "cancelled"}
  /\ doc.status \in {"in_progress", "completed"} => Collected(b, "advance")
  /\ doc.paymentStatus # booking[b].paymentStatus => Collected(b, "advance") /\ doc.endTime
  /\ doc.status = "completed" => doc.endTime
  /\ doc.endTime => doc.startTime
  /\ booking[b].startTime => doc.startTime
  /\ booking[b].endTime => doc.endTime
  /\ doc.startTime # booking[b].startTime => Collected(b, "advance")
  /\ doc.endTime # booking[b].endTime => doc.startTime = booking[b].startTime

LEMMA SaveLands ==
  ASSUME Inductive, NEW r \in Requests, Saves(r)
  PROVE  /\ request[r].b \in Bookings
         /\ UNCHANGED <<payment, earning>>
         /\ booking' = booking \/ \E doc \in Booking : SaveEffect(request[r].b, doc)
<1> DEFINE b == request[r].b
           read == request[r].read
           now == booking[b]
<1>1. request[r] # Idle
  BY AtBusy DEF Saves, StartJobSave, CompleteJobSave, CancelByFarmerSave,
                CancelByOperatorSave, Steps
<1>2. b \in Bookings /\ read \in Booking /\ now \in Booking
  BY <1>1, InFlightType DEF Inductive
<1>3. ReadFits(request[r])
  BY <1>1 DEF Inductive, ReadsFit
<1>4. now.endTime => now.startTime
  BY <1>2 DEF Inductive, MoneyOrder
<1>5. UNCHANGED <<payment, earning>>
  BY DEF Saves, StartJobSave, CompleteJobSave, CancelByFarmerSave,
         CancelByOperatorSave, SaveAndFinish, docs, books
<1>6. CASE StartJobSave(r)
  <2> DEFINE edited == [read EXCEPT !.status = "in_progress", !.startTime = TRUE]
             doc == Saved(now, read, edited)
  <2>1. edited \in Booking
    BY <1>2 DEF Booking, Statuses
  <2>2. doc \in Booking
    BY <1>2, <2>1, SavedType
  <2>3. \/ booking' = booking
        \/ booking' = [booking EXCEPT ![b] = doc] /\ Admits(b, doc.status)
    BY <1>6 DEF StartJobSave, SaveAndFinish
  <2>4. read.status \in {"confirmed", "en_route"} /\ Collected(b, "advance")
        /\ (read.startTime => now.startTime)
    BY <1>3, <1>6 DEF ReadFits, StartJobSave, At
  <2>5. /\ doc.status = "in_progress"
        /\ doc.paymentStatus = now.paymentStatus
        /\ doc.startTime
        /\ doc.endTime = now.endTime
    BY <1>2, <2>4 DEF Saved, Field, Booking
  <2> HIDE DEF doc
  <2>6. QED BY <1>2, <1>5, <2>2, <2>3, <2>4, <2>5 DEF SaveEffect
<1>7. CASE CompleteJobSave(r)
  <2> DEFINE edited == [read EXCEPT !.status = "completed", !.paymentStatus = "balance_due",
                                    !.endTime = TRUE]
             doc == Saved(now, read, edited)
  <2>1. edited \in Booking
    BY <1>2 DEF Booking, Statuses, PaymentStatuses
  <2>2. doc \in Booking
    BY <1>2, <2>1, SavedType
  <2>3. \/ booking' = booking
        \/ booking' = [booking EXCEPT ![b] = doc] /\ Admits(b, doc.status)
    BY <1>7 DEF CompleteJobSave, SaveAndFinish
  <2>4. /\ read.status = "in_progress"
        /\ Collected(b, "advance")
        /\ now.startTime
        /\ read.endTime => now.endTime
    BY <1>3, <1>7 DEF ReadFits, CompleteJobSave, At
  <2>5. /\ doc.status = "completed"
        /\ doc.startTime = now.startTime
        /\ doc.endTime
    BY <1>2, <2>4 DEF Saved, Field, Booking
  <2> HIDE DEF doc
  <2>6. QED BY <1>2, <1>5, <2>2, <2>3, <2>4, <2>5 DEF SaveEffect
<1>8. CASE CancelByFarmerSave(r) \/ CancelByOperatorSave(r)
  <2>1. PICK edited \in Booking :
          /\ SaveAndFinish(r, edited)
          /\ edited.status = "cancelled"
          /\ edited.paymentStatus = read.paymentStatus
          /\ edited.startTime = read.startTime
          /\ edited.endTime = read.endTime
    <3>1. CASE CancelByFarmerSave(r)
      <4> DEFINE edited == [read EXCEPT !.status = "cancelled", !.cancelledBy = "farmer",
                                        !.refundStatus = "none"]
      <4>1. edited \in Booking
        BY <1>2 DEF Booking, Statuses, Cancellers, RefundStatuses
      <4>2. SaveAndFinish(r, edited)
        BY <3>1 DEF CancelByFarmerSave
      <4>3. QED BY <1>2, <4>1, <4>2 DEF Booking
    <3>2. CASE CancelByOperatorSave(r)
      <4> DEFINE due == IF read.paymentStatus = "advance_paid" THEN "pending" ELSE "none"
                 edited == [read EXCEPT !.status = "cancelled", !.cancelledBy = "operator",
                                        !.refundStatus = due]
      <4>1. due \in RefundStatuses
        BY DEF RefundStatuses
      <4>2. SaveAndFinish(r, edited)
        BY <3>2 DEF CancelByOperatorSave
      <4> HIDE DEF due
      <4>3. edited \in Booking
        BY <1>2, <4>1 DEF Booking, Statuses, Cancellers
      <4>4. QED BY <1>2, <4>2, <4>3 DEF Booking
    <3>3. QED BY <1>8, <3>1, <3>2
  <2> DEFINE doc == Saved(now, read, edited)
  <2>2. doc \in Booking
    BY <1>2, SavedType
  <2>3. \/ booking' = booking
        \/ booking' = [booking EXCEPT ![b] = doc] /\ Admits(b, doc.status)
    BY <2>1 DEF SaveAndFinish
  <2>4. read.status # "cancelled"
    BY <1>3, <1>8 DEF ReadFits, CancelByFarmerSave, CancelByOperatorSave, At
  <2>5. /\ doc.status = "cancelled"
        /\ doc.paymentStatus = now.paymentStatus
        /\ doc.startTime = now.startTime
        /\ doc.endTime = now.endTime
    BY <1>2, <2>1, <2>4 DEF Saved, Field, Booking
  <2> HIDE DEF doc
  <2>6. QED BY <1>2, <1>4, <1>5, <2>2, <2>3, <2>5 DEF SaveEffect
<1>9. QED
  BY <1>2, <1>5, <1>6, <1>7, <1>8 DEF Saves

\* The conjuncts of DocsFit for one booking.
Fits(b) ==
  /\ \/ booking[b].status \in {"confirmed", "en_route", "in_progress", "completed", "closed"}
     \/ booking[b].paymentStatus \in {"balance_due", "fully_paid"}
     => Collected(b, "advance")
  /\ payment[b]["remaining"] # "none" => booking[b].endTime /\ Collected(b, "advance")
  /\ booking[b].endTime => booking[b].startTime
  /\ booking[b].status = "closed" \/ b \in earning => Collected(b, "remaining")
  /\ booking[b].status = "accepted" => booking[b].paymentStatus = "advance_due"
  /\ booking[b].status \in {"absent", "pending"} => booking[b].paymentStatus = "no_payment"
  /\ booking[b].status = "payment_pending" =>
       /\ booking[b].lock # "none"
       /\ \/ /\ booking[b].paymentStatus = "advance_paid"
             /\ payment[b]["advance"] \in {"PENDING", "FAILED"}
          \/ /\ booking[b].paymentStatus = "fully_paid"
             /\ payment[b]["remaining"] \in {"PENDING", "FAILED"}
  /\ booking[b].status = "absent" => ~booking[b].startTime /\ ~booking[b].endTime
  /\ \/ booking[b].status \in {"completed", "closed"}
     \/ booking[b].paymentStatus \in {"balance_due", "fully_paid"}
     => booking[b].endTime
  /\ booking[b].status \in {"absent", "pending", "accepted", "rejected"} =>
       payment[b]["advance"] = "none"

LEMMA FitsEach == DocsFit <=> \A b \in Bookings : Fits(b)
BY DEF Fits, DocsFit, WorkNeedsAdvance, MoneyOrder, AwaitedPayment, WorkDates, AdvanceRow,
       NothingDue

LEMMA FitsEachPrime == DocsFit' <=> \A b \in Bookings : Fits(b)'
BY DEF Fits, DocsFit, WorkNeedsAdvance, MoneyOrder, AwaitedPayment, WorkDates, AdvanceRow,
       NothingDue, Collected

\* Only the booking a step writes has to be looked at.
LEMMA FitsFrame ==
  ASSUME TypeOK, DocsFit, NEW b \in Bookings, Fits(b)',
         \A o \in Bookings \ {b} :
           /\ booking'[o] = booking[o]
           /\ payment'[o] = payment[o]
           /\ (o \in earning') <=> (o \in earning)
  PROVE  DocsFit'
<1>1. \A o \in Bookings \ {b} : Fits(o)'
  BY FitsEach DEF Fits, Collected
<1>2. QED BY <1>1, FitsEachPrime

LEMMA QuietFits ==
  ASSUME DocsFit, UNCHANGED <<booking, payment, earning>>
  PROVE  DocsFit'
BY DEF DocsFit, WorkNeedsAdvance, MoneyOrder, AwaitedPayment, WorkDates, AdvanceRow, NothingDue,
       Collected

LEMMA SaveFits ==
  ASSUME Inductive, NEW r \in Requests, Saves(r)
  PROVE  DocsFit'
<1>1. TypeOK /\ DocsFit
  BY DEF Inductive, DocsFit
<1>2. PICK b \in Bookings : b = request[r].b
  BY SaveLands
<1> UNCHANGED <<payment, earning>>
  BY SaveLands
<1>3. CASE booking' = booking
  BY <1>1, <1>2, <1>3, QuietFits
<1>4. ASSUME NEW doc \in Booking, SaveEffect(b, doc)
      PROVE  DocsFit'
  <2>1. booking'[b] = doc /\ \A o \in Bookings \ {b} : booking'[o] = booking[o]
    BY <1>1, <1>2, <1>4 DEF SaveEffect, TypeOK
  <2>2. Fits(b)
    BY <1>1, <1>2, FitsEach
  <2>3. Fits(b)'
    BY <1>2, <1>4, <2>1, <2>2 DEF SaveEffect, Fits, Collected
  <2>4. QED BY <1>1, <1>2, <2>1, <2>3, FitsFrame
<1>5. QED BY <1>2, <1>3, <1>4, SaveLands

LEMMA ContinueFits ==
  ASSUME Inductive, NEW r \in Requests, Continue(r)
  PROVE  DocsFit'
<1>1. TypeOK /\ DocsFit
  BY DEF Inductive, DocsFit
<1>2. PICK b \in Bookings : /\ b = request[r].b
                            /\ booking[b] \in Booking
                            /\ Fits(b)
                            /\ booking[b].status # "absent"
                            /\ ReadFits(request[r])
  <2>1. request[r] # Idle
    BY ContinueBusy
  <2>2. QED BY <1>1, <2>1, InFlightType, FitsEach DEF Inductive, ReadsFit, ReadFits
<1>3. CASE Saves(r)
  BY <1>3, SaveFits
<1>4. CASE AcceptCommit(r)
  <2>1. CASE booking[b].status = "pending"
    <3>1. /\ booking'[b].status = "accepted"
          /\ booking'[b].paymentStatus = "advance_due"
          /\ booking'[b].startTime = booking[b].startTime
          /\ booking'[b].endTime = booking[b].endTime
          /\ \A o \in Bookings \ {b} : booking'[o] = booking[o]
      <4>1. request[r].read.paymentStatus = "no_payment"
        BY <1>2, <1>4 DEF AcceptCommit, At, ReadFits
      <4>2. QED BY <1>1, <1>2, <1>4, <2>1, <4>1 DEF AcceptCommit, TypeOK, Booking
    <3>2. UNCHANGED <<payment, earning>>
      BY <1>4 DEF AcceptCommit, books
    <3>3. Fits(b)'
      BY <1>2, <2>1, <3>1, <3>2 DEF Fits, Collected
    <3>4. QED BY <1>1, <1>2, <3>1, <3>2, <3>3, FitsFrame
  <2>2. CASE booking[b].status # "pending"
    BY <1>1, <1>2, <1>4, <2>2, QuietFits DEF AcceptCommit, books
  <2>3. QED BY <2>1, <2>2
<1>5. CASE PayAdvanceTx(r)
  <2>1. CanPayAdvance(b)
    BY <1>2, <1>5 DEF PayAdvanceTx
  <2>2. /\ booking'[b].status = "payment_pending"
        /\ booking'[b].paymentStatus = "advance_paid"
        /\ booking'[b].lock = "set"
        /\ booking'[b].startTime = booking[b].startTime
        /\ booking'[b].endTime = booking[b].endTime
        /\ payment'[b]["advance"] = "PENDING"
        /\ payment'[b]["remaining"] = payment[b]["remaining"]
        /\ UNCHANGED earning
        /\ \A o \in Bookings \ {b} : booking'[o] = booking[o] /\ payment'[o] = payment[o]
    BY <1>1, <1>2, <1>5 DEF PayAdvanceTx, TypeOK, Booking, PaymentTypes
  <2>3. Fits(b)'
    BY <1>2, <2>1, <2>2 DEF Fits, Collected, CanPayAdvance
  <2>4. QED BY <1>1, <1>2, <2>2, <2>3, FitsFrame
<1>6. CASE PayRemainingTx(r)
  <2>1. CanPayRemaining(b)
    BY <1>2, <1>6 DEF PayRemainingTx
  <2>2. /\ booking'[b].status = "payment_pending"
        /\ booking'[b].paymentStatus = "fully_paid"
        /\ booking'[b].lock = "set"
        /\ booking'[b].startTime = booking[b].startTime
        /\ booking'[b].endTime = booking[b].endTime
        /\ payment'[b]["remaining"] = "PENDING"
        /\ payment'[b]["advance"] = payment[b]["advance"]
        /\ UNCHANGED earning
        /\ \A o \in Bookings \ {b} : booking'[o] = booking[o] /\ payment'[o] = payment[o]
    BY <1>1, <1>2, <1>6 DEF PayRemainingTx, TypeOK, Booking, PaymentTypes, books
  <2>3. Fits(b)'
    BY <1>2, <2>1, <2>2 DEF Fits, Collected, CanPayRemaining
  <2>4. QED BY <1>1, <1>2, <2>2, <2>3, FitsFrame
<1>7. CASE PayRemainingReplay(r)
  <2>1. UNCHANGED docs /\ (earning' = earning \/ (booking[b].status = "closed" /\ earning' = earning \cup {b}))
    BY <1>2, <1>7 DEF PayRemainingReplay
  <2>2. Fits(b)'
    BY <1>2, <2>1 DEF Fits, Collected, docs
  <2>3. QED BY <1>1, <1>2, <2>1, <2>2, FitsFrame DEF docs
<1>8. CASE AcceptTxRead(r) \/ PayAdvanceRefused(r) \/ PayRemainingRefused(r) \/ LogPayment(r) \/ Crash(r)
  <2>1. UNCHANGED <<booking, payment, earning>>
    BY <1>8 DEF AcceptTxRead, PayAdvanceRefused, PayRemainingRefused, LogPayment, Crash, docs, books
  <2>2. QED BY <1>1, <2>1, QuietFits
<1>9. QED
  BY <1>3, <1>4, <1>5, <1>6, <1>7, <1>8 DEF Continue, Saves

LEMMA FinalizerFits ==
  ASSUME Inductive, NEW b \in Bookings, NEW t \in PaymentTypes, Finalizer(b, t)
  PROVE  DocsFit'
<1>1. TypeOK /\ DocsFit /\ Fits(b) /\ booking[b] \in Booking
  BY FitsEach DEF Inductive, DocsFit, TypeOK
<1>2. UNCHANGED earning
  BY DEF Finalizer, FinalizePromote, FinalizeRowOnly, ReconcileFetchFailed, ReconcileMarkFailed, books
<1>3. \A o \in Bookings \ {b} : booking'[o] = booking[o] /\ payment'[o] = payment[o]
  BY <1>1 DEF Finalizer, FinalizePromote, FinalizeRowOnly, ReconcileFetchFailed,
              ReconcileMarkFailed, TypeOK, docs
<1>4. CASE FinalizePromote(b, t)
  <2>1. /\ booking'[b] = [booking[b] EXCEPT !.status = Promoted(b, t), !.lock = "none"]
        /\ payment'[b] = [payment[b] EXCEPT ![t] = "SUCCESS"]
        /\ CanFinalize(b, t)
        /\ Promoted(b, t) # booking[b].status
    BY <1>1, <1>4 DEF FinalizePromote, TypeOK
  <2>2. CASE t = "advance"
    <3>1. Promoted(b, t) = "confirmed" /\ booking[b].status \in {"accepted", "payment_pending"}
      BY <2>1, <2>2 DEF Promoted
    <3>2. Fits(b)'
      BY <1>1, <1>2, <2>1, <2>2, <3>1 DEF Fits, Collected, CanFinalize, Booking, TypeOK, PaymentTypes
    <3>3. QED BY <1>1, <1>2, <1>3, <3>2, FitsFrame
  <2>3. CASE t = "remaining"
    <3>1. /\ Promoted(b, t) = "closed"
          /\ booking[b].status = "payment_pending"
          /\ booking[b].paymentStatus = "fully_paid"
      BY <2>1, <2>3 DEF Promoted
    <3>2. Fits(b)'
      BY <1>1, <1>2, <2>1, <2>3, <3>1 DEF Fits, Collected, CanFinalize, Booking, TypeOK, PaymentTypes
    <3>3. QED BY <1>1, <1>2, <1>3, <3>2, FitsFrame
  <2>4. QED BY <2>2, <2>3 DEF PaymentTypes
<1>5. CASE FinalizeRowOnly(b, t)
  <2>1. /\ UNCHANGED booking
        /\ payment'[b] = [payment[b] EXCEPT ![t] = "SUCCESS"]
        /\ CanFinalize(b, t)
        /\ Promoted(b, t) = booking[b].status
    BY <1>1, <1>5 DEF FinalizeRowOnly, TypeOK
  <2>2. payment[b][t] # "none"
    BY <2>1 DEF CanFinalize
  <2>3. booking[b].status # "payment_pending"
    BY <1>1, <2>1 DEF CanFinalize, Promoted, Fits, Collected, PaymentTypes
  <2>4. Fits(b)'
    BY <1>1, <1>2, <2>1, <2>2, <2>3 DEF Fits, Collected, PaymentTypes, TypeOK
  <2>5. QED BY <1>1, <1>2, <1>3, <2>4, FitsFrame
<1>6. CASE ReconcileMarkFailed(b, t)
  <2>1. UNCHANGED booking /\ (payment'[b] = payment[b] \/ (payment[b][t] = "PENDING" /\ payment'[b] = [payment[b] EXCEPT ![t] = "FAILED"]))
    BY <1>1, <1>6 DEF ReconcileMarkFailed, TypeOK
  <2>2. Fits(b)'
    BY <1>1, <1>2, <2>1 DEF Fits, Collected, PaymentTypes, TypeOK
  <2>3. QED BY <1>1, <1>2, <1>3, <2>2, FitsFrame
<1>7. CASE ReconcileFetchFailed(b, t)
  BY <1>1, <1>7, QuietFits DEF ReconcileFetchFailed, docs, books
<1>8. QED BY <1>4, <1>5, <1>6, <1>7 DEF Finalizer

LEMMA TickFits ==
  ASSUME Inductive, NEW b \in Bookings,
         Create(b) \/ Reject(b) \/ LockElapses(b) \/ Cron(b)
  PROVE  DocsFit'
<1>1. TypeOK /\ DocsFit /\ Fits(b) /\ booking[b] \in Booking
  BY FitsEach DEF Inductive, DocsFit, TypeOK
<1>2. UNCHANGED <<payment, earning>>
  BY DEF Create, Reject, LockElapses, Cron, ExpireLock, CancelUnanswered, CancelUnpaid, books
<1>3. \A o \in Bookings \ {b} : booking'[o] = booking[o]
  BY <1>1 DEF Create, Reject, LockElapses, Cron, ExpireLock, CancelUnanswered, CancelUnpaid, TypeOK
<1>4. CASE Create(b)
  <2>1. booking'[b] = NewBooking("pending") /\ booking[b].status = "absent"
    BY <1>1, <1>4 DEF Create, TypeOK
  <2>2. Fits(b)'
    BY <1>1, <1>2, <2>1 DEF Fits, Collected, NewBooking
  <2>3. QED BY <1>1, <1>2, <1>3, <2>2, FitsFrame
<1>5. CASE Reject(b) \/ Cron(b)
  <2>1. /\ booking'[b].status \in {"rejected", "cancelled"}
        /\ booking'[b].status = "rejected" => booking[b].status = "pending"
        /\ booking'[b].paymentStatus = booking[b].paymentStatus
        /\ booking'[b].startTime = booking[b].startTime
        /\ booking'[b].endTime = booking[b].endTime
    BY <1>1, <1>5 DEF Reject, Cron, ExpireLock, CancelUnanswered, CancelUnpaid, TypeOK, Booking
  <2>2. Fits(b)'
    BY <1>1, <1>2, <2>1 DEF Fits, Collected
  <2>3. QED BY <1>1, <1>2, <1>3, <2>2, FitsFrame
<1>6. CASE LockElapses(b)
  <2>1. booking'[b] = [booking[b] EXCEPT !.lock = "elapsed"]
    BY <1>1, <1>6 DEF LockElapses, TypeOK
  <2>2. Fits(b)'
    BY <1>1, <1>2, <2>1 DEF Fits, Collected, Booking
  <2>3. QED BY <1>1, <1>2, <1>3, <2>2, FitsFrame
<1>7. QED BY <1>4, <1>5, <1>6

-----------------------------------------------------------------------------
\* A write that the index checks, or that keeps the booking inactive or active,
\* leaves the indexes unique.
LEMMA IndexFrame ==
  ASSUME TypeOK, IndexesHold, NEW b \in Bookings,
         \A o \in Bookings \ {b} : booking'[o].status = booking[o].status,
         \/ Admits(b, booking'[b].status)
         \/ booking[b].status \in ActiveStatuses
         \/ booking'[b].status \notin ActiveStatuses
  PROVE  IndexesHold'
BY DEF IndexesHold, Admits

LEMMA IndexStep ==
  ASSUME Inductive, Next
  PROVE  IndexesHold'
<1>1. TypeOK /\ IndexesHold
  BY DEF Inductive
<1>2. CASE UNCHANGED booking
  BY <1>1, <1>2 DEF IndexesHold, Admits
<1>3. ASSUME NEW r \in Requests, Continue(r)
      PROVE  IndexesHold'
  <2>1. PICK b \in Bookings : b = request[r].b
    BY <1>1, <1>3, ContinueBusy, InFlightType
  <2>2. CASE Saves(r)
    <3>1. ASSUME NEW doc \in Booking, SaveEffect(b, doc)
          PROVE  IndexesHold'
      <4>1. booking'[b] = doc /\ \A o \in Bookings \ {b} : booking'[o] = booking[o]
        BY <1>1, <3>1 DEF SaveEffect, TypeOK
      <4>2. QED BY <1>1, <3>1, <4>1, IndexFrame DEF SaveEffect
    <3>2. QED BY <1>2, <2>1, <2>2, <3>1, SaveLands
  <2>3. CASE AcceptCommit(r)
    <3>1. CASE booking[b].status = "pending"
      <4>1. \A o \in Bookings \ {b} : booking'[o] = booking[o]
        BY <1>1, <2>1, <2>3 DEF AcceptCommit, TypeOK
      <4>2. QED BY <1>1, <3>1, <4>1, IndexFrame DEF ActiveStatuses
    <3>2. CASE booking[b].status # "pending"
      BY <1>2, <2>1, <2>3, <3>2 DEF AcceptCommit
    <3>3. QED BY <3>1, <3>2
  <2>4. CASE PayAdvanceTx(r) \/ PayRemainingTx(r)
    <3>1. /\ booking'[b].status = "payment_pending"
          /\ \A o \in Bookings \ {b} : booking'[o] = booking[o]
      BY <1>1, <2>1, <2>4 DEF PayAdvanceTx, PayRemainingTx, TypeOK, Booking
    <3>2. QED BY <1>1, <3>1, IndexFrame DEF ActiveStatuses
  <2>5. CASE ~(Saves(r) \/ AcceptCommit(r) \/ PayAdvanceTx(r) \/ PayRemainingTx(r))
    <3>1. UNCHANGED booking
      BY <1>3, <2>5 DEF Continue, Saves, AcceptTxRead, PayAdvanceRefused, PayRemainingReplay,
         PayRemainingRefused, LogPayment, Crash, docs
    <3>2. QED BY <1>2, <3>1
  <2>6. QED BY <2>2, <2>3, <2>4, <2>5
<1>4. ASSUME NEW b \in Bookings, NEW t \in PaymentTypes, Finalizer(b, t)
      PROVE  IndexesHold'
  <2>1. CASE FinalizePromote(b, t)
    <3>1. /\ booking'[b].status = Promoted(b, t)
          /\ Admits(b, Promoted(b, t))
          /\ \A o \in Bookings \ {b} : booking'[o] = booking[o]
      BY <1>1, <2>1 DEF FinalizePromote, TypeOK, Booking
    <3>2. QED BY <1>1, <3>1, IndexFrame
  <2>2. CASE ~FinalizePromote(b, t)
    BY <1>2, <1>4, <2>2 DEF Finalizer, FinalizeRowOnly, ReconcileFetchFailed,
                            ReconcileMarkFailed, docs
  <2>3. QED BY <2>1, <2>2
<1>5. ASSUME NEW b \in Bookings, Create(b) \/ Reject(b) \/ LockElapses(b) \/ Cron(b)
      PROVE  IndexesHold'
  <2>1. \A o \in Bookings \ {b} : booking'[o] = booking[o]
    BY <1>1, <1>5 DEF Create, Reject, LockElapses, Cron, ExpireLock, CancelUnanswered,
                      CancelUnpaid, TypeOK
  <2>2. Admits(b, booking'[b].status) \/ booking'[b].status \notin ActiveStatuses
    BY <1>1, <1>5 DEF Create, NewBooking, Reject, LockElapses, Cron, ExpireLock,
                      CancelUnanswered, CancelUnpaid, TypeOK, Booking, ActiveStatuses
  <2>3. QED BY <1>1, <2>1, <2>2, IndexFrame
<1>6. ASSUME NEW b \in Bookings, NEW r \in Requests, Read(r, b)
      PROVE  UNCHANGED booking
  BY <1>6 DEF Read, AcceptRead, StartJobRead, CompleteJobRead, CancelRead, PayAdvanceRead,
              PayRemainingRead, docs
<1>7. ASSUME NEW b \in Bookings, NEW t \in PaymentTypes, NEW outcome,
             ProviderSettles(b, t, outcome)
      PROVE  UNCHANGED booking
  BY <1>7 DEF ProviderSettles, docs
<1>8. QED BY <1>2, <1>3, <1>4, <1>5, <1>6, <1>7 DEF Next

-----------------------------------------------------------------------------
\* What no step takes back: a booking stays created, its dates stay set, and a
\* confirmed payment stays confirmed.
Kept(b) ==
  /\ booking[b].status # "absent" => booking'[b].status # "absent"
  /\ booking[b].startTime => booking'[b].startTime
  /\ booking[b].endTime => booking'[b].endTime
  /\ \A t \in PaymentTypes : Collected(b, t) => Collected(b, t)'

LEMMA QuietKept ==
  ASSUME UNCHANGED docs, NEW b
  PROVE  Kept(b)
BY DEF docs, Kept, Collected

LEMMA ContinueKept ==
  ASSUME Inductive, NEW r \in Requests, Continue(r), NEW o \in Bookings
  PROVE  Kept(o)
<1>1. TypeOK
  BY DEF Inductive
<1>2. PICK b \in Bookings : b = request[r].b
  BY <1>1, ContinueBusy, InFlightType
<1>3. booking[b] \in Booking
  BY <1>1 DEF TypeOK
<1>4. CASE Saves(r)
  <2>1. ASSUME NEW doc \in Booking, SaveEffect(b, doc)
        PROVE  Kept(o)
    <3>1. booking'[b] = doc /\ (o # b => booking'[o] = booking[o])
      BY <1>1, <2>1 DEF SaveEffect, TypeOK
    <3>2. UNCHANGED payment
      BY <1>4, SaveLands
    <3>3. QED BY <2>1, <3>1, <3>2 DEF SaveEffect, Kept, Collected
  <2>2. QED BY <1>2, <1>4, <2>1, SaveLands, QuietKept DEF docs
<1>5. CASE AcceptCommit(r)
  <2>1. UNCHANGED payment
    BY <1>5 DEF AcceptCommit
  <2>2. /\ booking'[o].startTime = booking[o].startTime
        /\ booking'[o].endTime = booking[o].endTime
        /\ booking[o].status # "absent" => booking'[o].status # "absent"
    BY <1>1, <1>2, <1>3, <1>5 DEF AcceptCommit, TypeOK, Booking
  <2>3. QED BY <2>1, <2>2 DEF Kept, Collected
<1>6. CASE PayAdvanceTx(r) \/ PayRemainingTx(r)
  <2>1. /\ booking'[o].startTime = booking[o].startTime
        /\ booking'[o].endTime = booking[o].endTime
        /\ booking[o].status # "absent" => booking'[o].status # "absent"
    <3>1. o # b => booking'[o] = booking[o]
      BY <1>1, <1>2, <1>6 DEF PayAdvanceTx, PayRemainingTx, TypeOK
    <3>2. /\ booking'[b].startTime = booking[b].startTime
          /\ booking'[b].endTime = booking[b].endTime
          /\ booking'[b].status = "payment_pending"
      BY <1>1, <1>2, <1>3, <1>6 DEF PayAdvanceTx, PayRemainingTx, TypeOK, Booking
    <3>3. QED BY <3>1, <3>2
  <2>2. PICK t \in PaymentTypes : /\ payment[b][t] = "none"
                                  /\ payment' = [payment EXCEPT ![b][t] = "PENDING"]
    BY <1>2, <1>6 DEF PayAdvanceTx, CanPayAdvance, PayRemainingTx, CanPayRemaining, PaymentTypes
  <2>3. \A u \in PaymentTypes : Collected(o, u) => Collected(o, u)'
    BY <1>1, <2>2 DEF TypeOK, Collected
  <2>4. QED BY <2>1, <2>3 DEF Kept
<1>7. CASE ~(Saves(r) \/ AcceptCommit(r) \/ PayAdvanceTx(r) \/ PayRemainingTx(r))
  BY <1>7, QuietKept DEF Continue, Saves, AcceptTxRead, PayAdvanceRefused, PayRemainingReplay,
     PayRemainingRefused, LogPayment, Crash
<1>8. QED BY <1>4, <1>5, <1>6, <1>7

LEMMA StepKept ==
  ASSUME Inductive, Next, NEW o \in Bookings
  PROVE  Kept(o)
<1>1. TypeOK /\ DocsFit
  BY DEF Inductive, DocsFit
<1>2. ASSUME NEW b \in Bookings, NEW t \in PaymentTypes, Finalizer(b, t)
      PROVE  Kept(o)
  <2>1. /\ booking'[o].startTime = booking[o].startTime
        /\ booking'[o].endTime = booking[o].endTime
        /\ booking[o].status # "absent" => booking'[o].status # "absent"
    <3>1. CASE FinalizePromote(b, t)
      <4>1. booking' = [booking EXCEPT ![b].status = Promoted(b, t), ![b].lock = "none"]
        BY <3>1 DEF FinalizePromote
      <4>2. booking[b].status # "absent" => Promoted(b, t) # "absent"
        BY DEF Promoted
      <4>3. QED BY <1>1, <4>1, <4>2 DEF TypeOK, Booking
    <3>2. CASE ~FinalizePromote(b, t)
      BY <1>2, <3>2 DEF Finalizer, FinalizeRowOnly, ReconcileFetchFailed, ReconcileMarkFailed, docs
    <3>3. QED BY <3>1, <3>2
  <2>2. \A u \in PaymentTypes : Collected(o, u) => Collected(o, u)'
    BY <1>1, <1>2 DEF Finalizer, FinalizePromote, FinalizeRowOnly, ReconcileFetchFailed,
                      ReconcileMarkFailed, TypeOK, Collected, docs
  <2>3. QED BY <2>1, <2>2 DEF Kept
<1>3. ASSUME NEW b \in Bookings, Create(b) \/ Reject(b) \/ LockElapses(b) \/ Cron(b)
      PROVE  Kept(o)
  <2>1. UNCHANGED payment
    BY <1>3 DEF Create, Reject, LockElapses, Cron, ExpireLock, CancelUnanswered, CancelUnpaid
  <2>2. CASE Create(b)
    <3>1. ~booking[b].startTime /\ ~booking[b].endTime
      BY <1>1, <2>2 DEF Create, DocsFit, WorkDates
    <3>2. QED BY <1>1, <2>1, <2>2, <3>1 DEF Create, NewBooking, Kept, Collected, TypeOK
  <2>3. CASE Reject(b) \/ LockElapses(b) \/ Cron(b)
    <3>1. /\ booking'[o].startTime = booking[o].startTime
          /\ booking'[o].endTime = booking[o].endTime
          /\ booking[o].status # "absent" => booking'[o].status # "absent"
      <4>1. o # b => booking'[o] = booking[o]
        BY <1>1, <2>3 DEF Reject, LockElapses, Cron, ExpireLock, CancelUnanswered,
                          CancelUnpaid, TypeOK
      <4>2. /\ booking'[b].startTime = booking[b].startTime
            /\ booking'[b].endTime = booking[b].endTime
            /\ booking'[b].status \in {"rejected", "cancelled", booking[b].status}
        BY <1>1, <2>3 DEF Reject, LockElapses, Cron, ExpireLock, CancelUnanswered,
                          CancelUnpaid, TypeOK, Booking
      <4>3. QED BY <4>1, <4>2
    <3>2. QED BY <2>1, <3>1 DEF Kept, Collected
  <2>4. QED BY <1>3, <2>2, <2>3
<1>4. ASSUME NEW b \in Bookings, NEW r \in Requests, Read(r, b)
      PROVE  UNCHANGED docs
  BY <1>4 DEF Read, AcceptRead, StartJobRead, CompleteJobRead, CancelRead, PayAdvanceRead,
              PayRemainingRead
<1>5. ASSUME NEW b \in Bookings, NEW t \in PaymentTypes, NEW outcome,
             ProviderSettles(b, t, outcome)
      PROVE  UNCHANGED docs
  BY <1>5 DEF ProviderSettles
<1>6. QED BY <1>2, <1>3, <1>4, <1>5, ContinueKept, QuietKept DEF Next

\* A request moves on with what it read, ends, or has just read.
LEMMA Moves ==
  ASSUME Inductive, Next, NEW r \in Requests, request'[r] # Idle
  PROVE  \/ \E b \in Bookings : Read(r, b)
         \/ /\ request[r] # Idle
            /\ request'[r].b = request[r].b
            /\ request'[r].read = request[r].read
            /\ \/ request'[r].step = request[r].step
               \/ request'[r].step \in {"logAdvance", "logRemaining"}
               \/ request'[r].step = "acceptTx" /\ request[r].step = "accept"
<1>1. TypeOK
  BY DEF Inductive
<1>2. CASE request'[r] = request[r]
  BY <1>2
<1>3. ASSUME NEW q \in Requests, Continue(q), request'[r] # request[r]
      PROVE  /\ request[r] \in InFlight
             /\ \E step \in {"acceptTx", "logAdvance", "logRemaining"} :
                  /\ step = "acceptTx" => request[r].step = "accept"
                  /\ request'[r] = [request[r] EXCEPT !.step = step]
  <2>1. \/ Finish(q)
        \/ At(q, "accept") /\ GoTo(q, "acceptTx")
        \/ GoTo(q, "logAdvance") \/ GoTo(q, "logRemaining")
    BY <1>3 DEF Continue, AcceptTxRead, AcceptCommit, StartJobSave, CompleteJobSave,
       CancelByFarmerSave, CancelByOperatorSave, SaveAndFinish, PayAdvanceTx,
       PayAdvanceRefused, PayRemainingTx, PayRemainingReplay, PayRemainingRefused,
       LogPayment, Crash
  <2>2. request[q] \in InFlight
    BY <1>1, <1>3, ContinueBusy, InFlightType
  <2>3. r = q
    BY <1>1, <1>3, <2>1 DEF Finish, GoTo, TypeOK
  <2>4. ~Finish(q)
    BY <1>1, <2>3 DEF Finish, TypeOK
  <2>5. QED BY <1>1, <2>1, <2>2, <2>3, <2>4 DEF GoTo, At, TypeOK
<1>4. ASSUME NEW q \in Requests, Continue(q), request'[r] # request[r]
      PROVE  /\ request[r] # Idle
             /\ request'[r].b = request[r].b
             /\ request'[r].read = request[r].read
             /\ \/ request'[r].step \in {"logAdvance", "logRemaining"}
                \/ request'[r].step = "acceptTx" /\ request[r].step = "accept"
  BY <1>3, <1>4 DEF InFlight, Idle
<1>5. ASSUME NEW q \in Requests, NEW b \in Bookings, Read(q, b), request'[r] # request[r]
      PROVE  Read(r, b)
  <2>1. \E step : Begin(q, step, b)
    BY <1>5 DEF Read, AcceptRead, StartJobRead, CompleteJobRead, CancelRead, PayAdvanceRead,
                PayRemainingRead
  <2>2. r = q
    BY <1>1, <1>5, <2>1 DEF Begin, TypeOK
  <2>3. QED BY <1>5, <2>2
<1>6. ASSUME NEW b \in Bookings, Create(b) \/ Reject(b) \/ LockElapses(b) \/ Cron(b)
      PROVE  UNCHANGED request
  BY <1>6 DEF Create, Reject, LockElapses, Cron, ExpireLock, CancelUnanswered, CancelUnpaid
<1>7. ASSUME NEW b \in Bookings, NEW t \in PaymentTypes, Finalizer(b, t)
      PROVE  UNCHANGED request
  BY <1>7 DEF Finalizer, FinalizePromote, FinalizeRowOnly, ReconcileFetchFailed, ReconcileMarkFailed
<1>8. ASSUME NEW b \in Bookings, NEW t \in PaymentTypes, NEW outcome,
             ProviderSettles(b, t, outcome)
      PROVE  UNCHANGED request
  BY <1>8 DEF ProviderSettles
<1>9. QED BY <1>2, <1>4, <1>5, <1>6, <1>7, <1>8 DEF Next

LEMMA ReadsStep ==
  ASSUME Inductive, Next
  PROVE  ReadsFit'
<1>1. TypeOK /\ ReadsFit /\ WorkNeedsAdvance
  BY DEF Inductive
<1>2. SUFFICES ASSUME NEW r \in Requests, request'[r] # Idle
               PROVE  ReadFits(request[r])'
  BY DEF ReadsFit
<1>3. ASSUME NEW b \in Bookings, Read(r, b)
      PROVE  ReadFits(request[r])'
  <2>1. PICK step \in Steps : Begin(r, step, b)
    BY <1>3 DEF Read, AcceptRead, StartJobRead, CompleteJobRead, CancelRead, PayAdvanceRead,
                PayRemainingRead, Steps
  <2>2. request'[r] = [step |-> step, b |-> b, read |-> booking[b]]
    BY <1>1, <2>1 DEF Begin, TypeOK
  <2>3. UNCHANGED <<booking, payment>>
    BY <1>3 DEF Read, AcceptRead, StartJobRead, CompleteJobRead, CancelRead, PayAdvanceRead,
                PayRemainingRead, docs
  <2>4. /\ booking[b].status # "absent"
        /\ step \in {"accept", "acceptTx"} => booking[b].status = "pending"
        /\ step = "start" => booking[b].status \in {"confirmed", "en_route"}
        /\ step = "complete" => booking[b].status = "in_progress" /\ booking[b].startTime
        /\ step \in {"cancelByFarmer", "cancelByOperator"} =>
             booking[b].status \notin {"absent", "completed", "closed", "cancelled", "rejected"}
    BY <1>1, <1>3, <2>2 DEF Read, AcceptRead, StartJobRead, CompleteJobRead, CancelRead,
       PayAdvanceRead, PayRemainingRead, Begin, TypeOK, TerminalStatuses
  <2>5. step \in {"start", "complete"} => Collected(b, "advance")
    BY <1>1, <2>4 DEF WorkNeedsAdvance
  <2>6. step \in {"accept", "acceptTx"} => booking[b].paymentStatus = "no_payment"
    BY <2>4 DEF Inductive, NothingDue
  <2>7. QED BY <2>2, <2>3, <2>4, <2>5, <2>6 DEF ReadFits, Collected
<1>4. CASE /\ request[r] # Idle
           /\ request'[r].b = request[r].b
           /\ request'[r].read = request[r].read
           /\ \/ request'[r].step = request[r].step
              \/ request'[r].step \in {"logAdvance", "logRemaining"}
              \/ request'[r].step = "acceptTx" /\ request[r].step = "accept"
  <2>1. request[r].b \in Bookings /\ ReadFits(request[r])
    BY <1>1, <1>4, InFlightType DEF ReadsFit
  <2>2. Kept(request[r].b)
    BY <2>1, StepKept
  <2>3. QED BY <1>4, <2>1, <2>2 DEF ReadFits, Kept, Collected, PaymentTypes
<1>5. QED BY <1>2, <1>3, <1>4, Moves

LEMMA InductiveInit == Init => Inductive
<1> SUFFICES ASSUME Init PROVE Inductive
  OBVIOUS
<1>1. TypeOK
  BY TypeInit
<1>2. /\ \A b \in Bookings : /\ booking[b] = NewBooking("absent")
                             /\ payment[b] = [t \in PaymentTypes |-> "none"]
      /\ earning = {}
      /\ \A r \in Requests : request[r] = Idle
  BY DEF Init
<1>3. WorkNeedsAdvance /\ MoneyOrder /\ AwaitedPayment /\ WorkDates /\ AdvanceRow
      /\ NothingDue
  BY <1>2 DEF WorkNeedsAdvance, MoneyOrder, AwaitedPayment, WorkDates, AdvanceRow, NothingDue,
              NewBooking, PaymentTypes
<1>4. IndexesHold
  BY <1>2 DEF IndexesHold, Admits, NewBooking, ActiveStatuses
<1>5. QED BY <1>1, <1>2, <1>3, <1>4 DEF Inductive, ReadsFit

LEMMA DocsStep ==
  ASSUME Inductive, Next
  PROVE  DocsFit'
<1>1. DocsFit
  BY DEF Inductive, DocsFit
<1>2. ASSUME NEW b \in Bookings, NEW r \in Requests, Read(r, b)
      PROVE  UNCHANGED <<booking, payment, earning>>
  BY <1>2 DEF Read, AcceptRead, StartJobRead, CompleteJobRead, CancelRead, PayAdvanceRead,
              PayRemainingRead, docs, books
<1>3. ASSUME NEW b \in Bookings, NEW t \in PaymentTypes, NEW outcome,
             ProviderSettles(b, t, outcome)
      PROVE  UNCHANGED <<booking, payment, earning>>
  BY <1>3 DEF ProviderSettles, docs, books
<1>4. QED BY <1>1, <1>2, <1>3, QuietFits, ContinueFits, FinalizerFits, TickFits DEF Next

LEMMA InductiveStep == Inductive /\ [Next]_vars => Inductive'
<1> SUFFICES ASSUME Inductive, [Next]_vars PROVE Inductive'
  OBVIOUS
<1>1. CASE Next
  <2>1. TypeOK'
    BY <1>1, TypeStep DEF Inductive
  <2>2. DocsFit' /\ IndexesHold' /\ ReadsFit'
    BY <1>1, DocsStep, IndexStep, ReadsStep
  <2>3. QED BY <2>1, <2>2 DEF Inductive, DocsFit
<1>2. CASE UNCHANGED vars
  BY <1>2 DEF vars, Inductive, TypeOK, WorkNeedsAdvance, MoneyOrder, AwaitedPayment,
     IndexesHold, Admits, WorkDates, AdvanceRow, NothingDue, ReadsFit, ReadFits, Collected
<1>3. QED BY <1>1, <1>2

\* The invariant every other result below rests on: it holds in every reachable
\* state, whatever requests, crons and finalizers do to each other.
THEOREM InductiveInvariant == Spec => []Inductive
<1>1. QED BY InductiveInit, InductiveStep, PTL DEF Spec

\* No work and no balance without a confirmed advance, for any number of racing
\* requests and stale saves.
THEOREM AdvanceFirst == Spec => []WorkNeedsAdvance
<1>1. Inductive => WorkNeedsAdvance
  BY DEF Inductive
<1>2. QED BY <1>1, InductiveInvariant, PTL

\* A balance only for finished work; closing and settling only once it is in.
THEOREM BalanceLast == Spec => []MoneyOrder
<1>1. Inductive => MoneyOrder
  BY DEF Inductive
<1>2. QED BY <1>1, InductiveInvariant, PTL

\* payment_pending always has a deadline and an unconfirmed row to wait for.
THEOREM PaymentAwaited == Spec => []AwaitedPayment
<1>1. Inductive => AwaitedPayment
  BY DEF Inductive
<1>2. QED BY <1>1, InductiveInvariant, PTL

\* A confirmed payment row is never moved back by any step.
THEOREM SuccessStays == Spec => SuccessIsFinal
<1>1. Inductive /\ [Next]_vars =>
        [\A b \in Bookings, t \in PaymentTypes : Collected(b, t) => Collected(b, t)']_vars
  BY StepKept DEF Kept
<1>2. QED BY <1>1, InductiveInvariant, PTL DEF Spec, SuccessIsFinal

-----------------------------------------------------------------------------
\* The stage of a booking, before and after a step.
LEMMA StageOf ==
  ASSUME NEW b
  PROVE  /\ booking[b].status = "pending" => Stage(b) = 4
         /\ booking[b].status = "accepted" => Stage(b) = 3
         /\ booking[b].status = "payment_pending" /\ booking[b].lock = "set" => Stage(b) = 2
         /\ booking[b].status = "payment_pending" /\ booking[b].lock # "set" => Stage(b) = 1
         /\ booking[b].status \notin Waiting => Stage(b) = 0
         /\ Stage(b) \in 0 .. 4
BY DEF Stage, Waiting

LEMMA StageOfNext ==
  ASSUME NEW b
  PROVE  /\ booking'[b].status = "pending" => Stage(b)' = 4
         /\ booking'[b].status = "accepted" => Stage(b)' = 3
         /\ booking'[b].status = "payment_pending" /\ booking'[b].lock = "set" => Stage(b)' = 2
         /\ booking'[b].status = "payment_pending" /\ booking'[b].lock # "set" => Stage(b)' = 1
         /\ booking'[b].status \notin Waiting => Stage(b)' = 0
         /\ Stage(b)' \in 0 .. 4
BY DEF Stage, Waiting

\* A step that leaves a waiting booking's document alone, lets it accept or pay, or
\* ends the wait, brings no stage back.
LEMMA StageFalls ==
  ASSUME NEW b,
         \/ booking'[b] = booking[b]
         \/ booking[b].status = "pending" /\ booking'[b].status = "accepted"
         \/ booking[b].status = "accepted" /\ booking'[b].status = "payment_pending"
         \/ booking[b].status = "payment_pending" /\ booking'[b].status = "payment_pending"
              /\ booking'[b].lock = "elapsed"
         \/ booking'[b].status \notin Waiting
  PROVE  Stage(b)' <= Stage(b)
<1>1. CASE booking'[b] = booking[b]
  BY <1>1, StageOf DEF Stage
<1>2. CASE booking'[b] # booking[b]
  BY <1>2, StageOf, StageOfNext
<1>3. QED BY <1>1, <1>2

\* A deadline that passes, and a cron that acts on one, takes a stage away.
LEMMA DeadlineFalls ==
  ASSUME TypeOK, NEW b \in Bookings, LockElapses(b) \/ Cron(b)
  PROVE  Stage(b)' < Stage(b)
<1>1. CASE LockElapses(b)
  <2>1. /\ booking[b].status = "payment_pending" /\ booking[b].lock = "set"
        /\ booking'[b].status = "payment_pending" /\ booking'[b].lock = "elapsed"
    BY <1>1 DEF LockElapses, TypeOK, Booking
  <2>2. QED BY <2>1, StageOf, StageOfNext
<1>2. CASE Cron(b)
  <2>1. booking[b].status \in Waiting /\ booking'[b].status = "cancelled"
    BY <1>2 DEF Cron, ExpireLock, CancelUnanswered, CancelUnpaid, TypeOK, Booking, Waiting
  <2>2. Stage(b) > 0
    BY <2>1, StageOf DEF Waiting
  <2>3. Stage(b)' = 0
    BY <2>1, StageOfNext DEF Waiting
  <2>4. QED BY <2>2, <2>3
<1>3. QED BY <1>1, <1>2

LEMMA StageStep ==
  ASSUME Inductive, Next, NEW o \in Bookings, Stage(o) > 0
  PROVE  Stage(o)' <= Stage(o)
<1>1. TypeOK /\ DocsFit
  BY DEF Inductive, DocsFit
<1>2. CASE booking'[o] = booking[o]
  BY <1>2, StageFalls
<1>3. ASSUME NEW r \in Requests, Continue(r), booking'[o] # booking[o]
      PROVE  Stage(o)' <= Stage(o)
  <2>1. PICK b \in Bookings : b = request[r].b
    BY <1>1, <1>3, ContinueBusy, InFlightType
  <2>2. CASE Saves(r)
    <3>1. PICK doc \in Booking : SaveEffect(b, doc)
      BY <1>3, <2>1, <2>2, SaveLands
    <3>2. o = b
      BY <1>1, <1>3, <3>1 DEF SaveEffect, TypeOK
    <3>3. booking'[o].status \notin Waiting
      BY <1>1, <3>1, <3>2 DEF SaveEffect, TypeOK, Waiting
    <3>4. QED BY <3>3, StageFalls
  <2>3. CASE AcceptCommit(r)
    <3>1. booking[o].status = "pending" /\ booking'[o].status = "accepted"
      BY <1>1, <1>3, <2>1, <2>3 DEF AcceptCommit, TypeOK, Booking
    <3>2. QED BY <3>1, StageFalls
  <2>4. CASE PayAdvanceTx(r)
    <3>1. booking[o].status = "accepted" /\ booking'[o].status = "payment_pending"
      BY <1>1, <1>3, <2>1, <2>4 DEF PayAdvanceTx, CanPayAdvance, TypeOK, Booking
    <3>2. QED BY <3>1, StageFalls
  <2>5. CASE PayRemainingTx(r)
    <3>1. booking[o].status = "completed"
      BY <1>1, <1>3, <2>1, <2>5 DEF PayRemainingTx, CanPayRemaining, TypeOK
    <3>2. Stage(o) = 0
      BY <3>1, StageOf DEF Waiting
    <3>3. QED BY <3>2
  <2>6. CASE ~(Saves(r) \/ AcceptCommit(r) \/ PayAdvanceTx(r) \/ PayRemainingTx(r))
    BY <1>3, <2>6 DEF Continue, Saves, AcceptTxRead, PayAdvanceRefused, PayRemainingReplay,
       PayRemainingRefused, LogPayment, Crash, docs
  <2>7. QED BY <2>2, <2>3, <2>4, <2>5, <2>6
<1>4. ASSUME NEW b \in Bookings, NEW t \in PaymentTypes, Finalizer(b, t),
             booking'[o] # booking[o]
      PROVE  Stage(o)' <= Stage(o)
  <2>1. FinalizePromote(b, t)
    BY <1>4 DEF Finalizer, FinalizeRowOnly, ReconcileFetchFailed, ReconcileMarkFailed, docs
  <2>2. o = b /\ booking'[o].status = Promoted(b, t) /\ Promoted(b, t) # booking[b].status
    BY <1>1, <1>4, <2>1 DEF FinalizePromote, TypeOK, Booking
  <2>3. booking'[o].status \notin Waiting
    BY <2>2 DEF Promoted, Waiting
  <2>4. QED BY <2>3, StageFalls
<1>5. ASSUME NEW b \in Bookings, Create(b) \/ Reject(b) \/ LockElapses(b) \/ Cron(b),
             booking'[o] # booking[o]
      PROVE  Stage(o)' <= Stage(o)
  <2>1. o = b
    BY <1>1, <1>5 DEF Create, Reject, LockElapses, Cron, ExpireLock, CancelUnanswered,
                      CancelUnpaid, TypeOK
  <2>2. CASE Create(b)
    BY <2>1, <2>2, StageOf DEF Create, Waiting
  <2>3. CASE Reject(b)
    <3>1. booking'[o].status = "rejected"
      BY <1>1, <2>1, <2>3 DEF Reject, TypeOK, Booking
    <3>2. QED BY <3>1, StageFalls DEF Waiting
  <2>4. CASE LockElapses(b) \/ Cron(b)
    BY <1>1, <2>1, <2>4, DeadlineFalls, StageOf, StageOfNext
  <2>5. QED BY <1>5, <2>2, <2>3, <2>4
<1>6. ASSUME NEW b \in Bookings, NEW r \in Requests, Read(r, b)
      PROVE  UNCHANGED booking
  BY <1>6 DEF Read, AcceptRead, StartJobRead, CompleteJobRead, CancelRead, PayAdvanceRead,
              PayRemainingRead, docs
<1>7. ASSUME NEW b \in Bookings, NEW t \in PaymentTypes, NEW outcome,
             ProviderSettles(b, t, outcome)
      PROVE  UNCHANGED booking
  BY <1>7 DEF ProviderSettles, docs
<1>8. QED BY <1>2, <1>3, <1>4, <1>5, <1>6, <1>7 DEF Next

\* While a booking waits, the deadlines ahead of it only become fewer, and each one
\* that passes or is acted on is one fewer.
THEOREM WaitsShorten == Spec => WaitShortens
<1>1. Inductive /\ [Next]_vars =>
        [\A b \in Bookings :
           Stage(b) > 0 =>
             /\ Stage(b)' <= Stage(b)
             /\ LockElapses(b) \/ Cron(b) => Stage(b)' < Stage(b)]_vars
  BY StageStep, DeadlineFalls DEF Inductive
<1>2. QED BY <1>1, InductiveInvariant, PTL DEF Spec, WaitShortens

-----------------------------------------------------------------------------
\* Every step keeps to assertBookingTransition's map, but for stale saves.
LEMMA MapStep ==
  ASSUME Inductive, Next, NEW o \in Bookings
  PROVE  \/ booking[o].status \in {"absent", booking'[o].status}
         \/ booking'[o].status \in NextStatuses(booking[o].status)
         \/ StaleSave(o)
<1>1. TypeOK /\ DocsFit
  BY DEF Inductive, DocsFit
<1>2. CASE UNCHANGED booking
  BY <1>2
<1>3. ASSUME NEW r \in Requests, Saves(r)
      PROVE  \/ booking[o].status \in {"absent", booking'[o].status}
             \/ booking'[o].status \in NextStatuses(booking[o].status)
             \/ StaleSave(o)
  <2> DEFINE b == request[r].b
             read == request[r].read
  <2>1. /\ request[r].step \in {"start", "complete", "cancelByFarmer", "cancelByOperator"}
        /\ request[r] # Idle
        /\ request'[r] = Idle
    BY <1>1, <1>3, AtBusy DEF Saves, StartJobSave, CompleteJobSave, CancelByFarmerSave,
       CancelByOperatorSave, SaveAndFinish, Finish, At, TypeOK, Steps
  <2>2. b \in Bookings /\ booking[b] \in Booking /\ read \in Booking /\ ReadFits(request[r])
    BY <1>1, <2>1, InFlightType DEF Inductive, ReadsFit
  <2>3. CASE o # b \/ UNCHANGED booking
    BY <1>1, <1>3, <2>2, <2>3 DEF Saves, StartJobSave, CompleteJobSave, CancelByFarmerSave,
       CancelByOperatorSave, SaveAndFinish, TypeOK
  <2>4. CASE o = b /\ read.status # booking[b].status
    BY <2>1, <2>4 DEF StaleSave
  <2>5. CASE o = b /\ read.status = booking[b].status /\ booking' # booking
    <3>1. CASE StartJobSave(r)
      <4>1. booking'[b].status = "in_progress" /\ read.status \in {"confirmed", "en_route"}
        BY <1>1, <2>2, <2>5, <3>1 DEF StartJobSave, SaveAndFinish, Saved, Field, TypeOK, Booking,
           At, ReadFits
      <4>2. QED BY <2>5, <4>1 DEF NextStatuses
    <3>2. CASE CompleteJobSave(r)
      <4>1. booking'[b].status = "completed" /\ read.status = "in_progress"
        BY <1>1, <2>2, <2>5, <3>2 DEF CompleteJobSave, SaveAndFinish, Saved, Field, TypeOK,
           Booking, At, ReadFits
      <4>2. QED BY <2>5, <4>1 DEF NextStatuses
    <3>3. CASE CancelByFarmerSave(r) \/ CancelByOperatorSave(r)
      <4>1. booking'[b].status = "cancelled"
        BY <1>1, <2>2, <2>5, <3>3 DEF CancelByFarmerSave, CancelByOperatorSave, SaveAndFinish,
           Saved, Field, TypeOK, Booking, At, ReadFits
      <4>2. read.status \notin {"absent", "completed", "closed", "cancelled", "rejected"}
        BY <2>2, <3>3 DEF CancelByFarmerSave, CancelByOperatorSave, At, ReadFits
      <4>3. QED BY <2>2, <2>5, <4>1, <4>2 DEF NextStatuses, Booking, Statuses
    <3>4. QED BY <1>3, <3>1, <3>2, <3>3 DEF Saves
  <2>6. QED BY <2>3, <2>4, <2>5
<1>4. ASSUME NEW r \in Requests, Continue(r), ~Saves(r)
      PROVE  \/ booking'[o].status = booking[o].status
             \/ booking'[o].status \in NextStatuses(booking[o].status)
  <2>1. request[r].b \in Bookings
    BY <1>1, <1>4, ContinueBusy, InFlightType
  <2>2. CASE AcceptCommit(r)
    BY <1>1, <2>1, <2>2 DEF AcceptCommit, TypeOK, Booking, NextStatuses
  <2>3. CASE PayAdvanceTx(r)
    BY <1>1, <2>1, <2>3 DEF PayAdvanceTx, CanPayAdvance, TypeOK, Booking, NextStatuses
  <2>4. CASE PayRemainingTx(r)
    BY <1>1, <2>1, <2>4 DEF PayRemainingTx, CanPayRemaining, TypeOK, Booking, NextStatuses
  <2>5. CASE ~(AcceptCommit(r) \/ PayAdvanceTx(r) \/ PayRemainingTx(r))
    BY <1>4, <2>5 DEF Continue, Saves, AcceptTxRead, PayAdvanceRefused, PayRemainingReplay,
       PayRemainingRefused, LogPayment, Crash, docs
  <2>6. QED BY <2>2, <2>3, <2>4, <2>5
<1>5. ASSUME NEW b \in Bookings, NEW t \in PaymentTypes, Finalizer(b, t)
      PROVE  \/ booking'[o].status = booking[o].status
             \/ booking'[o].status \in NextStatuses(booking[o].status)
  <2>1. CASE FinalizePromote(b, t)
    <3>1. booking[b].status # "accepted"
      BY <1>1, <2>1 DEF FinalizePromote, CanFinalize, Promoted, DocsFit, AdvanceRow, PaymentTypes
    <3>2. booking[b].status = "payment_pending" /\ Promoted(b, t) \in {"confirmed", "closed"}
      BY <2>1, <3>1 DEF FinalizePromote, Promoted
    <3>3. /\ booking'[b].status = Promoted(b, t)
          /\ o # b => booking'[o] = booking[o]
      BY <1>1, <2>1 DEF FinalizePromote, TypeOK, Booking
    <3>4. QED BY <3>2, <3>3 DEF NextStatuses
  <2>2. CASE ~FinalizePromote(b, t)
    BY <1>5, <2>2 DEF Finalizer, FinalizeRowOnly, ReconcileFetchFailed, ReconcileMarkFailed, docs
  <2>3. QED BY <2>1, <2>2
<1>6. ASSUME NEW b \in Bookings, Create(b) \/ Reject(b) \/ LockElapses(b) \/ Cron(b)
      PROVE  \/ booking[o].status \in {"absent", booking'[o].status}
             \/ booking'[o].status \in NextStatuses(booking[o].status)
  <2>1. CASE Create(b)
    BY <1>1, <2>1 DEF Create, TypeOK
  <2>2. CASE Reject(b)
    BY <1>1, <2>2 DEF Reject, TypeOK, Booking, NextStatuses
  <2>3. CASE LockElapses(b)
    BY <1>1, <2>3 DEF LockElapses, TypeOK, Booking
  <2>4. CASE Cron(b)
    BY <1>1, <2>4 DEF Cron, ExpireLock, CancelUnanswered, CancelUnpaid, TypeOK, Booking,
       NextStatuses
  <2>5. QED BY <1>6, <2>1, <2>2, <2>3, <2>4
<1>7. ASSUME NEW b \in Bookings, NEW r \in Requests, Read(r, b)
      PROVE  UNCHANGED booking
  BY <1>7 DEF Read, AcceptRead, StartJobRead, CompleteJobRead, CancelRead, PayAdvanceRead,
              PayRemainingRead, docs
<1>8. ASSUME NEW b \in Bookings, NEW t \in PaymentTypes, NEW outcome,
             ProviderSettles(b, t, outcome)
      PROVE  UNCHANGED booking
  BY <1>8 DEF ProviderSettles, docs
<1>9. QED BY <1>2, <1>3, <1>4, <1>5, <1>6, <1>7, <1>8 DEF Next

\* Whatever leaves assertBookingTransition's map is a save of a document that has
\* changed since it was read, and nothing else.
THEOREM MapKept == Spec => OnlyStaleSavesLeaveTheMap
<1>1. Inductive /\ [Next]_vars =>
        [\A b \in Bookings :
           \/ booking[b].status \in {"absent", booking'[b].status}
           \/ booking'[b].status \in NextStatuses(booking[b].status)
           \/ StaleSave(b)]_vars
  BY MapStep
<1>2. QED BY <1>1, InductiveInvariant, PTL DEF Spec, OnlyStaleSavesLeaveTheMap

-----------------------------------------------------------------------------
\* The advances a farmer's wallet has been debited for.
Debits(f) == {b \in Bookings : FarmerOf[b] = f /\ payment[b]["advance"] # "none"}

LEMMA WalletInit == Init => WalletPaysOnce
<1> SUFFICES ASSUME Init, NEW f \in Farmers PROVE wallet[f] + Cardinality(Debits(f)) = WalletStart
  BY DEF WalletPaysOnce, Debits
<1>1. Debits(f) = {} /\ wallet[f] = WalletStart
  BY DEF Init, Debits, PaymentTypes
<1>2. QED BY <1>1, FS_EmptySet, Environment

\* Which advance rows exist, and the wallets, change in PayAdvanceTx alone.
LEMMA WalletFrame ==
  ASSUME TypeOK, Next, \A r \in Requests : ~PayAdvanceTx(r)
  PROVE  /\ UNCHANGED wallet
         /\ \A b \in Bookings : payment'[b]["advance"] # "none" <=> payment[b]["advance"] # "none"
<1>1. ASSUME NEW r \in Requests, Continue(r)
      PROVE  /\ UNCHANGED wallet
             /\ \A b \in Bookings : payment'[b]["advance"] = payment[b]["advance"]
  <2>1. request[r].b \in Bookings
    BY <1>1, ContinueBusy, InFlightType
  <2>2. CASE PayRemainingTx(r)
    BY <2>1, <2>2 DEF PayRemainingTx, TypeOK, PaymentTypes, books
  <2>3. CASE ~PayRemainingTx(r)
    BY <1>1, <2>3 DEF Continue, AcceptTxRead, AcceptCommit, StartJobSave, CompleteJobSave,
       CancelByFarmerSave, CancelByOperatorSave, SaveAndFinish, PayAdvanceRefused,
       PayRemainingReplay, PayRemainingRefused, LogPayment, Crash, docs, books
  <2>4. QED BY <2>2, <2>3
<1>2. ASSUME NEW o \in Bookings, NEW t \in PaymentTypes, Finalizer(o, t)
      PROVE  /\ UNCHANGED wallet
             /\ \A b \in Bookings : payment'[b]["advance"] # "none" <=> payment[b]["advance"] # "none"
  <2>1. UNCHANGED wallet
    BY <1>2 DEF Finalizer, FinalizePromote, FinalizeRowOnly, ReconcileFetchFailed,
                ReconcileMarkFailed, books
  <2>2. \/ UNCHANGED payment
        \/ /\ payment[o][t] # "none"
           /\ \E status \in {"SUCCESS", "FAILED"} : payment' = [payment EXCEPT ![o][t] = status]
    BY <1>2 DEF Finalizer, FinalizePromote, FinalizeRowOnly, CanFinalize, ReconcileFetchFailed,
                ReconcileMarkFailed, docs
  <2>3. QED BY <2>1, <2>2 DEF TypeOK, PaymentTypes
<1>3. ASSUME NEW b \in Bookings, Create(b) \/ Reject(b) \/ LockElapses(b) \/ Cron(b)
      PROVE  UNCHANGED <<wallet, payment>>
  BY <1>3 DEF Create, Reject, LockElapses, Cron, ExpireLock, CancelUnanswered, CancelUnpaid, books
<1>4. ASSUME NEW b \in Bookings, NEW r \in Requests, Read(r, b)
      PROVE  UNCHANGED <<wallet, payment>>
  BY <1>4 DEF Read, AcceptRead, StartJobRead, CompleteJobRead, CancelRead, PayAdvanceRead,
              PayRemainingRead, docs, books
<1>5. ASSUME NEW b \in Bookings, NEW t \in PaymentTypes, NEW outcome,
             ProviderSettles(b, t, outcome)
      PROVE  UNCHANGED <<wallet, payment>>
  BY <1>5 DEF ProviderSettles, docs, books
<1>6. QED BY <1>1, <1>2, <1>3, <1>4, <1>5 DEF Next

LEMMA WalletStep == TypeOK /\ WalletPaysOnce /\ [Next]_vars => WalletPaysOnce'
<1> SUFFICES ASSUME TypeOK, WalletPaysOnce, [Next]_vars, NEW f \in Farmers
             PROVE  wallet'[f] + Cardinality(Debits(f)') = WalletStart
  BY DEF WalletPaysOnce, Debits
<1>1. wallet[f] + Cardinality(Debits(f)) = WalletStart
  BY DEF WalletPaysOnce, Debits
<1>2. IsFiniteSet(Debits(f)) /\ Cardinality(Debits(f)) \in Nat /\ wallet[f] \in Nat
  BY Assignment, FS_Subset, FS_CardinalityType DEF Debits, TypeOK
<1>3. CASE UNCHANGED wallet
           /\ \A b \in Bookings : payment'[b]["advance"] # "none" <=> payment[b]["advance"] # "none"
  <2>1. Debits(f)' = Debits(f)
    BY <1>3 DEF Debits
  <2>2. QED BY <1>1, <1>3, <2>1
<1>4. ASSUME NEW r \in Requests, PayAdvanceTx(r)
      PROVE  wallet'[f] + Cardinality(Debits(f)') = WalletStart
  <2>1. At(r, "payAdvance")
    BY <1>4 DEF PayAdvanceTx
  <2>2. PICK b \in Bookings : b = request[r].b
    BY <2>1, AtBusy, InFlightType DEF Steps
  <2>3. /\ payment[b]["advance"] = "none"
        /\ wallet' = [wallet EXCEPT ![FarmerOf[b]] = @ - 1]
        /\ payment' = [payment EXCEPT ![b]["advance"] = "PENDING"]
    BY <1>4, <2>2 DEF PayAdvanceTx, CanPayAdvance
  <2>4. CASE FarmerOf[b] = f
    <3>1. Debits(f)' = Debits(f) \cup {b} /\ b \notin Debits(f)
      BY <2>3, <2>4 DEF Debits, TypeOK, PaymentTypes
    <3>2. Cardinality(Debits(f)') = Cardinality(Debits(f)) + 1
      BY <1>2, <3>1, FS_AddElement
    <3>3. wallet'[f] = wallet[f] - 1
      BY <2>3, <2>4 DEF TypeOK
    <3>4. QED BY <1>1, <1>2, <3>2, <3>3
  <2>5. CASE FarmerOf[b] # f
    <3>1. Debits(f)' = Debits(f)
      BY <2>3, <2>5 DEF Debits, TypeOK, PaymentTypes
    <3>2. wallet'[f] = wallet[f]
      BY <2>3, <2>5, Assignment DEF TypeOK
    <3>3. QED BY <1>1, <3>1, <3>2
  <2>6. QED BY <2>4, <2>5
<1>5. CASE UNCHANGED vars
  BY <1>3, <1>5 DEF vars
<1>6. QED BY <1>3, <1>4, <1>5, WalletFrame

\* The wallet pays exactly once for each advance that is recorded.
THEOREM WalletExact == Spec => []WalletPaysOnce
<1>1. QED BY WalletInit, WalletStep, TypeCorrect, PTL DEF Spec

-----------------------------------------------------------------------------
(***************************************************************************)
(* The backend implements Escrow.                                          *)
(***************************************************************************)
LEMMA EscrowInit == Init => Promise!Init
<1> SUFFICES ASSUME Init PROVE Promise!Init
  OBVIOUS
<1>1. {p \in Bookings \X PaymentTypes : provider[p[1]][p[2]] = "captured"} = {}
  BY DEF Init
<1>2. /\ {b \in Bookings : booking[b].startTime} = {}
      /\ {b \in Bookings : booking[b].endTime} = {}
  BY DEF Init, NewBooking
<1>3. payment = [b \in Bookings |-> [t \in Promise!PaymentTypes |-> "none"]]
  BY DEF Init, PaymentTypes, Promise!PaymentTypes
<1>4. QED BY <1>1, <1>2, <1>3 DEF Init, Promise!Init

\* The promise's variables, as the mapping gives them.
Captured == {p \in Bookings \X PaymentTypes : provider[p[1]][p[2]] = "captured"}
Began == {b \in Bookings : booking[b].startTime}
Finished == {b \in Bookings : booking[b].endTime}

\* A step that keeps what the promise speaks of is a stutter of the promise.
LEMMA EscrowStutter ==
  ASSUME UNCHANGED <<provider, payment, wallet, earning>>, Began' = Began, Finished' = Finished
  PROVE  UNCHANGED Promise!vars
BY DEF Promise!vars, Began, Finished

LEMMA EscrowSave ==
  ASSUME Inductive, NEW r \in Requests, Saves(r)
  PROVE  [Promise!Next]_(Promise!vars)
<1>1. TypeOK
  BY DEF Inductive
<1>2. PICK b \in Bookings : b = request[r].b
  BY SaveLands
<1>3. UNCHANGED <<provider, payment, wallet, earning>>
  BY DEF Saves, StartJobSave, CompleteJobSave, CancelByFarmerSave, CancelByOperatorSave,
         SaveAndFinish, books
<1>4. CASE booking' = booking
  BY <1>3, <1>4, EscrowStutter DEF Began, Finished
<1>5. ASSUME NEW doc \in Booking, SaveEffect(b, doc)
      PROVE  [Promise!Next]_(Promise!vars)
  <2>1. booking'[b] = doc /\ \A o \in Bookings \ {b} : booking'[o] = booking[o]
    BY <1>1, <1>5 DEF SaveEffect, TypeOK
  <2>2. doc.startTime \in BOOLEAN /\ doc.endTime \in BOOLEAN /\ booking[b] \in Booking
    BY <1>1 DEF Booking, TypeOK
  <2>3. CASE doc.startTime # booking[b].startTime
    <3>1. Began' = Began \cup {b} /\ Finished' = Finished
      BY <1>5, <2>1, <2>2, <2>3 DEF SaveEffect, Began, Finished, Booking
    <3>2. payment[b]["advance"] = "SUCCESS"
      BY <1>5, <2>3 DEF SaveEffect, Collected
    <3>3. Promise!BeginWork(b)
      BY <1>3, <3>1, <3>2 DEF Promise!BeginWork, Began, Finished
    <3>4. QED BY <3>3 DEF Promise!Next
  <2>4. CASE doc.startTime = booking[b].startTime /\ doc.endTime # booking[b].endTime
    <3>1. Began' = Began /\ Finished' = Finished \cup {b} /\ b \in Began
      BY <1>5, <2>1, <2>2, <2>4 DEF SaveEffect, Began, Finished, Booking
    <3>2. Promise!FinishWork(b)
      BY <1>3, <3>1 DEF Promise!FinishWork, Began, Finished
    <3>3. QED BY <3>2 DEF Promise!Next
  <2>5. CASE doc.startTime = booking[b].startTime /\ doc.endTime = booking[b].endTime
    <3>1. Began' = Began /\ Finished' = Finished
      BY <2>1, <2>5 DEF Began, Finished
    <3>2. QED BY <1>3, <3>1, EscrowStutter
  <2>6. QED BY <2>3, <2>4, <2>5
<1>6. QED BY <1>2, <1>4, <1>5, SaveLands

LEMMA EscrowContinue ==
  ASSUME Inductive, NEW r \in Requests, Continue(r)
  PROVE  [Promise!Next]_(Promise!vars)
<1>1. TypeOK /\ MoneyOrder /\ WorkDates
  BY DEF Inductive
<1>2. PICK b \in Bookings : b = request[r].b
  BY <1>1, ContinueBusy, InFlightType
<1>3. booking[b] \in Booking
  BY <1>1 DEF TypeOK
<1>4. CASE Saves(r)
  BY <1>4, EscrowSave
<1>5. CASE AcceptCommit(r)
  <2>1. \A o \in Bookings : /\ booking'[o].startTime = booking[o].startTime
                            /\ booking'[o].endTime = booking[o].endTime
    BY <1>1, <1>2, <1>5 DEF AcceptCommit, TypeOK, Booking
  <2>2. QED BY <1>5, <2>1, EscrowStutter DEF AcceptCommit, books, Began, Finished
<1>6. CASE PayAdvanceTx(r)
  <2>1. \A o \in Bookings : /\ booking'[o].startTime = booking[o].startTime
                            /\ booking'[o].endTime = booking[o].endTime
    BY <1>1, <1>2, <1>6 DEF PayAdvanceTx, TypeOK, Booking
  <2>2. Promise!RecordAdvance(b)
    BY <1>2, <1>6, <2>1 DEF PayAdvanceTx, CanPayAdvance, Promise!RecordAdvance
  <2>3. QED BY <2>2 DEF Promise!Next
<1>7. CASE PayRemainingTx(r)
  <2>1. \A o \in Bookings : /\ booking'[o].startTime = booking[o].startTime
                            /\ booking'[o].endTime = booking[o].endTime
    BY <1>1, <1>2, <1>7 DEF PayRemainingTx, TypeOK, Booking
  <2>2. booking[b].endTime /\ payment[b]["remaining"] = "none"
    BY <1>1, <1>2, <1>7 DEF PayRemainingTx, CanPayRemaining, WorkDates
  <2>3. Promise!RecordRemaining(b)
    BY <1>2, <1>7, <2>1, <2>2 DEF PayRemainingTx, books, Promise!RecordRemaining
  <2>4. QED BY <2>3 DEF Promise!Next
<1>8. CASE PayRemainingReplay(r)
  <2>1. UNCHANGED <<provider, payment, wallet, booking>>
    BY <1>8 DEF PayRemainingReplay, docs
  <2>2. CASE earning' = earning
    BY <2>1, <2>2, EscrowStutter DEF Began, Finished
  <2>3. CASE earning' = earning \cup {b} /\ booking[b].status = "closed"
    <3>1. Promise!Earn(b)
      BY <1>1, <2>1, <2>3 DEF MoneyOrder, Collected, Promise!Earn
    <3>2. QED BY <3>1 DEF Promise!Next
  <2>4. QED BY <1>2, <1>8, <2>2, <2>3 DEF PayRemainingReplay
<1>9. CASE ~(Saves(r) \/ AcceptCommit(r) \/ PayAdvanceTx(r) \/ PayRemainingTx(r) \/ PayRemainingReplay(r))
  <2>1. UNCHANGED <<provider, payment, wallet, booking, earning>>
    BY <1>9 DEF Continue, Saves, AcceptTxRead, PayAdvanceRefused, PayRemainingRefused,
                LogPayment, Crash, docs, books
  <2>2. QED BY <2>1, EscrowStutter DEF Began, Finished
<1>10. QED BY <1>4, <1>5, <1>6, <1>7, <1>8, <1>9

LEMMA EscrowFinalizer ==
  ASSUME Inductive, NEW b \in Bookings, NEW t \in PaymentTypes, Finalizer(b, t)
  PROVE  [Promise!Next]_(Promise!vars)
<1>1. TypeOK /\ booking[b] \in Booking
  BY DEF Inductive, TypeOK
<1>2. UNCHANGED <<provider, wallet, earning>>
  BY DEF Finalizer, FinalizePromote, FinalizeRowOnly, ReconcileFetchFailed,
         ReconcileMarkFailed, books
<1>3. \A o \in Bookings : /\ booking'[o].startTime = booking[o].startTime
                          /\ booking'[o].endTime = booking[o].endTime
  <2>1. CASE FinalizePromote(b, t)
    BY <1>1, <2>1 DEF FinalizePromote, TypeOK, Booking
  <2>2. CASE ~FinalizePromote(b, t)
    BY <2>2 DEF Finalizer, FinalizeRowOnly, ReconcileFetchFailed, ReconcileMarkFailed, docs
  <2>3. QED BY <2>1, <2>2
<1>4. t \in Promise!PaymentTypes
  BY DEF PaymentTypes, Promise!PaymentTypes
<1>5. CASE FinalizePromote(b, t) \/ FinalizeRowOnly(b, t)
  <2>1. <<b, t>> \in Captured /\ payment[b][t] \in {"PENDING", "FAILED"}
        /\ payment' = [payment EXCEPT ![b][t] = "SUCCESS"]
    BY <1>5 DEF FinalizePromote, FinalizeRowOnly, CanFinalize, Captured
  <2>2. Promise!Confirm(b, t)
    BY <1>2, <1>3, <2>1 DEF Promise!Confirm, Captured
  <2>3. QED BY <1>4, <2>2 DEF Promise!Next
<1>6. CASE ReconcileMarkFailed(b, t) /\ payment[b][t] = "PENDING"
  <2>1. Promise!Decline(b, t)
    BY <1>2, <1>3, <1>6 DEF ReconcileMarkFailed, Promise!Decline
  <2>2. QED BY <1>4, <2>1 DEF Promise!Next
<1>7. CASE ReconcileFetchFailed(b, t) \/ (ReconcileMarkFailed(b, t) /\ payment[b][t] # "PENDING")
  <2>1. UNCHANGED payment
    BY <1>7 DEF ReconcileFetchFailed, ReconcileMarkFailed, docs
  <2>2. QED BY <1>2, <1>3, <2>1, EscrowStutter DEF Began, Finished
<1>8. QED BY <1>5, <1>6, <1>7 DEF Finalizer

LEMMA EscrowTick ==
  ASSUME Inductive, NEW b \in Bookings,
         Create(b) \/ Reject(b) \/ LockElapses(b) \/ Cron(b)
  PROVE  UNCHANGED Promise!vars
<1>1. TypeOK /\ booking[b] \in Booking /\ WorkDates
  BY DEF Inductive, TypeOK
<1>2. UNCHANGED <<provider, payment, wallet, earning>>
  BY DEF Create, Reject, LockElapses, Cron, ExpireLock, CancelUnanswered, CancelUnpaid, books
<1>3. \A o \in Bookings \ {b} : booking'[o] = booking[o]
  BY <1>1 DEF Create, Reject, LockElapses, Cron, ExpireLock, CancelUnanswered, CancelUnpaid, TypeOK
<1>4. /\ booking'[b].startTime = booking[b].startTime
      /\ booking'[b].endTime = booking[b].endTime
  <2>1. CASE Create(b)
    BY <1>1, <2>1 DEF Create, NewBooking, WorkDates, TypeOK, Booking
  <2>2. CASE Reject(b) \/ LockElapses(b) \/ Cron(b)
    BY <1>1, <2>2 DEF Reject, LockElapses, Cron, ExpireLock, CancelUnanswered, CancelUnpaid,
                      TypeOK, Booking
  <2>3. QED BY <2>1, <2>2
<1>5. QED BY <1>2, <1>3, <1>4, EscrowStutter DEF Began, Finished

LEMMA EscrowProvider ==
  ASSUME TypeOK, NEW b \in Bookings, NEW t \in PaymentTypes,
         NEW outcome \in {"captured", "failed"}, ProviderSettles(b, t, outcome)
  PROVE  [Promise!Next]_(Promise!vars)
<1>1. /\ UNCHANGED <<booking, payment, wallet, earning>>
      /\ provider' = [provider EXCEPT ![b][t] = outcome]
      /\ outcome = "failed" => provider[b][t] # "captured"
  BY DEF ProviderSettles, docs, books
<1>2. t \in Promise!PaymentTypes
  BY DEF PaymentTypes, Promise!PaymentTypes
<1>3. CASE outcome = "captured"
  <2>1. Captured' = Captured \cup {<<b, t>>}
    BY <1>1, <1>3 DEF TypeOK, Captured
  <2>2. Promise!Capture(b, t)
    BY <1>1, <2>1 DEF Promise!Capture, Captured
  <2>3. QED BY <1>2, <2>2 DEF Promise!Next
<1>4. CASE outcome = "failed"
  <2>1. Captured' = Captured
    BY <1>1, <1>4 DEF TypeOK, Captured
  <2>2. QED BY <1>1, <2>1 DEF Promise!vars, Captured
<1>5. QED BY <1>3, <1>4

LEMMA EscrowStep == Inductive /\ [Next]_vars => [Promise!Next]_(Promise!vars)
<1> SUFFICES ASSUME Inductive, [Next]_vars PROVE [Promise!Next]_(Promise!vars)
  OBVIOUS
<1>1. CASE UNCHANGED vars
  BY <1>1, EscrowStutter DEF vars, Began, Finished
<1>2. ASSUME NEW b \in Bookings, NEW r \in Requests, Read(r, b)
      PROVE  UNCHANGED Promise!vars
  <2>1. UNCHANGED <<booking, payment, provider, wallet, earning>>
    BY <1>2 DEF Read, AcceptRead, StartJobRead, CompleteJobRead, CancelRead, PayAdvanceRead,
                PayRemainingRead, docs, books
  <2>2. QED BY <2>1, EscrowStutter DEF Began, Finished
<1>3. CASE Next
  BY <1>2, <1>3, EscrowContinue, EscrowFinalizer, EscrowTick, EscrowProvider DEF Next, Inductive
<1>4. QED BY <1>1, <1>3

\* The handlers, crons and callbacks implement the abstract promise about money.
THEOREM EscrowImplemented == Spec => EscrowKept
<1>1. Spec => Promise!Init /\ [][Promise!Next]_(Promise!vars)
  BY EscrowInit, EscrowStep, InductiveInvariant, PTL DEF Spec
<1>2. QED BY <1>1 DEF EscrowKept, Promise!Spec

-----------------------------------------------------------------------------
(***************************************************************************)
(* The bookings implement the promise of module Reservation.               *)
(***************************************************************************)

\* A step writes one booking document, and only Create writes one that is absent.
LEMMA OneBooking ==
  ASSUME Inductive, Next
  PROVE  \/ UNCHANGED booking
         \/ \E b \in Bookings :
              /\ \A o \in Bookings \ {b} : booking'[o] = booking[o]
              /\ booking[b].status # "absent" \/ Create(b)
<1>1. TypeOK /\ ReadsFit
  BY DEF Inductive
<1>2. ASSUME NEW r \in Requests, Continue(r)
      PROVE  \E b \in Bookings :
               /\ \A o \in Bookings \ {b} : booking'[o] = booking[o]
               /\ booking[b].status # "absent"
  <2> DEFINE b == request[r].b
  <2>1. b \in Bookings /\ booking[b].status # "absent"
    BY <1>1, <1>2, ContinueBusy, InFlightType DEF ReadsFit, ReadFits
  <2>2. \A o \in Bookings \ {b} : booking'[o] = booking[o]
    BY <1>1, <1>2 DEF Continue, AcceptTxRead, AcceptCommit, StartJobSave, CompleteJobSave,
       CancelByFarmerSave, CancelByOperatorSave, SaveAndFinish, PayAdvanceTx,
       PayAdvanceRefused, PayRemainingTx, PayRemainingReplay, PayRemainingRefused,
       LogPayment, Crash, docs, TypeOK
  <2>3. QED BY <2>1, <2>2
<1>3. ASSUME NEW b \in Bookings, NEW t \in PaymentTypes, Finalizer(b, t), booking' # booking
      PROVE  /\ \A o \in Bookings \ {b} : booking'[o] = booking[o]
             /\ booking[b].status # "absent"
  <2>1. FinalizePromote(b, t)
    BY <1>3 DEF Finalizer, FinalizeRowOnly, ReconcileFetchFailed, ReconcileMarkFailed, docs
  <2>2. QED BY <1>1, <2>1 DEF FinalizePromote, Promoted, TypeOK
<1>4. ASSUME NEW b \in Bookings, Create(b) \/ Reject(b) \/ LockElapses(b) \/ Cron(b)
      PROVE  /\ \A o \in Bookings \ {b} : booking'[o] = booking[o]
             /\ booking[b].status # "absent" \/ Create(b)
  BY <1>1, <1>4 DEF Create, Reject, LockElapses, Cron, ExpireLock, CancelUnanswered,
                    CancelUnpaid, TypeOK
<1>5. ASSUME NEW b \in Bookings, NEW r \in Requests, Read(r, b)
      PROVE  UNCHANGED booking
  BY <1>5 DEF Read, AcceptRead, StartJobRead, CompleteJobRead, CancelRead, PayAdvanceRead,
              PayRemainingRead, docs
<1>6. ASSUME NEW b \in Bookings, NEW t \in PaymentTypes, NEW outcome,
             ProviderSettles(b, t, outcome)
      PROVE  UNCHANGED booking
  BY <1>6 DEF ProviderSettles, docs
<1>7. QED BY <1>2, <1>3, <1>4, <1>5, <1>6 DEF Next

LEMMA PairsMeet ==
  ASSUME NEW a, NEW b, NEW c, NEW d, a # d, b # c
  PROVE  ({a, b} \cap {c, d} = {}) <=> (a # c /\ b # d)
OBVIOUS

\* Two bookings of different farmers and slots have nothing in common.
LEMMA NeedsApart ==
  ASSUME NEW b \in Bookings, NEW o \in Bookings
  PROVE  (Needs[o] \cap Needs[b] = {}) <=> (FarmerOf[o] # FarmerOf[b] /\ SlotOf[o] # SlotOf[b])
<1> DEFINE farmer(x) == <<"farmer", FarmerOf[x]>>
           slot(x) == <<"slot", SlotOf[x]>>
<1>1. farmer(o) # slot(b) /\ slot(o) # farmer(b)
  OBVIOUS
<1>2. (farmer(o) = farmer(b)) <=> (FarmerOf[o] = FarmerOf[b])
  OBVIOUS
<1>3. (slot(o) = slot(b)) <=> (SlotOf[o] = SlotOf[b])
  OBVIOUS
<1>4. Needs[o] = {farmer(o), slot(o)} /\ Needs[b] = {farmer(b), slot(b)}
  BY DEF Needs
<1> HIDE DEF farmer, slot
<1>5. QED BY <1>1, <1>2, <1>3, <1>4, PairsMeet

\* How each booking stands, before and after a step.
LEMMA StandingOf ==
  /\ Standing \in [Bookings -> {"none", "active", "aside"}]
  /\ \A o \in Bookings :
       /\ Standing[o] = "none" <=> booking[o].status = "absent"
       /\ Standing[o] = "active" <=> booking[o].status \in ActiveStatuses
BY DEF Standing, ActiveStatuses

LEMMA StandingOfNext ==
  /\ Standing' \in [Bookings -> {"none", "active", "aside"}]
  /\ \A o \in Bookings :
       /\ Standing'[o] = "none" <=> booking'[o].status = "absent"
       /\ Standing'[o] = "active" <=> booking'[o].status \in ActiveStatuses
BY DEF Standing, ActiveStatuses

\* Where the indexes hold, what an active booking needs is nobody else's.
LEMMA ActiveAlone ==
  ASSUME IndexesHold', NEW b \in Bookings, Standing'[b] = "active"
  PROVE  \A o \in Bookings \ {b} : Standing'[o] = "active" => Needs[o] \cap Needs[b] = {}
<1>1. \A o \in Bookings : Standing'[o] = "active" <=> booking'[o].status \in ActiveStatuses
  BY StandingOfNext
<1>2. \A o \in Bookings \ {b} :
        Standing'[o] = "active" => FarmerOf[o] # FarmerOf[b] /\ SlotOf[o] # SlotOf[b]
  BY <1>1 DEF IndexesHold, Admits
<1>3. QED BY <1>2, NeedsApart

\* A step makes a booking, sets one aside, brings one back where its farmer and its
\* slot are vacant, or leaves the standing of all bookings alone.
LEMMA ReservationStep == Inductive /\ Inductive' /\ [Next]_vars => [Reserved!Next]_(Reserved!vars)
<1> SUFFICES ASSUME Inductive, Inductive', [Next]_vars
             PROVE  [Reserved!Next]_(Reserved!vars)
  OBVIOUS
<1>1. Needs' = Needs
  BY DEF Needs
<1>2. CASE UNCHANGED booking
  BY <1>1, <1>2 DEF Standing, Reserved!vars
<1>3. ASSUME NEW b \in Bookings, Next,
             \A o \in Bookings \ {b} : booking'[o] = booking[o],
             booking[b].status # "absent" \/ Create(b)
      PROVE  [Reserved!Next]_(Reserved!vars)
  <2>1. \A o \in Bookings \ {b} : Standing'[o] = Standing[o]
    BY <1>3 DEF Standing
  <2>2. Standing' = [Standing EXCEPT ![b] = Standing'[b]]
    BY <2>1, StandingOf, StandingOfNext
  <2>3. ASSUME Standing'[b] = "active"
        PROVE  \A o \in Bookings \ {b} : Standing[o] = "active" => Needs[o] \cap Needs[b] = {}
    <3>1. \A o \in Bookings \ {b} : Standing'[o] = "active" => Needs[o] \cap Needs[b] = {}
      BY <2>3, ActiveAlone DEF Inductive
    <3>2. QED BY <2>1, <3>1
  <2>4. CASE Standing[b] = "none"
    <3>1. booking[b].status = "absent"
      BY <2>4, StandingOf
    <3>2. Standing'[b] = "active"
      <4>1. booking'[b].status = "pending"
        BY <1>3, <3>1 DEF Create, NewBooking, Inductive, TypeOK
      <4>2. QED BY <4>1, StandingOfNext DEF ActiveStatuses
    <3>3. Reserved!Make(b)
      BY <1>1, <2>2, <2>3, <2>4, <3>2 DEF Reserved!Make, Reserved!Moves, Reserved!Vacant
    <3>4. QED BY <3>3 DEF Reserved!Next
  <2>5. CASE Standing[b] # "none"
    <3>1. Standing[b] \in {"active", "aside"} /\ booking[b].status # "absent"
      BY <2>5, StandingOf
    <3>2. Standing'[b] \in {"active", "aside"}
      <4>1. booking'[b].status # "absent"
        BY <1>3, <3>1, StepKept DEF Kept
      <4>2. QED BY <4>1, StandingOfNext
    <3>3. CASE Standing[b] = Standing'[b]
      BY <1>1, <2>2, <3>3, StandingOf DEF Reserved!vars
    <3>4. CASE Standing[b] = "active" /\ Standing'[b] = "aside"
      BY <1>1, <2>2, <3>4 DEF Reserved!SetAside, Reserved!Moves, Reserved!Next
    <3>5. CASE Standing[b] = "aside" /\ Standing'[b] = "active"
      <4>1. Reserved!Return(b)
        BY <1>1, <2>2, <2>3, <3>5 DEF Reserved!Return, Reserved!Moves, Reserved!Vacant
      <4>2. QED BY <4>1 DEF Reserved!Next
    <3>6. QED BY <3>1, <3>2, <3>3, <3>4, <3>5
  <2>6. QED BY <2>4, <2>5
<1>4. CASE UNCHANGED vars
  BY <1>2, <1>4 DEF vars
<1>5. QED BY <1>2, <1>3, <1>4, OneBooking

\* Whatever accepts, confirms, starts or brings back a booking, for any number of
\* them, keeps the promise of module Reservation.
THEOREM ReservationImplemented == Spec => ReservationKept
<1>1. Init => Reserved!Init
  <2> SUFFICES ASSUME Init PROVE Reserved!Init
    OBVIOUS
  <2>1. \A b \in Bookings : booking[b].status = "absent"
    BY DEF Init, NewBooking
  <2>2. \A b \in Bookings : Standing[b] = "none"
    BY <2>1, StandingOf
  <2>3. QED BY <2>2, StandingOf DEF Reserved!Init
<1>2. QED BY <1>1, InductiveInit, InductiveStep, ReservationStep, PTL
      DEF Spec, ReservationKept, Reserved!Spec

\* What module ReservationProofs shows of the promise, for these bookings.
Vacancy == INSTANCE ReservationProofs WITH needs <- Needs, state <- Standing

\* No two bookings at work, or due to be, share a slot or a farmer: this follows
\* from the promise alone.
THEOREM NeverDoubleWork == Spec => []NoDoubleWork
<1>1. Spec => Vacancy!Spec
  BY ReservationImplemented DEF ReservationKept, Reserved!Spec, Reserved!Init, Reserved!Next,
     Reserved!vars, Reserved!Make, Reserved!SetAside, Reserved!Return, Reserved!Moves,
     Reserved!Vacant, Vacancy!Spec, Vacancy!Init, Vacancy!Next, Vacancy!vars, Vacancy!Make,
     Vacancy!SetAside, Vacancy!Return, Vacancy!Moves, Vacancy!Vacant
<1>2. Vacancy!Spec => []Vacancy!Apart
  BY Vacancy!ActiveApart
<1>3. Vacancy!Apart => NoDoubleWork
  <2> SUFFICES ASSUME Vacancy!Apart, NEW b \in Bookings, NEW o \in Bookings, b # o,
                      Engaged(b), Engaged(o)
               PROVE  SlotOf[b] # SlotOf[o] /\ FarmerOf[b] # FarmerOf[o]
    BY DEF NoDoubleWork
  <2>1. Standing[b] = "active" /\ Standing[o] = "active"
    BY StandingOf DEF Engaged, ActiveStatuses
  <2>2. Needs[b] \cap Needs[o] = {}
    BY <2>1 DEF Vacancy!Apart
  <2>3. QED BY <2>2, NeedsApart
<1>4. QED BY <1>1, <1>2, <1>3, PTL

=============================================================================
