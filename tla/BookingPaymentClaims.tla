------------------------ MODULE BookingPaymentClaims ------------------------
(***************************************************************************)
(* What comments, messages and documents of the repository say about the   *)
(* bookings, and the handlers of BookingPayment do not keep.  Each formula *)
(* is the only property of a run that ends in a counterexample.            *)
(***************************************************************************)
EXTENDS BookingPayment

\* DOC-17, line 105, "closed: final terminal state after settlement".  The
\* finalizer closes the booking and nothing settles it.
ClosedIsSettled ==
  \A b \in Bookings : booking[b].status = "closed" => b \in earning

\* booking.status.controller.js:37, "Operator cannot accept another booking while
\* these are open".  Two transactions that accept different bookings of one
\* operator read each other's before either has committed.
OneOpenJob ==
  \A b, o \in Bookings :
    /\ b # o
    /\ OperatorOf[b] = OperatorOf[o]
    /\ booking[b].status \in BusyStatuses
    => booking[o].status \notin BusyStatuses

=============================================================================
