-------------------------------- MODULE Refund --------------------------------
(***************************************************************************)
(* An admin's decision about the refund of one booking: the claim on       *)
(* refundStatus, the walk over the confirmed payments, and for each of     *)
(* them the call to Razorpay, the row, the wallet and the ledger.  Around  *)
(* it, what changes the booking and its payments meanwhile.                *)
(*                                                                         *)
(* Rows are confirmed by the finalizer only, which finds them by their     *)
(* Razorpay id, and paymentMethod is always "upi": the branches for cash   *)
(* and for rows without an id are not reached.  The wish to abort a late   *)
(* request is one of the ways in which the call to Razorpay answers "no".  *)
(***************************************************************************)
EXTENDS Naturals

CONSTANTS
  Requests,   \* calls of processRefund
  Cancels,    \* calls of cancelBooking
  Debited     \* payments the farmer's wallet was debited for

PaymentTypes == {"advance", "remaining"}

ASSUME Debits == Debited \subseteq PaymentTypes

VARIABLES
  status,        \* is the booking engaged or cancelled?
  refundStatus,  \* of the booking
  cancel,        \* call of cancelBooking -> what its save will write
  captured,      \* payments captured at Razorpay
  row,           \* payment -> status of its row
  mark,          \* payment -> refundStatus of its row
  givenBack,     \* payments Razorpay has refunded
  creditMarks,   \* payments with walletRefundCreditedAt
  credits,       \* payment -> times it was credited to the wallet
  entered,       \* payments with a refund entry in the ledger
  stage,         \* call of processRefund -> where it is
  step           \* call -> payment -> what it has done about it

booking == <<status, refundStatus, cancel>>
rows == <<row, mark>>
wallet == <<creditMarks, credits>>
calls == <<stage, step>>
vars == <<booking, captured, rows, givenBack, wallet, entered, calls>>

BookingStatuses == {"engaged", "cancelled"}
RefundStatuses == {"none", "pending", "approved", "rejected", "partial_failed"}
RowStatuses == {"none", "PENDING", "SUCCESS", "FAILED", "REFUNDED"}
Marks == {"none", "pending", "rejected", "processed"}
CancelStates == {"idle", "keeps", "none", "pending", "over"}
Stages == {"idle", "approved", "refunding", "rejecting", "ended", "dead"}
Steps ==
  {"unseen", "due", "paid", "refused", "refunded", "crediting", "credited", "done", "failed"}

TypeOK ==
  /\ status \in BookingStatuses
  /\ refundStatus \in RefundStatuses
  /\ cancel \in [Cancels -> CancelStates]
  /\ captured \subseteq PaymentTypes
  /\ row \in [PaymentTypes -> RowStatuses]
  /\ mark \in [PaymentTypes -> Marks]
  /\ givenBack \subseteq PaymentTypes
  /\ creditMarks \subseteq PaymentTypes
  /\ credits \in [PaymentTypes -> Nat]
  /\ entered \subseteq PaymentTypes
  /\ stage \in [Requests -> Stages]
  /\ step \in [Requests -> [PaymentTypes -> Steps]]

Init ==
  /\ status = "engaged"
  /\ refundStatus = "none"
  /\ cancel = [c \in Cancels |-> "idle"]
  /\ captured = {}
  /\ row = [p \in PaymentTypes |-> "none"]
  /\ mark = [p \in PaymentTypes |-> "none"]
  /\ givenBack = {}
  /\ creditMarks = {}
  /\ credits = [p \in PaymentTypes |-> 0]
  /\ entered = {}
  /\ stage = [a \in Requests |-> "idle"]
  /\ step = [a \in Requests |-> [p \in PaymentTypes |-> "unseen"]]

Confirmed == {p \in PaymentTypes : row[p] \in {"SUCCESS", "REFUNDED"}}

-----------------------------------------------------------------------------
(***************************************************************************)
(* Around the refund: payments and their confirmation.                     *)
(***************************************************************************)

Capture(p) ==
  /\ captured' = captured \cup {p}
  /\ UNCHANGED <<booking, rows, givenBack, wallet, entered, calls>>

\* payAdvance, and payRemaining once work on a confirmed advance is done.
Record(p) ==
  /\ status = "engaged"
  /\ row[p] = "none"
  /\ p = "remaining" => "advance" \in Confirmed
  /\ row' = [row EXCEPT ![p] = "PENDING"]
  /\ UNCHANGED <<booking, captured, mark, givenBack, wallet, entered, calls>>

\* Mutant: the finalizer takes a refunded row for one still to be confirmed.
FinalizeRefunded(p) ==
  /\ p \in captured
  /\ row[p] \in {"PENDING", "FAILED", "REFUNDED"}
  /\ row' = [row EXCEPT ![p] = "SUCCESS"]
  /\ UNCHANGED <<booking, captured, mark, givenBack, wallet, entered, calls>>

\* The finalizer, also long after the booking was cancelled; a row that is
\* SUCCESS or REFUNDED is a replay.
Finalize(p) ==
  /\ p \in captured
  /\ row[p] \in {"PENDING", "FAILED"}
  /\ row' = [row EXCEPT ![p] = "SUCCESS"]
  /\ UNCHANGED <<booking, captured, mark, givenBack, wallet, entered, calls>>

\* Reconciliation of a payment Razorpay calls failed.
MarkFailed(p) ==
  /\ row[p] = "PENDING"
  /\ row' = [row EXCEPT ![p] = "FAILED"]
  /\ UNCHANGED <<booking, captured, mark, givenBack, wallet, entered, calls>>

-----------------------------------------------------------------------------
(***************************************************************************)
(* cancelBooking reads the booking and saves it later.                     *)
(***************************************************************************)

\* An operator's cancellation of a booking that is advance_paid starts a refund,
\* any other resets refundStatus; an unchanged value is not written.
CancelRead(c) ==
  /\ cancel[c] = "idle"
  /\ status = "engaged"
  /\ row["remaining"] # "SUCCESS"
  /\ \E decided \in {"none", "pending"} :
       /\ decided = "pending" => row["advance"] # "none" /\ row["remaining"] = "none"
       /\ cancel' = [cancel EXCEPT ![c] = IF decided = refundStatus THEN "keeps" ELSE decided]
  /\ UNCHANGED <<status, refundStatus, captured, rows, givenBack, wallet, entered, calls>>

CancelSave(c) ==
  /\ cancel[c] \in {"keeps", "none", "pending"}
  /\ status' = "cancelled"
  /\ refundStatus' = IF cancel[c] = "keeps" THEN refundStatus ELSE cancel[c]
  /\ cancel' = [cancel EXCEPT ![c] = "over"]
  /\ UNCHANGED <<captured, rows, givenBack, wallet, entered, calls>>

\* startJob saves a booking it read before it was cancelled.
WriteBack ==
  /\ status = "cancelled"
  /\ "advance" \in Confirmed
  /\ status' = "engaged"
  /\ UNCHANGED <<refundStatus, cancel, captured, rows, givenBack, wallet, entered, calls>>

-----------------------------------------------------------------------------
(***************************************************************************)
(* processRefund: the claim.  A call that finds refundStatus other than    *)
(* "pending" answers 409 and changes nothing.                              *)
(***************************************************************************)

Approve(a) ==
  /\ stage[a] = "idle"
  /\ refundStatus = "pending"
  /\ refundStatus' = "approved"
  /\ stage' = [stage EXCEPT ![a] = "approved"]
  /\ UNCHANGED <<status, cancel, captured, rows, givenBack, wallet, entered, step>>

Reject(a) ==
  /\ stage[a] = "idle"
  /\ refundStatus = "pending"
  /\ refundStatus' = "rejected"
  /\ stage' = [stage EXCEPT ![a] = "rejecting"]
  /\ UNCHANGED <<status, cancel, captured, rows, givenBack, wallet, entered, step>>

RejectRows(a) ==
  /\ stage[a] = "rejecting"
  /\ mark' = [p \in PaymentTypes |-> IF row[p] = "SUCCESS" THEN "rejected" ELSE mark[p]]
  /\ stage' = [stage EXCEPT ![a] = "ended"]
  /\ UNCHANGED <<booking, captured, row, givenBack, wallet, entered, step>>

\* The payments to refund are those confirmed at this moment.
ReadRows(a) ==
  /\ stage[a] = "approved"
  /\ stage' = [stage EXCEPT ![a] = "refunding"]
  /\ step' = [step EXCEPT ![a] = [p \in PaymentTypes |-> IF row[p] = "SUCCESS" THEN "due" ELSE "unseen"]]
  /\ UNCHANGED <<booking, captured, rows, givenBack, wallet, entered>>

-----------------------------------------------------------------------------
(***************************************************************************)
(* processRefund: one payment after the other.                             *)
(***************************************************************************)

Resting(a) == \A p \in PaymentTypes : step[a][p] \in {"unseen", "due", "done", "failed"}

\* The call goes on to its next step about p.
Goes(a, p, from, to) ==
  /\ stage[a] = "refunding"
  /\ step[a][p] = from
  /\ step' = [step EXCEPT ![a][p] = to]
  /\ UNCHANGED <<booking, captured, stage>>

\* refundUpiPayment: whether Razorpay refuses a second refund is not assumed,
\* and an answer that is lost counts as a "no".
GiveBack(a, p) ==
  /\ Resting(a)
  /\ \/ Goes(a, p, "due", "paid") /\ givenBack' = givenBack \cup {p}
     \/ Goes(a, p, "due", "refused") /\ givenBack' \in {givenBack, givenBack \cup {p}}
  /\ UNCHANGED <<rows, wallet, entered>>

MarkRefunded(a, p) ==
  /\ Goes(a, p, "paid", "refunded")
  /\ row' = [row EXCEPT ![p] = "REFUNDED"]
  /\ mark' = [mark EXCEPT ![p] = "processed"]
  /\ UNCHANGED <<givenBack, wallet, entered>>

\* A conditional update: only one call sets walletRefundCreditedAt ...
MarkCredit(a, p) ==
  /\ IF p \in Debited \ creditMarks
     THEN Goes(a, p, "refunded", "crediting") /\ creditMarks' = creditMarks \cup {p}
     ELSE Goes(a, p, "refunded", "credited") /\ UNCHANGED creditMarks
  /\ UNCHANGED <<rows, givenBack, credits, entered>>

\* ... and that call increments the wallet.
Credit(a, p) ==
  /\ Goes(a, p, "crediting", "credited")
  /\ credits' = [credits EXCEPT ![p] = @ + 1]
  /\ UNCHANGED <<rows, givenBack, creditMarks, entered>>

\* logRefundSuccess, whose failure is only logged.
EnterLedger(a, p) ==
  /\ Goes(a, p, "credited", "done")
  /\ entered' \in {entered, entered \cup {p}}
  /\ UNCHANGED <<rows, givenBack, wallet>>

MarkPending(a, p) ==
  /\ Goes(a, p, "refused", "failed")
  /\ mark' = [mark EXCEPT ![p] = "pending"]
  /\ UNCHANGED <<row, givenBack, wallet, entered>>

\* Mutant: an exception is logged and forgotten.
ThrowForgiven(a, p) ==
  /\ \E from \in {"paid", "refunded", "crediting", "refused"} : Goes(a, p, from, "done")
  /\ UNCHANGED <<rows, givenBack, wallet, entered>>

\* An update that throws is caught; the loop goes on with the next payment.
Throw(a, p) ==
  /\ \E from \in {"paid", "refunded", "crediting", "refused"} : Goes(a, p, from, "failed")
  /\ UNCHANGED <<rows, givenBack, wallet, entered>>

AnyFailure(a) == \E p \in PaymentTypes : step[a][p] = "failed"

Walked(a) == \A p \in PaymentTypes : step[a][p] \in {"unseen", "done", "failed"}

\* Mutant: the outcome of the walk is not saved.
FinishUnsaved(a) ==
  /\ stage[a] = "refunding"
  /\ Walked(a)
  /\ stage' = [stage EXCEPT ![a] = "ended"]
  /\ UNCHANGED <<booking, captured, rows, givenBack, wallet, entered, step>>

\* The document at hand says "approved" since the claim, so that save() has
\* something to write only after a failure.
Finish(a) ==
  /\ stage[a] = "refunding"
  /\ Walked(a)
  /\ refundStatus' = IF AnyFailure(a) THEN "partial_failed" ELSE refundStatus
  /\ stage' = [stage EXCEPT ![a] = "ended"]
  /\ UNCHANGED <<status, cancel, captured, rows, givenBack, wallet, entered, step>>

\* The process dies, or a query outside the loop throws.
Die(a) ==
  /\ stage[a] \in {"approved", "refunding", "rejecting"}
  /\ stage' = [stage EXCEPT ![a] = "dead"]
  /\ UNCHANGED <<booking, captured, rows, givenBack, wallet, entered, step>>

RefundOne(a, p) ==
  \/ GiveBack(a, p)
  \/ MarkRefunded(a, p)
  \/ MarkCredit(a, p)
  \/ Credit(a, p)
  \/ EnterLedger(a, p)
  \/ MarkPending(a, p)
  \/ Throw(a, p)

Next ==
  \/ \E p \in PaymentTypes : Capture(p) \/ Record(p) \/ Finalize(p) \/ MarkFailed(p)
  \/ \E c \in Cancels : CancelRead(c) \/ CancelSave(c)
  \/ WriteBack
  \/ \E a \in Requests :
       \/ Approve(a) \/ Reject(a) \/ RejectRows(a) \/ ReadRows(a) \/ Finish(a) \/ Die(a)
       \/ \E p \in PaymentTypes : RefundOne(a, p)

Spec == Init /\ [][Next]_vars

-----------------------------------------------------------------------------
(***************************************************************************)
(* Properties.                                                             *)
(***************************************************************************)

\* A cancellation that saves late can set refundStatus back to "pending" while a
\* call walks, so that two calls see one payment.
Shared(a, p) == \E b \in Requests \ {a} : step[b][p] # "unseen"

PaidBack(p) ==
  /\ p \in givenBack
  /\ row[p] = "REFUNDED"
  /\ mark[p] = "processed"
  /\ p \in Debited => credits[p] = 1

\* A call that has got through with a payment has paid it back in full: money,
\* row, mark and wallet, whatever rejections, late captures and other calls came
\* between its steps.  Only a second call on the same payment can upset that.
DoneIsPaid ==
  \A a \in Requests, p \in PaymentTypes :
    step[a][p] = "done" => PaidBack(p) \/ Shared(a, p)

\* A booking never says "approved" over a payment that a finished call failed to
\* refund, unless another call has claimed since.
FailureShows ==
  \A a \in Requests :
    stage[a] = "ended" /\ AnyFailure(a) =>
      \/ refundStatus # "approved"
      \/ \E b \in Requests \ {a} : stage[b] # "idle"

\* The refund keeps module Payback's promise: however many calls walk over one
\* payment, a refunded row stays refunded and the wallet is credited once.
Promise == INSTANCE Payback WITH
  Payments <- PaymentTypes,
  confirmed <- Confirmed,
  refunded <- {p \in PaymentTypes : row[p] = "REFUNDED"},
  credited <- credits

PaybackKept == Promise!Spec

-----------------------------------------------------------------------------
(***************************************************************************)
(* The inductive invariant behind them.                                    *)
(***************************************************************************)

\* A call looks at payments only while it refunds, and only at confirmed ones.
StepsFit ==
  \A a \in Requests, p \in PaymentTypes :
    /\ stage[a] \in {"idle", "approved", "rejecting"} => step[a][p] = "unseen"
    /\ step[a][p] # "unseen" => p \in Confirmed
    /\ step[a][p] = "paid" => p \in givenBack
    /\ step[a][p] \in {"refunded", "crediting", "credited", "done"} => row[p] = "REFUNDED"
    /\ row[p] = "REFUNDED" => p \in givenBack

\* Who has set walletRefundCreditedAt still owes the increment, has done it, or
\* has failed to.
CreditsFit ==
  \A p \in PaymentTypes :
    /\ p \in creditMarks => p \in Debited
    /\ credits[p] # 0 => p \in creditMarks
    /\ credits[p] \in {0, 1}
    /\ p \in creditMarks /\ credits[p] = 0 =>
         \E a \in Requests : step[a][p] \in {"crediting", "failed"}
    /\ \A a \in Requests :
         /\ step[a][p] = "crediting" => p \in creditMarks /\ credits[p] = 0
         /\ step[a][p] \in {"credited", "done"} => p \in creditMarks \/ p \notin Debited
    /\ \A a, b \in Requests :
         step[a][p] = "crediting" /\ step[b][p] = "crediting" => a = b

\* The mark of a row that one call alone refunds.
MarksFit ==
  \A a \in Requests, p \in PaymentTypes :
    step[a][p] \in {"refunded", "crediting", "credited", "done"} =>
      mark[p] = "processed" \/ Shared(a, p)

Inductive == TypeOK /\ StepsFit /\ CreditsFit /\ MarksFit /\ FailureShows

=============================================================================
