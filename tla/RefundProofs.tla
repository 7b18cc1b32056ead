----------------------------- MODULE RefundProofs -----------------------------
(***************************************************************************)
(* Proofs about Refund, for any number of calls of processRefund and of    *)
(* cancelBooking.                                                          *)
(***************************************************************************)
EXTENDS Refund, TLAPS

\* The steps outside the walk over the payments.
Payments(p) == Capture(p) \/ Record(p) \/ Finalize(p) \/ MarkFailed(p)
Cancelling(c) == CancelRead(c) \/ CancelSave(c)
Claiming(a) == Approve(a) \/ Reject(a) \/ RejectRows(a) \/ ReadRows(a) \/ Finish(a) \/ Die(a)

\* The steps of a payment that follow the money.
Settled == {"refunded", "crediting", "credited", "done"}

-----------------------------------------------------------------------------
(***************************************************************************)
(* What one step of a call about one payment changes, and what it leaves.  *)
(***************************************************************************)
LEMMA GoesFrame ==
  ASSUME TypeOK, NEW a \in Requests, NEW p \in PaymentTypes,
         NEW from \in Steps, NEW to \in Steps, Goes(a, p, from, to)
  PROVE  /\ step' \in [Requests -> [PaymentTypes -> Steps]]
         /\ step[a][p] = from
         /\ step'[a][p] = to
         /\ \A b \in Requests, q \in PaymentTypes :
              b # a \/ q # p => step'[b][q] = step[b][q]
         /\ stage[a] = "refunding"
         /\ stage' = stage
         /\ UNCHANGED <<status, refundStatus, cancel, captured>>
<1>1. /\ step' = [step EXCEPT ![a][p] = to]
      /\ step \in [Requests -> [PaymentTypes -> Steps]]
      /\ step[a][p] = from
      /\ stage[a] = "refunding"
      /\ stage' = stage
      /\ UNCHANGED <<status, refundStatus, cancel, captured>>
  BY DEF Goes, TypeOK, booking
<1>2. step' \in [Requests -> [PaymentTypes -> Steps]]
  BY <1>1
<1>3. step'[a][p] = to
  BY <1>1
<1>4. ASSUME NEW b \in Requests, NEW q \in PaymentTypes, b # a \/ q # p
      PROVE  step'[b][q] = step[b][q]
  BY <1>1, <1>4
<1>5. QED BY <1>1, <1>2, <1>3, <1>4

\* A walk goes on with a payment it has seen and keeps it in sight.
LEMMA WalkSteps ==
  ASSUME TypeOK, NEW a \in Requests, NEW p \in PaymentTypes, RefundOne(a, p)
  PROVE  \E from \in Steps \ {"unseen"}, to \in Steps \ {"unseen"} : Goes(a, p, from, to)
BY DEF RefundOne, GiveBack, MarkRefunded, MarkCredit, Credit, EnterLedger, MarkPending, Throw,
   Steps

\* Where each step of the walk takes a payment.
LEMMA WalkMoves ==
  ASSUME TypeOK, NEW a \in Requests, NEW p \in PaymentTypes
  PROVE  /\ GiveBack(a, p) => step[a][p] = "due" /\ step'[a][p] \in {"paid", "refused"}
         /\ EnterLedger(a, p) => step[a][p] = "credited" /\ step'[a][p] = "done"
         /\ MarkRefunded(a, p) => step[a][p] = "paid" /\ step'[a][p] = "refunded"
         /\ MarkCredit(a, p) =>
              step[a][p] = "refunded" /\ step'[a][p] \in {"crediting", "credited"}
         /\ Credit(a, p) => step[a][p] = "crediting" /\ step'[a][p] = "credited"
         /\ MarkPending(a, p) => step[a][p] = "refused" /\ step'[a][p] = "failed"
         /\ Throw(a, p) =>
              /\ step[a][p] \in {"paid", "refunded", "crediting", "refused"}
              /\ step'[a][p] = "failed"
<1>1. ASSUME NEW from \in Steps, NEW to \in Steps, Goes(a, p, from, to)
      PROVE  step[a][p] = from /\ step'[a][p] = to
  BY <1>1, GoesFrame
<1>2. /\ "due" \in Steps /\ "paid" \in Steps /\ "refused" \in Steps /\ "refunded" \in Steps
      /\ "crediting" \in Steps /\ "credited" \in Steps /\ "done" \in Steps /\ "failed" \in Steps
  BY DEF Steps
<1>3. GiveBack(a, p) => step[a][p] = "due" /\ step'[a][p] \in {"paid", "refused"}
  BY <1>1, <1>2 DEF GiveBack
<1>4. MarkCredit(a, p) => step[a][p] = "refunded" /\ step'[a][p] \in {"crediting", "credited"}
  BY <1>1, <1>2 DEF MarkCredit
<1>5. Throw(a, p) =>
        /\ step[a][p] \in {"paid", "refunded", "crediting", "refused"}
        /\ step'[a][p] = "failed"
  BY <1>1, <1>2 DEF Throw
<1>6. QED BY <1>1, <1>2, <1>3, <1>4, <1>5 DEF EnterLedger, MarkRefunded, Credit, MarkPending

LEMMA TypeInit == Init => TypeOK
BY DEF Init, TypeOK, BookingStatuses, RefundStatuses, CancelStates, RowStatuses, Marks, Stages,
   Steps

LEMMA WalkType ==
  ASSUME TypeOK, NEW a \in Requests, NEW p \in PaymentTypes, RefundOne(a, p)
  PROVE  TypeOK'
<1>1. PICK from \in Steps, to \in Steps : Goes(a, p, from, to)
  BY WalkSteps
<1>2. /\ step' \in [Requests -> [PaymentTypes -> Steps]]
      /\ stage' = stage
      /\ UNCHANGED <<status, refundStatus, cancel, captured>>
  BY <1>1, GoesFrame
<1>3. /\ row' \in [PaymentTypes -> RowStatuses]
      /\ mark' \in [PaymentTypes -> Marks]
  BY DEF TypeOK, RefundOne, GiveBack, MarkRefunded, MarkCredit, Credit, EnterLedger, MarkPending,
     Throw, rows, RowStatuses, Marks
<1>4. /\ givenBack' \subseteq PaymentTypes
      /\ creditMarks' \subseteq PaymentTypes
      /\ entered' \subseteq PaymentTypes
  BY DEF TypeOK, RefundOne, GiveBack, MarkRefunded, MarkCredit, Credit, EnterLedger, MarkPending,
     Throw, wallet
<1>5. credits' \in [PaymentTypes -> Nat]
  BY DEF TypeOK, RefundOne, GiveBack, MarkRefunded, MarkCredit, Credit, EnterLedger, MarkPending,
     Throw, wallet
<1>6. QED BY <1>2, <1>3, <1>4, <1>5 DEF TypeOK

LEMMA TypeStep == TypeOK /\ [Next]_vars => TypeOK'
<1> SUFFICES ASSUME TypeOK, [Next]_vars PROVE TypeOK'
  OBVIOUS
<1> USE DEF vars, booking, rows, wallet, calls
<1>1. CASE \E p \in PaymentTypes : Payments(p)
  BY <1>1 DEF TypeOK, Payments, Capture, Record, Finalize, MarkFailed, RowStatuses
<1>2. CASE \E c \in Cancels : Cancelling(c)
  BY <1>2 DEF TypeOK, Cancelling, CancelRead, CancelSave, BookingStatuses, RefundStatuses,
     CancelStates
<1>3. CASE WriteBack
  BY <1>3 DEF TypeOK, WriteBack, BookingStatuses
<1>4. ASSUME NEW a \in Requests, Claiming(a) PROVE TypeOK'
  <2>1. CASE Approve(a) \/ Reject(a) \/ Finish(a) \/ Die(a)
    BY <2>1 DEF TypeOK, Approve, Reject, Finish, Die, RefundStatuses, Stages
  <2>2. CASE RejectRows(a)
    BY <2>2 DEF TypeOK, RejectRows, Marks, Stages
  <2>3. CASE ReadRows(a)
    BY <2>3 DEF TypeOK, ReadRows, Steps, Stages
  <2>4. QED BY <1>4, <2>1, <2>2, <2>3 DEF Claiming
<1>5. ASSUME NEW a \in Requests, NEW p \in PaymentTypes, RefundOne(a, p) PROVE TypeOK'
  BY <1>5, WalkType
<1>6. CASE UNCHANGED vars
  BY <1>6 DEF TypeOK
<1>7. QED BY <1>1, <1>2, <1>3, <1>4, <1>5, <1>6 DEF Next, Payments, Cancelling, Claiming

\* Every document, row, mark and step of a call keeps its shape.
THEOREM TypeCorrect == Spec => []TypeOK
<1>1. QED BY TypeInit, TypeStep, PTL DEF Spec

-----------------------------------------------------------------------------
(***************************************************************************)
(* The inductive invariant.                                                *)
(***************************************************************************)
LEMMA InductiveInit == Init => Inductive
<1> SUFFICES ASSUME Init PROVE Inductive
  OBVIOUS
<1>1. TypeOK
  BY TypeInit
<1>2. StepsFit /\ CreditsFit /\ MarksFit
  BY DEF Init, StepsFit, CreditsFit, MarksFit, Confirmed
<1>3. FailureShows
  BY DEF Init, FailureShows
<1>4. QED BY <1>1, <1>2, <1>3 DEF Inductive

\* Steps that leave the calls and what they have done alone.
LEMMA PaymentsKeep ==
  ASSUME Inductive, NEW p \in PaymentTypes, Payments(p)
  PROVE  Inductive'
<1>1. TypeOK'
  <2>1. Next BY DEF Next, Payments
  <2>2. QED BY <2>1, TypeStep DEF Inductive
<1>2. /\ UNCHANGED <<status, refundStatus, cancel, mark, givenBack, creditMarks, credits, entered,
                     stage, step>>
      /\ \A q \in PaymentTypes :
           row'[q] # row[q] => row[q] \in {"none", "PENDING", "FAILED"} /\ row'[q] # "REFUNDED"
  BY DEF Inductive, TypeOK, Payments, Capture, Record, Finalize, MarkFailed, booking, rows, wallet,
     calls
<1>3. StepsFit'
  BY <1>2 DEF Inductive, StepsFit, Confirmed
<1>4. CreditsFit' /\ MarksFit' /\ FailureShows'
  BY <1>2 DEF Inductive, CreditsFit, MarksFit, FailureShows, Shared, AnyFailure
<1>5. QED BY <1>1, <1>3, <1>4 DEF Inductive

LEMMA CancellingKeeps ==
  ASSUME Inductive, (\E c \in Cancels : Cancelling(c)) \/ WriteBack
  PROVE  Inductive'
<1>1. TypeOK'
  <2>1. Next BY DEF Next, Cancelling
  <2>2. QED BY <2>1, TypeStep DEF Inductive
<1>2. /\ UNCHANGED <<captured, row, mark, givenBack, creditMarks, credits, entered, stage, step>>
      /\ refundStatus' # refundStatus => refundStatus' # "approved"
  BY DEF Cancelling, CancelRead, CancelSave, WriteBack, booking, rows, wallet, calls
<1>3. StepsFit' /\ CreditsFit' /\ MarksFit'
  BY <1>2 DEF Inductive, StepsFit, CreditsFit, MarksFit, Shared, Confirmed
<1>4. FailureShows'
  BY <1>2 DEF Inductive, FailureShows, AnyFailure
<1>5. QED BY <1>1, <1>3, <1>4 DEF Inductive

\* The stages of a call; none returns to "idle".
LEMMA ClaimingKeeps ==
  ASSUME Inductive, NEW a \in Requests, Claiming(a)
  PROVE  Inductive'
<1> USE DEF booking, rows, wallet, calls
<1>1. TypeOK'
  <2>1. Next BY DEF Next, Claiming
  <2>2. QED BY <2>1, TypeStep DEF Inductive
<1>2. /\ \A b \in Requests \ {a} : stage'[b] = stage[b] /\ step'[b] = step[b]
      /\ stage'[a] # "idle"
      /\ UNCHANGED <<captured, row, givenBack, creditMarks, credits, entered>>
  BY DEF Inductive, TypeOK, Claiming, Approve, Reject, RejectRows, ReadRows, Finish, Die
<1>3. CASE ReadRows(a)
  <2>1. /\ \A q \in PaymentTypes :
             /\ step[a][q] = "unseen"
             /\ step'[a][q] \in {"unseen", "due"}
             /\ step'[a][q] = "due" => q \in Confirmed
        /\ stage'[a] = "refunding"
        /\ UNCHANGED <<refundStatus, mark>>
    BY <1>3 DEF ReadRows, Inductive, TypeOK, StepsFit, Confirmed
  <2>2. StepsFit'
    BY <1>2, <2>1 DEF Inductive, StepsFit, Confirmed
  <2>3. CreditsFit'
    <3> SUFFICES ASSUME NEW p \in PaymentTypes
                 PROVE  /\ p \in creditMarks => p \in Debited
                        /\ credits[p] # 0 => p \in creditMarks
                        /\ credits[p] \in {0, 1}
                        /\ p \in creditMarks /\ credits[p] = 0 =>
                             \E b \in Requests : step'[b][p] \in {"crediting", "failed"}
                        /\ \A b \in Requests :
                             /\ step'[b][p] = "crediting" => p \in creditMarks /\ credits[p] = 0
                             /\ step'[b][p] \in {"credited", "done"} =>
                                  p \in creditMarks \/ p \notin Debited
                        /\ \A b, c \in Requests :
                             step'[b][p] = "crediting" /\ step'[c][p] = "crediting" => b = c
      BY <1>2 DEF CreditsFit
    <3>1. QED BY <1>2, <2>1 DEF Inductive, CreditsFit
  <2>4. MarksFit'
    BY <1>2, <2>1 DEF Inductive, MarksFit, Shared
  <2>5. FailureShows'
    BY <1>2, <2>1 DEF Inductive, FailureShows, AnyFailure
  <2>6. QED BY <1>1, <2>2, <2>3, <2>4, <2>5 DEF Inductive
<1>4. CASE Approve(a) \/ Reject(a) \/ RejectRows(a) \/ Finish(a) \/ Die(a)
  <2>1. step' = step
    BY <1>4 DEF Approve, Reject, RejectRows, Finish, Die
  <2>2. \A q \in PaymentTypes : row[q] = "REFUNDED" => mark'[q] = mark[q]
    BY <1>4 DEF Approve, Reject, RejectRows, Finish, Die, Inductive, TypeOK
  <2>3. stage'[a] \in {"idle", "approved", "rejecting"} => stage[a] = "idle"
    BY <1>4 DEF Approve, Reject, RejectRows, Finish, Die, Inductive, TypeOK
  <2>4. StepsFit'
    BY <1>2, <2>1, <2>3 DEF Inductive, StepsFit, Confirmed
  <2>5. CreditsFit'
    BY <1>2, <2>1 DEF Inductive, CreditsFit
  <2>6. MarksFit'
    BY <2>1, <2>2 DEF Inductive, MarksFit, StepsFit, Shared
  <2>7. FailureShows'
    <3> SUFFICES ASSUME NEW b \in Requests, stage'[b] = "ended", AnyFailure(b)
                 PROVE  \/ refundStatus' # "approved"
                        \/ \E c \in Requests \ {b} : stage'[c] # "idle"
      BY <2>1 DEF FailureShows, AnyFailure
    <3>1. CASE b # a
      BY <1>2, <3>1
    <3>2. CASE b = a
      <4>1. stage[a] # "idle" /\ stage[a] # "rejecting"
        BY <3>2 DEF Inductive, StepsFit, AnyFailure
      <4>2. Finish(a)
        BY <1>4, <3>2, <4>1 DEF Approve, Reject, RejectRows, Die, Inductive, TypeOK
      <4>3. refundStatus' = "partial_failed"
        BY <3>2, <4>2 DEF Finish
      <4>4. QED BY <4>3
    <3>3. QED BY <3>1, <3>2
  <2>8. QED BY <1>1, <2>4, <2>5, <2>6, <2>7 DEF Inductive
<1>5. QED BY <1>3, <1>4 DEF Claiming

\* What a step of the walk can do to rows, marks, money and credits of the
\* payment it is about; those of the other payment stay.
LEMMA WalkElsewhere ==
  ASSUME TypeOK, NEW a \in Requests, NEW p \in PaymentTypes, RefundOne(a, p)
  PROVE  /\ \A q \in PaymentTypes \ {p} :
              /\ row'[q] = row[q] /\ mark'[q] = mark[q] /\ credits'[q] = credits[q]
              /\ q \in creditMarks' <=> q \in creditMarks
         /\ givenBack \subseteq givenBack'
         /\ creditMarks \subseteq creditMarks'
         /\ row'[p] = row[p] \/ row'[p] = "REFUNDED"
BY DEF TypeOK, RefundOne, GiveBack, MarkRefunded, MarkCredit, Credit, EnterLedger, MarkPending,
   Throw, rows, wallet

LEMMA WalkStepsFit ==
  ASSUME Inductive, NEW a \in Requests, NEW p \in PaymentTypes, RefundOne(a, p)
  PROVE  StepsFit'
<1>1. TypeOK /\ StepsFit
  BY DEF Inductive
<1>2. PICK from \in Steps \ {"unseen"}, to \in Steps \ {"unseen"} : Goes(a, p, from, to)
  BY <1>1, WalkSteps
<1>3. /\ \A b \in Requests, q \in PaymentTypes : b # a \/ q # p => step'[b][q] = step[b][q]
      /\ stage' = stage /\ stage[a] = "refunding"
      /\ step[a][p] = from
  BY <1>1, <1>2, GoesFrame
<1>4. p \in Confirmed
  BY <1>1, <1>2, <1>3 DEF StepsFit
<1>5. /\ step'[a][p] = "paid" => p \in givenBack'
      /\ step'[a][p] \in Settled => row'[p] = "REFUNDED"
      /\ row'[p] = "REFUNDED" => p \in givenBack'
  <2>1. CASE GiveBack(a, p)
    BY <1>1, <1>2, <1>3, <2>1, GoesFrame DEF GiveBack, Goes, rows, StepsFit, TypeOK, Settled
  <2>2. CASE MarkRefunded(a, p)
    BY <1>1, <2>2, GoesFrame DEF MarkRefunded, Goes, StepsFit, TypeOK, Settled
  <2>3. CASE MarkCredit(a, p)
    BY <1>1, <2>3, GoesFrame DEF MarkCredit, Goes, rows, StepsFit, TypeOK, Settled
  <2>4. CASE Credit(a, p) \/ EnterLedger(a, p)
    BY <1>1, <2>4, GoesFrame DEF Credit, EnterLedger, Goes, rows, StepsFit, TypeOK, Settled
  <2>5. CASE MarkPending(a, p) \/ Throw(a, p)
    BY <1>1, <2>5, GoesFrame DEF MarkPending, Throw, Goes, rows, StepsFit, TypeOK, Settled
  <2>6. QED BY <2>1, <2>2, <2>3, <2>4, <2>5 DEF RefundOne
<1>6. QED BY <1>1, <1>3, <1>4, <1>5, WalkElsewhere DEF StepsFit, Confirmed, Settled

\* Only the call that sets walletRefundCreditedAt gets to increment the wallet.
LEMMA WalkCreditsFit ==
  ASSUME Inductive, NEW a \in Requests, NEW p \in PaymentTypes, RefundOne(a, p)
  PROVE  CreditsFit'
<1>1. TypeOK /\ CreditsFit
  BY DEF Inductive
<1>2. PICK from \in Steps \ {"unseen"}, to \in Steps \ {"unseen"} : Goes(a, p, from, to)
  BY <1>1, WalkSteps
<1>3. \A b \in Requests, q \in PaymentTypes : b # a \/ q # p => step'[b][q] = step[b][q]
  BY <1>1, <1>2, GoesFrame
<1> SUFFICES ASSUME NEW q \in PaymentTypes
             PROVE  /\ q \in creditMarks' => q \in Debited
                    /\ credits'[q] # 0 => q \in creditMarks'
                    /\ credits'[q] \in {0, 1}
                    /\ q \in creditMarks' /\ credits'[q] = 0 =>
                         \E b \in Requests : step'[b][q] \in {"crediting", "failed"}
                    /\ \A b \in Requests :
                         /\ step'[b][q] = "crediting" => q \in creditMarks' /\ credits'[q] = 0
                         /\ step'[b][q] \in {"credited", "done"} =>
                              q \in creditMarks' \/ q \notin Debited
                    /\ \A b, c \in Requests :
                         step'[b][q] = "crediting" /\ step'[c][q] = "crediting" => b = c
  BY DEF CreditsFit
<1>4. CASE q # p
  BY <1>1, <1>3, <1>4, WalkElsewhere DEF CreditsFit
<1>5. CASE q = p
  <2>1. CASE \/ GiveBack(a, p) \/ MarkRefunded(a, p) \/ MarkPending(a, p) \/ EnterLedger(a, p)
             \/ Throw(a, p)
    <3>1. /\ UNCHANGED <<creditMarks, credits>>
          /\ step[a][p] = "crediting" => step'[a][p] = "failed"
          /\ step[a][p] # "failed"
          /\ step'[a][p] # "crediting"
          /\ step'[a][p] = "done" => step[a][p] = "credited"
          /\ step'[a][p] # "credited"
      BY <1>1, <2>1, WalkMoves DEF GiveBack, MarkRefunded, MarkPending, EnterLedger, Throw, wallet
    <3>2. QED BY <1>1, <1>3, <1>5, <3>1 DEF CreditsFit
  <2>2. CASE MarkCredit(a, p)
    <3>1. CASE p \in Debited \ creditMarks
      <4>1. /\ creditMarks' = creditMarks \cup {p} /\ credits' = credits
            /\ step'[a][p] = "crediting"
        BY <1>1, <2>2, <3>1, GoesFrame DEF MarkCredit, Steps
      <4>2. QED BY <1>1, <1>3, <1>5, <3>1, <4>1 DEF CreditsFit
    <3>2. CASE p \notin Debited \ creditMarks
      <4>1. /\ creditMarks' = creditMarks /\ credits' = credits
            /\ step[a][p] = "refunded" /\ step'[a][p] = "credited"
        BY <1>1, <2>2, <3>2, GoesFrame DEF MarkCredit, Steps
      <4>2. QED BY <1>1, <1>3, <1>5, <3>2, <4>1 DEF CreditsFit
    <3>3. QED BY <3>1, <3>2
  <2>3. CASE Credit(a, p)
    <3>1. /\ creditMarks' = creditMarks /\ credits'[p] = credits[p] + 1
          /\ step[a][p] = "crediting" /\ step'[a][p] = "credited"
      BY <1>1, <2>3, GoesFrame DEF Credit, TypeOK, Steps
    <3>2. p \in creditMarks /\ credits[p] = 0 /\ credits'[p] = 1
      BY <1>1, <3>1 DEF CreditsFit
    <3>3. \A b \in Requests : step'[b][p] # "crediting"
      BY <1>1, <1>3, <3>1 DEF CreditsFit
    <3>4. QED BY <1>1, <1>3, <1>5, <3>1, <3>2, <3>3 DEF CreditsFit
  <2>4. QED BY <2>1, <2>2, <2>3 DEF RefundOne
<1>6. QED BY <1>4, <1>5

LEMMA WalkMarksFit ==
  ASSUME Inductive, NEW a \in Requests, NEW p \in PaymentTypes, RefundOne(a, p)
  PROVE  MarksFit'
<1>1. TypeOK /\ MarksFit
  BY DEF Inductive
<1>2. PICK from \in Steps \ {"unseen"}, to \in Steps \ {"unseen"} : Goes(a, p, from, to)
  BY <1>1, WalkSteps
<1>3. /\ \A b \in Requests, q \in PaymentTypes : b # a \/ q # p => step'[b][q] = step[b][q]
      /\ step[a][p] # "unseen" /\ step'[a][p] # "unseen"
  BY <1>1, <1>2, GoesFrame
<1> SUFFICES ASSUME NEW b \in Requests, NEW q \in PaymentTypes, step'[b][q] \in Settled
             PROVE  mark'[q] = "processed" \/ \E c \in Requests \ {b} : step'[c][q] # "unseen"
  BY DEF MarksFit, Shared, Settled
<1>4. CASE q # p
  BY <1>1, <1>3, <1>4, WalkElsewhere DEF MarksFit, Shared, Settled
<1>5. CASE q = p /\ b # a
  BY <1>3, <1>5
<1>6. CASE q = p /\ b = a
  <2>1. CASE MarkRefunded(a, p)
    BY <1>1, <1>6, <2>1 DEF MarkRefunded, TypeOK
  <2>2. CASE ~ MarkRefunded(a, p)
    <3>1. step[a][p] \in Settled /\ mark' = mark
      <4>1. ~ MarkPending(a, p) /\ ~ Throw(a, p) /\ ~ GiveBack(a, p)
        BY <1>1, <1>6, WalkMoves DEF Settled
      <4>2. MarkCredit(a, p) \/ Credit(a, p) \/ EnterLedger(a, p)
        BY <2>2, <4>1 DEF RefundOne
      <4>3. QED BY <1>1, <4>2, WalkMoves DEF MarkCredit, Credit, EnterLedger, rows, Settled
    <3>2. QED BY <1>1, <1>3, <1>6, <3>1 DEF MarksFit, Shared, Settled
  <2>3. QED BY <2>1, <2>2
<1>7. QED BY <1>4, <1>5, <1>6

LEMMA WalkKeeps ==
  ASSUME Inductive, NEW a \in Requests, NEW p \in PaymentTypes, RefundOne(a, p)
  PROVE  Inductive'
<1>1. TypeOK /\ FailureShows
  BY DEF Inductive
<1>2. PICK from \in Steps \ {"unseen"}, to \in Steps \ {"unseen"} : Goes(a, p, from, to)
  BY <1>1, WalkSteps
<1>3. /\ \A b \in Requests, q \in PaymentTypes : b # a \/ q # p => step'[b][q] = step[b][q]
      /\ stage' = stage /\ stage[a] = "refunding" /\ refundStatus' = refundStatus
  BY <1>1, <1>2, GoesFrame
<1>4. FailureShows'
  BY <1>1, <1>3 DEF FailureShows, AnyFailure
<1>5. QED BY <1>1, <1>4, WalkType, WalkStepsFit, WalkCreditsFit, WalkMarksFit DEF Inductive

LEMMA InductiveStep == Inductive /\ [Next]_vars => Inductive'
<1> SUFFICES ASSUME Inductive, [Next]_vars PROVE Inductive'
  OBVIOUS
<1>1. CASE UNCHANGED vars
  BY <1>1 DEF vars, booking, rows, wallet, calls, Inductive, TypeOK, StepsFit, CreditsFit,
     MarksFit, FailureShows, AnyFailure, Shared, Confirmed
<1>2. CASE \E p \in PaymentTypes : Payments(p)
  BY <1>2, PaymentsKeep
<1>3. CASE (\E c \in Cancels : Cancelling(c)) \/ WriteBack
  BY <1>3, CancellingKeeps
<1>4. CASE \E a \in Requests : Claiming(a)
  BY <1>4, ClaimingKeeps
<1>5. CASE \E a \in Requests, p \in PaymentTypes : RefundOne(a, p)
  BY <1>5, WalkKeeps
<1>6. QED BY <1>1, <1>2, <1>3, <1>4, <1>5 DEF Next, Payments, Cancelling, Claiming

\* The invariant holds in every reachable state.
THEOREM InductiveInvariant == Spec => []Inductive
<1>1. QED BY InductiveInit, InductiveStep, PTL DEF Spec

-----------------------------------------------------------------------------
(***************************************************************************)
(* What follows from it.                                                   *)
(***************************************************************************)
LEMMA InductiveImpliesDone == Inductive => DoneIsPaid
<1> SUFFICES ASSUME Inductive, NEW a \in Requests, NEW p \in PaymentTypes, step[a][p] = "done"
             PROVE  PaidBack(p) \/ Shared(a, p)
  BY DEF DoneIsPaid
<1>1. row[p] = "REFUNDED" /\ p \in givenBack
  BY DEF Inductive, StepsFit
<1>2. mark[p] = "processed" \/ Shared(a, p)
  BY DEF Inductive, MarksFit
<1>3. p \in Debited => credits[p] = 1 \/ Shared(a, p)
  <2> SUFFICES ASSUME p \in Debited, credits[p] # 1 PROVE Shared(a, p)
    OBVIOUS
  <2>1. p \in creditMarks /\ credits[p] = 0
    BY DEF Inductive, CreditsFit
  <2>2. PICK b \in Requests : step[b][p] \in {"crediting", "failed"}
    BY <2>1 DEF Inductive, CreditsFit
  <2>3. QED BY <2>2 DEF Shared
<1>4. QED BY <1>1, <1>2, <1>3 DEF PaidBack

\* processRefund: what a call has got through with is paid back in full, unless a
\* second call walked over the same payment.
THEOREM DonePaid == Spec => []DoneIsPaid
<1>1. QED BY InductiveInvariant, InductiveImpliesDone, PTL

\* processRefund: a failure is visible on the booking until another call claims.
THEOREM FailuresShown == Spec => []FailureShows
<1>1. Inductive => FailureShows
  BY DEF Inductive
<1>2. QED BY <1>1, InductiveInvariant, PTL

-----------------------------------------------------------------------------
(***************************************************************************)
(* Refund implements Payback.                                              *)
(***************************************************************************)
LEMMA PromiseInit == Init => Promise!Init
BY DEF Init, Promise!Init, Confirmed

LEMMA PromiseWalk ==
  ASSUME Inductive, NEW a \in Requests, NEW p \in PaymentTypes, RefundOne(a, p)
  PROVE  [Promise!Next]_(Promise!vars)
<1> USE DEF rows, wallet
<1>1. TypeOK /\ StepsFit /\ CreditsFit
  BY DEF Inductive
<1>2. PICK from \in Steps \ {"unseen"}, to \in Steps \ {"unseen"} : Goes(a, p, from, to)
  BY <1>1, WalkSteps
<1>3. p \in Confirmed
  BY <1>1, <1>2, GoesFrame DEF StepsFit
<1>4. CASE GiveBack(a, p)
  <2>1. givenBack' = givenBack \/ givenBack' = givenBack \cup {p}
    BY <1>4 DEF GiveBack
  <2>2. UNCHANGED <<row, credits, entered>>
    BY <1>4 DEF GiveBack
  <2>3. QED BY <1>3, <2>1, <2>2 DEF Promise!Next, Promise!GiveBack, Promise!vars, Confirmed
<1>5. CASE MarkRefunded(a, p)
  <2>1. p \in givenBack
    BY <1>1, <1>5 DEF MarkRefunded, Goes, StepsFit
  <2>2. row' = [row EXCEPT ![p] = "REFUNDED"] /\ UNCHANGED <<givenBack, credits, entered>>
    BY <1>5 DEF MarkRefunded
  <2>3. /\ Confirmed' = Confirmed
        /\ {q \in PaymentTypes : row'[q] = "REFUNDED"} =
             {q \in PaymentTypes : row[q] = "REFUNDED"} \cup {p}
    BY <1>1, <1>3, <2>2 DEF Confirmed, TypeOK
  <2>4. QED BY <2>1, <2>2, <2>3 DEF Promise!Next, Promise!Refund, Promise!vars
<1>6. CASE Credit(a, p)
  <2>1. step[a][p] = "crediting"
    BY <1>6 DEF Credit, Goes
  <2>2. row[p] = "REFUNDED" /\ p \in Debited /\ credits[p] = 0
    BY <1>1, <2>1 DEF StepsFit, CreditsFit
  <2>3. credits' = [credits EXCEPT ![p] = 1] /\ UNCHANGED <<row, givenBack, entered>>
    BY <1>1, <1>6, <2>2 DEF Credit, TypeOK
  <2>4. QED BY <2>2, <2>3 DEF Promise!Next, Promise!Credit, Promise!vars, Confirmed
<1>7. CASE EnterLedger(a, p)
  <2>1. row[p] = "REFUNDED"
    BY <1>1, <1>7 DEF EnterLedger, Goes, StepsFit
  <2>2. /\ entered' = entered \/ entered' = entered \cup {p}
        /\ UNCHANGED <<row, givenBack, credits>>
    BY <1>7 DEF EnterLedger
  <2>3. QED BY <2>1, <2>2 DEF Promise!Next, Promise!Enter, Promise!vars, Confirmed
<1>8. CASE MarkCredit(a, p) \/ MarkPending(a, p) \/ Throw(a, p)
  BY <1>8 DEF MarkCredit, MarkPending, Throw, Promise!vars, Confirmed
<1>9. QED BY <1>4, <1>5, <1>6, <1>7, <1>8 DEF RefundOne

LEMMA PromiseStep == Inductive /\ [Next]_vars => [Promise!Next]_(Promise!vars)
<1> SUFFICES ASSUME Inductive, [Next]_vars PROVE [Promise!Next]_(Promise!vars)
  OBVIOUS
<1> USE DEF booking, rows, wallet, calls
<1>1. TypeOK
  BY DEF Inductive
<1>2. ASSUME NEW p \in PaymentTypes, Finalize(p) PROVE Promise!Confirm(p)
  <2>1. /\ row' = [row EXCEPT ![p] = "SUCCESS"] /\ row[p] # "REFUNDED"
        /\ UNCHANGED <<givenBack, credits, entered>>
    BY <1>2 DEF Finalize
  <2>2. /\ Confirmed' = Confirmed \cup {p}
        /\ {q \in PaymentTypes : row'[q] = "REFUNDED"} =
             {q \in PaymentTypes : row[q] = "REFUNDED"}
    BY <1>1, <2>1 DEF Confirmed, TypeOK
  <2>3. QED BY <2>1, <2>2 DEF Promise!Confirm
<1>3. CASE \E p \in PaymentTypes : Capture(p)
  BY <1>3 DEF Capture, Promise!vars, Confirmed
<1>4. ASSUME NEW p \in PaymentTypes, Record(p) \/ MarkFailed(p) PROVE UNCHANGED Promise!vars
  <2>1. /\ \A q \in PaymentTypes : row'[q] # row[q] =>
             row[q] \in {"none", "PENDING"} /\ row'[q] \in {"PENDING", "FAILED"}
        /\ UNCHANGED <<givenBack, credits, entered>>
    BY <1>1, <1>4 DEF Record, MarkFailed, TypeOK
  <2>2. /\ Confirmed' = Confirmed
        /\ {q \in PaymentTypes : row'[q] = "REFUNDED"} =
             {q \in PaymentTypes : row[q] = "REFUNDED"}
    BY <2>1 DEF Confirmed
  <2>3. QED BY <2>1, <2>2 DEF Promise!vars
<1>5. CASE (\E c \in Cancels : Cancelling(c)) \/ WriteBack
  BY <1>5 DEF Cancelling, CancelRead, CancelSave, WriteBack, Promise!vars, Confirmed
<1>6. CASE \E a \in Requests : Claiming(a)
  BY <1>6 DEF Claiming, Approve, Reject, RejectRows, ReadRows, Finish, Die, Promise!vars, Confirmed
<1>7. CASE \E a \in Requests, p \in PaymentTypes : RefundOne(a, p)
  BY <1>7, PromiseWalk
<1>8. CASE UNCHANGED vars
  BY <1>8 DEF vars, Promise!vars, Confirmed
<1>9. CASE \E p \in PaymentTypes : Finalize(p)
  BY <1>2, <1>9 DEF Promise!Next
<1>10. CASE \E p \in PaymentTypes : Record(p) \/ MarkFailed(p)
  BY <1>4, <1>10
<1>11. QED BY <1>3, <1>5, <1>6, <1>7, <1>8, <1>9, <1>10 DEF Next, Cancelling, Claiming

\* Whatever calls, cancellations and late captures do to each other, Payback's
\* promise is kept: money goes back for confirmed payments only, a refunded row
\* stays refunded, and the wallet is credited at most once.
THEOREM PaybackImplemented == Spec => PaybackKept
<1>1. QED BY PromiseInit, PromiseStep, InductiveInvariant, PTL DEF Spec, PaybackKept, Promise!Spec

=============================================================================
