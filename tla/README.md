# KH AgriConnect: a verification development of the backend

KH AgriConnect is a Node/Express backend with MongoDB, Redis and BullMQ through which
farmers book tractors. A booking goes from the farmer's request to the operator's answer,
the advance, the work, the balance and the settlement; money comes in through Razorpay,
whose confirmation arrives as a webhook, as an answer to a poll, or not at all.

This directory holds TLA+ models of the backend, the TLC runs that check them on small
instances, and proofs, checked by TLAPS, of what holds on every instance. `PROJECT.json`
maps each definition to the source lines it stands for.

## The system

| Component | State | Operations | Hard behaviour |
|---|---|---|---|
| Booking documents (`models/booking.model.js`) | `status`, `paymentStatus`, `refundStatus`, `lockExpiresAt`, dates; two partial unique indexes (one active booking per farmer, one per tractor slot) | written by every handler below | `payment_pending` is outside both indexes; saves without a version check |
| Creation (`booking.create.controller.js`, `bookingLifecycle.service.js`) | Redis locks per farmer and slot, one transaction | `createBooking` | lock TTL, lock leak, duplicate keys |
| Status handlers (`booking.status.controller.js`) | none of their own | `respondToBooking`, `startJob`, `completeJob`, `updateBookingProgress`, `cancelBooking` | read, await, save; write skew in the operator's guard |
| Payments (`booking.payment.controller.js`) | `Payment` rows, one per booking and type; the farmer's wallet; ledger | `payAdvance`, `payRemaining`, refund preview | retries, racing requests, wallet debit |
| Finalizer (`paymentFinalizer.service.js`) | payment row and booking in one transaction | called by webhook worker, recovery timer, reconciliation | repeated, late and reordered calls |
| Webhooks and queues (`razorpayWebhook.controller.js`, `queues/`) | `WebhookEvent` dedupe rows, BullMQ jobs, dead letters | intake, worker, reconciliation | lost events, fixed job ids, a scan that stops at the first exception |
| Deadlines (`jobs/`) | leader locks in Redis | expire payment locks, cancel unanswered and unpaid bookings, reconcile | timeouts racing late answers |
| Refunds (`admin.payment.controller.js`) | `refundStatus`, rows' `REFUNDED`, wallet credit | `processRefund` | claim, partial failure, crash between steps |
| Settlement and ledger | `OperatorEarning`, `LedgerTransaction` | after the balance | reached from one place only |
| Idempotency middleware | `IdempotencyKey` documents | claim, store, replay | keys stuck in progress |
| Sign-in (`auth.controller.js`, `adminAuth.controller.js`, `auth.middleware.js`) | one-time code with its attempts, one session per user, the account cached in Redis | send, verify, refresh, log out, block | one use of a code under races; updates by `_id` that outlive what they were decided on; stale cache |
| Accounts and tractors (`user.controller.js`, `tractor.controller.js`, the admin controllers) | role, papers, approval, block; documents with verdicts, status, deletion mark | register, upload, judge, edit, delete | read, edit, save; statuses derived from what was read; blanks that pass for papers; deletion against bookings |
| Services and prices (`services.controller.js`, `admin.core.controller.js`, `offers.controller.js`) | `Service`, `Pricing`, seasons, offers, the copy in each worker's memory | create, update, toggle, delete | two documents without a transaction, copies without a time to live, checks before writes |
| Commission (`admin.payment.controller.js`, `commissionCache.service.js`) | one active document, a copy in Redis | swap, read through | swaps that overlap, a loader that fills the cache late |
| Notifications | rows, retry rows, queue | notify, retry | retries and dead letters |
| Reviews | reviews, the operator's average | rate, recompute | averages from different reads |
| Queries, dashboards, uploads, maps, logging | none | reads, outside services | not modelled |

Components interact through MongoDB documents (handlers share no in-process state but the cache of services and the timers,
which each process has for itself), through Redis locks, through BullMQ jobs and through
Razorpay.

## Modules

| Module | What it is |
|---|---|
| `Escrow` | the abstract promise about the money of a booking |
| `Reservation` | the abstract promise about what bookings occupy: a farmer and a slot each |
| `ReservationProofs` | what that promise implies, proved once for whoever keeps it |
| `OnceOnly` | the abstract promise to those who repeat a request |
| `Passcode` | the abstract promise about one-time codes |
| `BookingPayment` | the core: booking documents, payment rows, provider, wallet, ledger, and every handler, cron and finalizer that writes them |
| `BookingPaymentClaims` | what comments and documents say of the core and the code does not keep |
| `BookingPaymentProofs` | the theorems of the core |
| `MCBookingPayment`, `MCSlots` | constants of the TLC instances with one booking, and with several that contend |
| `WebhookPipeline` | how a captured advance reaches the finalizer: webhook, queue, recovery timer, reconciliation |
| `WebhookPipelineClaims`, `WebhookPipelineProofs`, `MCWebhookPipeline` | the same for the pipeline |
| `Payback` | the abstract promise about the money of a refund |
| `Refund`, `RefundProofs`, `MCRefund` | an admin's decision about a refund and the walk over the payments |
| `BookingRequest` | one call of `POST /bookings/create` after another: idempotency guard, timer, locks, transaction, stored answer |
| `BookingRequestProofs`, `MCBookingRequest` | theorems and instance of the request |
| `OperatorAccount` | what decides whether an account may serve bookings: role, papers, approval, block |
| `Fleet` | extends it by a tractor's life and papers, and by the bookings made of the tractor, with `startJob` |
| `FleetProofs`, `MCFleet` | theorems and instance of both |
| `Tariff` | the arithmetic of price, advance, balance, settlement and cancellation, without state |
| `Catalogue` | extends it by the service, its `Pricing` document and the workers' copies |
| `Quote` | extends it by commission, seasons, offers, and the bookings that are priced, completed and settled |
| `QuoteProofs`, `MCQuote` | theorems and instance of all three |
| `SignIn`, `SignInProofs`, `MCSignIn` | one-time codes, sessions, blocks and the cached account |

`BookingPayment` and `WebhookPipeline` look at one system from two sides. In the first the
finalizer may run at any time once the provider has captured, and the booking is modelled in
full; in the second the booking is reduced to what a promotion depends on (`place`: would the
indexes take it?) and who calls the finalizer, when, and how often, is modelled in full. Both
declare `Promise == INSTANCE Escrow WITH ...`, and `EscrowKept` says that each implements it.
`Refund` begins where they end, with a booking whose cancellation asks for money back, and
keeps of them what meets it: rows that are recorded and confirmed late, cancellations that
save late, and the save of `startJob` that takes a booking out of `cancelled`. It implements
`Payback`. `BookingRequest` stands before the core: what is the single action `Create` there is
a request's whole way through the middleware here, and what happens to a booking afterwards is
`BookingLeaves` and `BookingReturns`: it ends or waits for a payment, and comes back from there if
the indexes let it. Both modules declare `Reserved == INSTANCE Reservation WITH ...` and implement
it (`ReservationKept`), so that neither side counts on more than the other grants. `BookingRequest`
implements `OnceOnly` besides, and `SignIn` implements `Passcode`. What its single choice `Refuse` says of the tractor and the
operator is `Order` to `InsertBooking` in `Fleet`, where a booking's later life is `BookingMoves` and, because
it can bring a cancelled booking back to work, `startJob` in two steps; what it says of the price is
`Arrive` to `Book` in `Quote`. `SignIn` and
`OperatorAccount` share the block of an account: the first asks who is let in meanwhile, the
second who may still serve.

### How BookingPayment corresponds to the code

A document is a record of the fields some guard reads (`Booking`); `payment[b][t]` is the
status of the one row that the unique index on `{bookingId, type}` allows; `provider[b][t]`
is what Razorpay would answer about the attempt. Amounts are left out, except that a wallet
counts how many advances it still covers.

The grain of atomicity is MongoDB's. A conditional `updateOne` or `findOneAndUpdate` is one
action (`Reject`, `CancelUnanswered`, `CancelUnpaid`, `ReconcileMarkFailed`). A transaction
is one action when the documents its decision rests on are among those it writes, because a
write conflict aborts it (`Create`, `PayAdvanceTx`, `PayRemainingTx`, `FinalizePromote`,
`ExpireLock`). Accepting is not of that kind: the transaction looks at the operator's other
bookings in its snapshot and writes only its own, hence `AcceptTxRead` and `AcceptCommit`.

The handlers `startJob`, `completeJob` and `cancelBooking` read a document, edit it and
`save()` it. `save()` sends only the paths the handler changed, by `_id` and without a version
check. They are two actions, and `Saved` says what the second one writes: a path whose edited
value equals the value read keeps what the database holds now. An index may refuse the save.

A request may die between any two of its actions (`Crash`, which also stands for a handler
that fails at a check and answers with an error). Redis locks around payments are left out:
they have a TTL of 30 seconds, do not extend, and outside production a busy lock is only
logged, so no property may rest on them; leaving them out allows more behaviours, not fewer.

### How WebhookPipeline corresponds to the code

A payment is the place of its row in the order of insertion, so `Oldest` is a query sorted by
`createdAt` with a limit. `notice[p]` is Razorpay's side of the event `payment.captured`:
`sent` until a 2xx answer, then `acked`; Razorpay gives up after a day (`DropNotice`, a
fault). `seen` are the `WebhookEvent` documents, `intake` the requests between that upsert and
`enqueueRazorpayWebhookJob`, `job` and `tries` the jobs of `webhookQueue`, `timer` the
`setTimeout`s of `schedulePaymentRecoveryCheck`. `finalizing` holds the finalizers that run,
by who called them, and `lock` the Redis lock they take; a lock expires at any time
(`LockExpires`), also under a holder at work, and the token decides what a release deletes.
The finalizer's transaction is one action together with its release (`EndJob`,
`RecoveryEnds`, `ReconcileFinalized`). It ends in `SUCCESS` unless the row is missing or an
index refuses the promotion (`Refused`).

Reconciliation is one job with one fixed id. `recJob`, `recTries` and `recLock` are the job,
its attempts and `lock:payments:reconcile`; `phase` and `scan` say which loop it is in and
what is left of it; `declined` is a payment it fetched as failed and has yet to mark, the
window in which a late capture can be confirmed. An exception of the finalizer ends the scan
(`ReconcileThrows`).

BullMQ is external and modelled from its use: an added job whose id is kept, also as completed
or failed, is ignored; a failed attempt goes back to waiting until the attempts are used up;
a job whose worker died is handed out again.

Faults (a crash, a call to Redis or Razorpay that fails, an event Razorpay stops delivering)
are counted and bounded by `MaxFaults`. A refusal by an index is not a fault: other bookings
take and free the place of a payment in `Contended` once.

### How Refund corresponds to the code

One booking with its two payment rows. `refundStatus` is the booking's field, `row` and `mark`
are `status` and `refundStatus` of the rows, `creditMarks` the rows with
`walletRefundCreditedAt`, `credits` counts the `$inc`s of the wallet, `entered` the refund
entries of the ledger. `stage` says where a call of `processRefund` is, and `step[a][p]` what
it has done about payment `p`: each awaited update of the loop is an action, so that other
calls, late captures and failures come between them. `Throw` is the loop's `catch`, `Die` the
end of the process or a failing query outside the loop. `GiveBack` calls Razorpay; the answer
"no" includes the one that is lost after the money went back, and whether Razorpay refuses a
second refund is left open, since the code does not ask. The last `save()` writes
`refundStatus` only if it differs from the "approved" of the claim.

A second call can get in because `cancelBooking` saves without a version check: two
cancellations that both read the engaged booking each set `refundStatus` to "pending", the
second perhaps after the first call's claim. Rows are confirmed by the finalizer only, which
looks them up by their Razorpay id, and `payAdvance` and `payRemaining` accept "upi" only; the
branches for cash and for rows without an id are therefore not in the model.

### How BookingRequest corresponds to the code

`stage` says what the code of a request does next: `idle` to `wait` is `idempotencyGuard`,
`handle` to `freeFarmer` is `createBooking` with `createBookingFlow`, `report` its answer. What
a request asks for never changes (`asked`); its body is the slot, since the guard compares
bodies only for equality and the handler's conflicts are about slot and farmer. `answer` and
`hash` are the `IdempotencyKey` documents, `cache` what Redis holds of them, `lock` the two
keys of `redisLock.service.js`, with the holder for the random token. The model covers the 24
hours that a record lives, and production, where no lock is acquired without Redis.

`Refuse` is one choice for all the checks of the body, the prices, the tractor and the
operator; `CheckFarmer` and the checks in the transaction are explicit, because other requests
change what they find. Before its commit the transaction is at `commit`; a transaction whose
index entries meet another's there waits (`Conflicts`), as MongoDB aborts and the driver tries
again. `CommitUnknown` is a commit that went through though the caller gets an error.

Timer and hang-up do not stop a handler. `Timeout` answers 408 and marks the request's context
cancelled; from then on every guarded write throws (`ClaimForbidden`, the third case of
`Insert`) and so does the one that would store the answer. `HangUp` is a client that goes
away, whose handler may be cancelled or not. `Die` is the end of the process, which leaves
locks to their TTL (`LockExpires`) and the record in progress. The lock of the farmer is taken
outside the block that releases it, so `Locked` at `lockSlot` leaves it behind.

### How OperatorAccount and Fleet correspond to the code

`account` and `tractor` are documents, reduced to what a guard reads: papers are a set, a
verdict per document, dates that lie in the future or do not (`None`; `ExpiryPasses` is the
time going by). A handler that writes with one `findOneAndUpdate` is one action. One that reads,
edits and saves is two, with the read document in between (`accountEdits`, `tractorEdits`), and
`SavedAccount` and `SavedTractor` say which paths Mongoose then writes: those whose value is not
the one read, and those that `markModified` or a new subdocument force. `seen` is the role that
`protect` put on the request, which may be old by the time the handler looks at it.

`uploadOperatorDocuments` and `uploadTractorDocuments` ask for their papers before
`resolveDocumentInput` trims them. A paper of a request is therefore `fresh`, `blank`, which clears
what was there, or left as it was. A fresh paper carries a new time and is always written. An
approved operator keeps the approval whatever is uploaded; an approved tractor must stay complete
(`MayUpload`), and the verdict on a named document is pending again.

`deleteTractor` is `DeleteRead`, `DeleteLook` (its query for active bookings, among which
`payment_pending` does not count) and `DeleteSave`. `createBooking` is `Order` (the tractor),
`VetOperator` and `FindAnyTractor` (`canOperatorServeBookings`) and `InsertBooking`, which looks
at nothing of that again. `StartJobRead` and `StartJobSave` are the two ends of `startJob`, with the
notification between them: whoever has read a booking as confirmed may save it as in progress at
any later time. A booking that is completed, cancelled or rejected is `over`; the balance
that follows a completion keeps no tractor from being deleted.

### How Tariff, Catalogue and Quote correspond to the code

`Tariff` computes in paise. `round2` is `Math.round` on binary fractions: it takes halves upwards,
but some products that should be a half come out just below one (0.29 * 0.5 is 0.14499...), and
lose a paisa. Which ones do depends on the amounts, the percentages and the order of
multiplication and division, so they are constants, `ProductDips` and `QuotientDips`, which the proofs leave
open; the run has those of IEEE double precision up to 60 paise. Amounts with a fraction of a
paisa, which an admin may enter as a price, are left out. The season multiplies the base before GST
and commission are added, an offer is taken off the total, and the advance is 30 per cent of what
is left (`Quoted`, `Advance`).

`completeJob` may be told another final amount, and the balance becomes what that leaves after the
advance, or nothing (`Final`, `Remaining`). `ReadCompletion` and `SaveCompletion` are its read
and its save (`Completed`), which makes the balance due even if it was paid in between (`anew`). A
completion in time and without an amount changes no money and is not a step. `Settle` is `payRemaining`
from its guard, which refuses when no advance or no balance is due, to the settlement; `paid` is what the
farmer has paid then. A balance that is due anew cannot be paid: `payRemaining` finds the first
payment and says that it is recorded, and only a closed booking is settled.

`service` and `pricing` are the two documents with prices; `copy[w]` is what worker `w` holds in
memory (`serviceCache.service.js`). A handler that saves the service then writes its prices
(`MirrorPrices`), then empties the copy of its own worker and starts a refresh (`ForgetServices`,
`FindServices`, `KeepServices`), each a step at which it may fail (`Fail`) or die with its worker
(`Die`). `upsertPricing` and `updateOffer` read and write; `upsertSeasonalPricing` looks for an
overlap and creates. The commission is a transaction that others can run into: `UpsertCommission`
takes its snapshot, `CommitCommission` ends it, `RetryCommission` is the driver's repetition
after a write conflict, `AdoptCommission` the handler's answer to a duplicate key. Reading it is
read-through: `HitRate`, or `LoadRate` and then `FillRate`, with `late` for a copy that was filled
after the rate had been replaced. A booking (`visits`) reads service, card, season, offer and
commission one after the other, as `validateBookingServiceType` and `createBooking` do, and
`estimateBooking` ends before it books. The settlement asks for the commission again.

### How SignIn corresponds to the code

`doc` holds an account's code, wrong attempts, session and block, for users and admins alike; of
the two controllers only what differs is told apart: users' codes are stored by one update
(`SendOtp`), admins' by a read and a `save()` (`AdminLogin`, `SaveLogin`), and only users get a
session and a cached copy. `call` is what a handler has read and is about to do with it. Verifying is
`VerifyOtp` (the read, and the comparison with bcrypt), then `ClearExpired`, or `CountWrong` and
perhaps `Void`, or `Consume` and, for users, `OpenSession`. The queries of `CountWrong` and
`Consume` name the code that was read; those of `ClearExpired`, `Void` and `EndSession` name the
account alone. A code stands for its salted hash, so two codes differ even if their digits do
not. A session is the time at which it ends: the refresh tokens of one account are not told
apart, since `compare` reads the first 72 bytes of a token and those are common to an account's
tokens. `Reset` is Mongoose again: attempts that were read as 0 and set to 0 are not written.

`Protect` and `Fill` are the read-through of the cached account, `Evict` the end of `blockUser`.
`CutShort` is a failed call or the end of the process at any step. The role that `blockUser`
asks for is in `OperatorAccount`; rate limiters are left out, which allows more behaviours.

## Runs

| Run | Instance | Question |
|---|---|---|
| `race` | 1 booking, 2 requests of any kind, both outcomes at the provider, fair crons | do racing handlers, finalizer, reconciliation and crons keep the order of money and work and the promise of `Escrow`, and does every wait end? |
| `slots` | 3 bookings of 2 farmers for one slot and 2 operators, 1 request, wallets that cover two advances | is the promise of `Reservation` kept, is each advance debited once? |
| `faulty` | 1 payment whose place may be taken, 2 attempts, 1 fault | does the pipeline confirm only captured money, and forget none without a cause? |
| `reliable` | 2 payments, no fault, no refusal, fair | is every captured advance confirmed in the end? |
| `refund` | 2 calls of `processRefund`, 2 of `cancelBooking`, the advance debited from the wallet | is what a call got through with paid back in full, does a failure show, is the promise of `Payback` kept? |
| `request` | 3 requests with one key, or with none, for one slot or two | does a key book once, are answers, also the replayed ones, true, are the promises of `OnceOnly` and `Reservation` kept? |
| `fleet` | 3 calls of any kind about 1 tractor with 2 documents, of which 1 expires, 2 operators, 1 booking | do approvals stay with papers and verdicts, does deletion stay and spare work, are bookings made of what is on offer? |
| `quote` | 3 calls on 2 workers, in the mixes of `MCQuote` | is one commission in force and an old one charged for a bounded time, do prices, copies and dates go wrong only where handlers overlap, does the money add up? |
| `signin` | 1 user, 1 admin, 2 calls, 2 codes, 2 attempts, a clock of 3 | is the promise of `Passcode` kept, do wrong submissions count, is a live code or session taken away for a cause only, and for which causes is a cached account out of date? |
| `claim_*` | as above | counterexamples to what the repository says (below) |

Two requests are enough for the races of interest: a stale save needs one request that has
read and one that moves the booking on, while crons, provider and finalizer run besides them
without being counted. Two bookings are enough for the indexes and the operator's guard, which
compare pairs; with the third in `slots` a farmer books again while an advance is being
confirmed, and the wallet can run short. Its request kinds are those that move a booking
into and out of the index (`ContendKinds`); the others meet on one booking in `race`.

In `faulty` a scan of one row (`ScanLimit`) is full, two attempts (`MaxAttempts`; five in
the code) allow a retry and a dead letter, and one fault can fall between any two steps.
In `reliable` the second payment may stand behind the first in the scan, beyond the limit, or
keep it busy; `LockOutlastsScan` leaves out only that the lock of a reconciliation at work
runs out, which nobody could notice without a crash, and `faulty` has it. The proofs remove
these bounds for the properties they cover. `CHECK_DEADLOCK FALSE`: when all bookings are closed
or cancelled, and all jobs and notices done, nothing is left to do.

What each property of the core says:

- `WorkNeedsAdvance`, `MoneyOrder`: the order of advance, work, balance and settlement, which
  a save from an old read could break.
- `AwaitedPayment`: a booking in `payment_pending` has a deadline and a row that is not yet
  confirmed. The finalizer does nothing on a row that is `SUCCESS`, so a booking waiting for
  such a row could never be promoted.
- `ReservationKept`: refinement of `Reservation`. A booking is active while its status is in the
  partial indexes; `payment_pending` is not, and neither is the moment of a save, so what counts is
  that every step which makes a booking active, a late capture and a stale save included, finds
  its farmer and its slot vacant. That no tractor and no farmer is engaged twice
  (`NoDoubleWork`) follows.
- `WalletPaysOnce`: debits and advance rows go together.
- `SuccessIsFinal`: a late "failed" never overwrites a confirmed row.
- `OnlyStaleSavesLeaveTheMap`: every status change follows `assertBookingTransition`, except
  a save from an old read.
- `WaitingEnds`: every wait for the operator, the advance or the provider ends.
- `EscrowKept`: refinement of `Escrow`.

and of the pipeline:

- `OnlyCaptured`: a confirmed row, a dedupe row and a running finalizer all stand on captured
  money. The finalizer does not ask the provider; its callers must have.
- `ForgottenForACause`: when webhook, job and timer have all had their turn and a captured
  payment is not `SUCCESS`, then a call failed, the process died, or an index refused.
- `CapturedIsFinalized`: without fault and refusal a captured advance that was recorded is
  confirmed in the end, whichever of money, row, webhook and timer comes first.
- `EscrowKept`: refinement of `Escrow` for advances.

and of the refund:

- `DoneIsPaid`: a call that has got through with a payment has paid it back in full: money,
  row, mark and wallet, unless a second call walked over the same payment.
- `FailureShows`: after a failure the booking does not say "approved", until another call
  claims.
- `PaybackKept`: refinement of `Payback`. Its bite is on two calls that walk over one payment:
  the wallet is credited once, and a refunded row stays refunded.

and of the request:

- `OncePerKey`: of the requests with one key one passes the guard, and no other books, however
  they time out, die and are repeated.
- `CreatedIsBooked`: a client told "created", by the handler, the record or Redis, has a
  booking of the slot it asked for.
- `CacheAgrees`: Redis does not replay what the record does not hold.
- `LocksExclude`: two transactions for one slot or farmer overlap only after a lock ran out.
- `ReservationKept`: and then the indexes decide. This is the core's promise, kept by a
  transaction that inserts, waits for another's index entries and commits.
- `OnceOnlyKept`: refinement of `OnceOnly`. A key is carried out at most once and not after any
  of its repetitions had an answer; a first answer is true ("created" of a booking, "refused" of
  none); a stored one is the one that was given; and a replayed one is the stored one, to the
  same body. Records, Redis, timers and write guard are invisible to it: what they do must
  be one of four steps or none. That a refusal is never told of a commit that went through
  (`RefusedIsNotBooked`), and that all answers to a key are one (`OneAnswer`), are what it
  comes to for a client.

and of accounts and tractors:

- `OnlyOverlapsMisapprove`: role, papers and approval of an account stay together. The role parts from
  the approval only in a save that overlaps with another change; the papers do so, too, when
  `verifyOperatorDocuments` approves, which does not ask for them, and when an upload of blanks
  clears them.
- `OnlyOverlapsMisjudge`: the status of a tractor is the one derived from its verdicts, but for
  saves that overlap, and an admin who sets it.
- `OnlyOverlapsStripPapers`: an approved tractor has its papers and dates, but for saves that overlap,
  a date that passes, an admin who sets the status, and verdicts: the handlers that derive the status
  from them do not look whether the papers are there.
- `DeletedStays`: a save from an old read does not undo a deletion, because Mongoose does not
  write the path.
- `BookedOnOffer`, `DeletionSparesWork`: what was checked on the way to a booking, and to a
  deletion, holds unless something changed since. The second lists the four ways in which a deleted
  tractor can meet work: a booking made by a request that read the tractor before; one that
  `deleteTractor` did not count, because it waited for its payment or was not made yet; one that was
  over and that a `startJob` with an old read brings back; and a deletion by an admin.

and of the price:

- `OneRate`: swaps of the commission that overlap leave one in force, the newest.
- `CommissionAge`: how old a commission may be when it is charged.
- `MoneyAddsUp`: a booking quoted at two paise or more has an advance, less than the quote. It is paid
  in full only by an advance and a balance that are both something and make the final amount in
  force, whatever the operator put down before; only a completion that saves late parts the two. The settlement's shares make the total, which is more
  than was paid only after a discount or a change by the operator. Refund and penalty
  make the total, too, or miss it by the paisa of two rounded halves, up or down. From a
  commission of 82 per cent on fee and GST of the total can exceed the total, so that case is left
  out.
- `OnlyOverlapsSplitPrices`, `OnlyOverlapsOutdate`, `OnlyOverlapsConfuseDates`: the two price
  documents, a worker's copy, and the dates of seasons and offers go wrong in the named ways
  only.

and of signing in:

- `PasscodeKept`: refinement of `Passcode`. A code is given to one account and never again,
  which includes that no late save of an admin's login brings one back; it signs in once, while
  it is held and has not expired (the comparison was made earlier, on a read); and only
  submissions of the code that is held count against it. Submissions that overlap sign in
  once (`OneSignInPerCode`).
- `AttemptsCounted`: a wrong submission of a live code is never lost, in whatever order calls
  save, count and reset; and none counts beyond the limit.
- `SpentIsVoided`: a code without attempts left is on its way out, unless a failure came first.
- `OnlyOverlapsTakeAway`: three updates name no code and no session. What they can take away that
  was still of use is what replaced the one they had read.
- `OutdatedForACause`: a copy that disagrees with the account about the block was stored by a
  request that had read before the block, or its eviction is to come or has failed.

In `request` three requests are a claimant, its repetition, and one with the key and another
body; or, without keys, one farmer twice and another, all for one slot: holder, waiter, and the
one that comes in when a lock lapses under the holder. `FewMishaps` bounds what goes
wrong: with a key two requests are cut short, the claimant and one that finds its record; without
a key, where no request hears of another's answer, one request dies or loses a lock, and one
booking at a time is set aside. The proofs need no bound. `SYMMETRY` is sound, since no property of the run is a
liveness property and the two requests it permutes ask for the same in `MCPlans`.

The shapes of the variables are checked by TLC in `race`, where booleans, dates and saves mix
most, and proved for every module.

In `fleet` three calls are an edit, one that overlaps with it, and one before or after; any number of
`startJob` calls comes on top. `o2` is there so that a tractor can change hands. `o1` begins as a new
account or one with its papers handed in, with no tractor yet or a tractor whose papers are in, or as an
approved operator with an approved tractor, so that three calls reach approval, loss of papers,
and deletion. `OneKindOfEdit` and `OneAccount` are constraints: handlers that save accounts and
handlers that save tractors write different documents and are not both under way, and
`o2`, in the part of the new owner, keeps account and role. `quote` leaves out mixes whose calls share no
state: prices meet prices, the commission, seasons and offers each meet bookings, and completions meet
settlements. A price of 17 makes halves that `round2` misses, and the final amounts 1 and 20 lie
below and above the advance. Two workers have different copies; one tick of the clock is the time
to live. In `signin` one wrong
submission is not the last (`MaxAttempts` is 5 in the code), codes, sessions and copies end
after one tick, and `MaxTime` leaves room for one to end and its successor to end, too. Two calls are the
late one and the one it overlaps with; `OneAtATime` uses that accounts share nothing, and
`BlocksApart` that blocks and copies touch codes and sessions only through `logout`. The
proofs need none of these bounds.

Two calls and two cancellations are what it takes for two calls to see one payment, and the
proofs hold for any number. A call that dies leaves the booking "approved" with payments not
refunded, and "partial_failed" cannot be claimed again; the code promises no recovery, so no
property does.

### Fairness

`BookingPayment!FairSpec` adds weak fairness to the passing of a booking's payment lock and to
the crons' treatment of that booking. node-cron runs both crons every minute on the instance
that holds the leader lock, each tick scans all candidates, and the filters are plain
conditions on the document, so a booking that stays a candidate is treated. No request,
provider answer or finalizer is assumed to happen.

`WebhookPipeline!FairSpec` adds weak fairness to the delivery of a payment's event (Razorpay
repeats until a 2xx answer), to the worker on its job, to its timer, to the expiry of locks
(a TTL) and to reconciliation. Nobody is assumed to pay, to record a payment, or to free a
slot.

### Counterexamples

- `ClosedIsSettled`: the finalizer closes, nothing settles.
- `OneOpenJob`: write skew of two acceptances.
- `MissedEventsCovered`: the process dies between the dedupe row and the job; the redelivered
  event looks like a duplicate, the timer died with the process, and the one reconciliation
  job has run already.

Observed while modelling, without a run of its own:

- A request that timed out has its writes forbidden, the one that would store its answer
  included (`idempotency.middleware.js:151`): repetitions are told "still in progress" (line 123)
  for the 24 hours the record lives, whether or not a booking was made.
- A cancelled or closed booking can be written back by a save from an old read, though
  `booking.model.js:18` calls these states terminal; finished work whose balance is being
  confirmed can be cancelled.
- `uploadOperatorDocuments` (`user.controller.js:241`) tests its input before it is trimmed
  (`storage.service.js:308`): a blank clears a paper, and an approved operator stays approved.
- `completeJob` (`booking.status.controller.js:676`) takes any positive final amount. One that is not
  above the advance leaves nothing to pay, and `payRemaining` refuses nothing to pay: the booking is
  never closed. The settlement shares out the total all the same, so that the shares can exceed
  what the farmer paid. A completion that saves after the balance was paid makes a balance due again,
  which nobody can pay: `payRemaining` (`booking.payment.controller.js:910`) answers that it is recorded.
- `round2` (`refundCalculation.js:1`) loses a paisa where the binary product misses its half: 50 per
  cent of 2.01 is 1.00, as refund and as penalty.
- `verifyTractorDocument` (`admin.tractor.controller.js:245`) approves a tractor by the verdicts
  alone; `verification.js:24` asks for all papers and future expiries.
- The settlement takes its percentage of `totalAmount`; `commission.model.js:4` and DOC-17:300
  speak of the base amount. It takes the commission of its own day, not the booking's.
- A service type priced by the hour only is charged by the service's price per acre, if there
  is one, although DOC-17:297 has the most specific rate decide.
- `README.md:368` says that a block invalidates the cached account immediately. A request that
  read the account before the block may store its copy after the eviction, for 60 seconds at
  most. `selectRole` does not evict the copy at all.
- An admin's new code may start with attempts made on the old one: a login that read 0 attempts
  does not write them.

## Proofs

`BookingPaymentProofs` proves, for any finite set of bookings and any sets of farmers,
operators, slots and requests, from the assumptions `Assignment` (every booking has a farmer,
an operator and a slot) and `Environment` (kinds and outcomes are those the model names):

- `TypeCorrect`, and `InductiveInvariant`: `Inductive` holds in every reachable state.
- From it `AdvanceFirst`, `BalanceLast`, `PaymentAwaited`, `SuccessStays`, `MapKept`, and the
  refinements `EscrowImplemented` and `ReservationImplemented`. `WalletExact` rests on typing
  alone.
- `NeverDoubleWork`, from the promise and not from the handlers: `ReservationProofs` proves of
  whoever keeps `Reservation` that active bookings have nothing in common (`ActiveApart`), and
  the core keeps it. What is proved of the promise holds of `BookingRequest` in the same way.
- `WaitsShorten`, the safety half of `WaitingEnds`. `Stage` counts the deadlines ahead of a
  waiting booking; no handler, late capture or stale save gives one back, and the end of a lock and
  either cron, whenever they act, take one away. So a wait ends after four such steps, and what
  fairness adds is that they happen.

`WorkNeedsAdvance`, `MoneyOrder` and `AwaitedPayment` are not inductive by themselves: a save
writes what a request decided when it read. `Inductive` adds what remains true of a booking
between that read and the save (`ReadsFit`: the advance it relied on is still confirmed, dates
already set are still set), what the indexes keep true (`IndexesHold`), that finished work has
its date (`WorkDates`), and that the row of the advance appears as the booking leaves
`accepted` for good (`AdvanceRow`), without which a late capture could promote the wrong
booking, and that nothing is due of a booking before it is accepted (`NothingDue`), without which
an acceptance could lengthen a wait. `AwaitedPayment` says of an accepted booking, too, that its
advance is due: only then does the cron that cancels unpaid bookings find it. The argument: `SaveLands` says what any landing save can do to a document, in terms
of the current one; `FitsFrame` reduces a step to the one booking it writes; `StepKept` says
what no step takes back, which carries `ReadsFit` from step to step.

`WebhookPipelineProofs` proves, for any set of payments and any bounds, from `Sizes`:
`TypeCorrect`, `InductiveInvariant`, `CapturedOnly`, `NothingForgotten`, `EscrowImplemented` and
`EffortsRunOut`. `OnlyCaptured` needs `Provenance`: a finalizer the worker starts stands
on captured money because its job came from an intake, the intake from a dedupe row, and that
from an event Razorpay sends only of captured payments; the second loop of reconciliation does
not ask the provider at all, but scans confirmed rows. `ForgottenForACause` needs
`Undisturbed`: as long as nothing went wrong, an event stays undelivered until its job is
queued, and a busy lock means that its holder is at work, so an attempt lost to a busy lock
still leaves somebody with the payment in hand. `EffortsRunOut` is the safety half of
`CapturedIsFinalized`: `Efforts` counts what deliveries, attempts and the timer have left to
do about a payment. Each of them lowers it, busy locks and lost answers included, and nothing else
raises it but a capture, a new row and a crash, so that retries end with any `MaxAttempts`. It
needs `JobsFit`: one intake queues one job, and a job that waits has attempts left.

`RefundProofs` proves, for any number of calls and cancellations, `TypeCorrect`,
`InductiveInvariant`, `DonePaid`, `FailuresShown` and `PaybackImplemented`. The core of it is
`CreditsFit`: who set `walletRefundCreditedAt` still owes the increment, has done it, or has
failed, and at most one call owes it. A call that finds the mark set by nobody but itself
can thus rely on the credit (`InductiveImpliesDone`).

`BookingRequestProofs` proves, for any sets of requests, farmers, slots and keys, from
`NoneIsNone` and `KeysAreScoped` (a key is stored with its sender's id): `TypeCorrect`,
`InductiveInvariant`, the six properties of the run, and what they come to for a client
(`RefusedTrue`, `OneAnswerHolds`, `BookedApartHolds`). A "created" from Redis is true for a
chain of reasons: who stores an answer claimed the key (`SavingKept`, `ClaimKept`), the answer
it stores is what its handler came to (`OutcomeKept`), and a record once stored is not
rewritten (`StoredKept`, `CacheAgrees`). `LocksExclude` rests on `LocksKept`: while no lock ran
out under a request, its name is in the locks it took, whatever others release. `BookedApart`
needs `InsertsApart`, because an insert under way already bars others from the index.
`ReservationImplemented` rests on it, too: a commit finds vacant what its insert found. In
`OnceOnlyImplemented` the step that could go wrong is an answer: `ToldKept` says that a reply of a
handler is what it came to, so that an answer given while another repetition has one is the
stored one, read back.

`FleetProofs` proves, for any sets of accounts, calls, tractors, documents and bookings, from
`SomeDocuments`: `Types`, `Approval`, `Judgement`, `Papered`, `Deleted`, `Offers` and
`Deletion`. Its invariant says of each handler under way what its read document has to do with the
current one: an approval was decided on an account that had its papers, and only an upload takes
papers away (`AccountEditsOK`), an
edit of a tractor leaves status and verdicts as read or derives the first from the second, and leaves an
approved tractor its papers (`TractorEditsOK`), what an order read was on offer and of its owner
(`OrdersOK`), a deletion saw no work of its tractor (`DeletionsOK`). `Deletion` needs besides that
a booking which is over comes back only by a `startJob` that has read it (`starts`). What a save then does to the database is what its
handler decided, unless the document changed since it was read.

`QuoteProofs` proves, for any prices, percentages, workers and calls, from `Extent`, `Inputs`, `Rules`
and `Dips`: `Types`, `Invariant`, `Rated`, `Aged`, `Money`, `PricesTogether`, `CopiesRenewed` and
`DatesInOrder`. `Aged` rests on a chain from the time a rate was replaced (`RatesOK`) over the copy
in Redis (`CachedOK`) to who was told of it (`AsksOK`). `Money` rests on `PaidOK`: what was paid is the final amount, unless a late completion is marked, and
is the quote if the operator never put down an amount, which no completion takes away (`PaidStays`,
`CompletedFields`). The rest is
arithmetic of rounded percentages, which the solver gets as lemmas about products and quotients with named
factors. They hold for any set of halves that are missed, since a missed half is
still no more than half a paisa away (`NearestBounds`).

`SignInProofs` proves, for any accounts, calls, codes and limits, from `NoneIsNone`,
`UsersAreNotAdmins` and `PositiveBounds`: `Types`, `Invariant`, the five properties of the run, and
`SignedInOnce`. `OneSignInPerCode` needs `CodesApart` and `Unsaved`: a code is with one account, or with
the login that made it, or gone and never stored again, so a code that signed in cannot come
back. `PasscodeImplemented` needs the same of every code: `Past` are the codes an account gave up
and those a login made and lost, and no call can store one of them. `TakenForACause` needs `JudgedRightly`: what a call found of a code stays true of that
code, so the code that a late call does wrong to is another one.

Only model-checked: `WaitingEnds` and `CapturedIsFinalized`, since liveness is out of the
prover's reach. What their safety halves leave to fairness, and to TLC, is that the crons and
workers do act, and, for the second, that the efforts do not all run out before the row is
there. `WaitShortens`, `EffortsEnd`, `NoDoubleWork`, `RefusedIsNotBooked`, `BookedApart`,
`OneAnswer` and `OneSignInPerCode` are proved and no longer listed in a run: the first two are
measures for a proof, the others follow from a promise that a run checks.

## Not modelled

- The leader locks of the deadlines. The core lets two instances run a cron at once, which allows
  more than the locks do. The reminder cron tells a farmer "auto-cancelled" even if its update
  matched nothing; no state depends on it.
- Notifications and their retries. `sendPushNotification` never throws, so the rows that are
  retried carry no token and their batch marks them failed; with the BullMQ worker the job that
  is to retry finds no row due. No other state depends on a notification being delivered.
- Reviews: the average is recomputed from a read of all reviews, so that two that overlap may
  store an average without one of them, until the next. It is shown and sorts lists; no guard reads it.
- The creation of admins, and `bootstrapSuperAdmin`, which looks for an admin and then creates
  one; two calls can both find none.
- `createOrder`, which no handler calls, and the checks of a payment's signature and amount: the models
  take their outcome as an input. Other guarded routes than `POST /bookings/create` use the same
  idempotency guard, whose model does not depend on what the handler does beyond its answer.
- `seedDefaultServices`, which nothing calls, commissions created inactive, which nothing reads,
  and the unrouted copies of handlers in `controllers/admin/`.
- Queries, dashboards, uploads, maps, e-mail, logging and start-up change no state that a
  property speaks of.
