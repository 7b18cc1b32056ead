--------------------------------- MODULE Fleet ---------------------------------
(***************************************************************************)
(* A tractor from its registration to its deletion: its documents and      *)
(* their verification, and the bookings that are made of it.  Accounts     *)
(* change as in module OperatorAccount.                                    *)
(*                                                                         *)
(* Handlers interleave at every access to the database.  A refused request *)
(* changes nothing and is not a step.                                      *)
(***************************************************************************)
EXTENDS OperatorAccount

CONSTANTS
  Tractors,   \* tractor documents, each created at most once
  Services,   \* service codes
  Photo,      \* the one paper that no admin judges: a set of at most one
  Documents,  \* papers with a verdict of their own
  Dated,      \* documents that expire
  Dates,      \* expiry dates that lie in the future when they are entered
  Bookings,
  None

ASSUME SomeDocuments == Documents # {} /\ Dated \subseteq Documents /\ None \notin Dates

VARIABLES
  tractor,       \* tractor -> its document
  tractorEdits,  \* handlers about to save a tractor
  deletions,     \* deleteTractor calls that have read their tractor
  orders,        \* createBooking calls under way
  booking,       \* booking -> its tractor, operator and status
  starts         \* bookings that a startJob call has read as confirmed

fleetVars == <<tractor, tractorEdits, deletions, orders, booking, starts>>
vars == <<account, seen, accountEdits, spent, tractor, tractorEdits, deletions, orders, booking,
          starts>>

Rows ==
  [life      : {"unborn", "live", "removed"},
   owner     : Operators,
   serves    : SUBSET Services,
   files     : SUBSET (Documents \cup Photo),
   verdict   : [Documents -> Verdicts],
   expiry    : [Dated -> Dates \cup {None}],  \* None: no date, or one that has passed
   status    : Verdicts,
   available : BOOLEAN,
   deleted   : BOOLEAN]

BookingStatuses ==
  {"none", "pending", "accepted", "payment_pending", "confirmed", "in_progress", "over"}

\* A handler between its read of a tractor and its save: what it read, what it made
\* of it, and the papers it was given anew.
TractorEdits ==
  [call : Calls, by : {"upload", "basics", "judge", "verify", "reject"}, of : Tractors,
   read : Rows, new : Rows, fresh : SUBSET (Documents \cup Photo)]

Deletions ==
  [call : Calls, of : Tractors, read : Rows, step : {"look", "save"},
   saw : [Bookings -> BookingStatuses]]

\* A booking in the making: the tractor as read, and the account of its owner as
\* canOperatorServeBookings read it.
Orders ==
  [call : Calls, of : Tractors, operator : Operators, service : Services,
   read : Rows, vetted : Accounts \cup {None}, step : {"vet", "anyTractor", "insert"}]

FleetTypeOK ==
  /\ TypeOK
  /\ tractor \in [Tractors -> Rows]
  /\ tractorEdits \subseteq TractorEdits
  /\ deletions \subseteq Deletions
  /\ orders \subseteq Orders
  /\ booking \in [Bookings -> [of : Tractors, operator : Operators, status : BookingStatuses]]
  /\ starts \subseteq Bookings

\* The status that goes with the verdicts of the documents.
Derived(verdict) ==
  IF \E d \in Documents : verdict[d] = "rejected" THEN "rejected"
  ELSE IF \A d \in Documents : verdict[d] = "approved" THEN "approved" ELSE "pending"

\* validateTractorForApproval
Complete(row) == row.files = Documents \cup Photo /\ \A d \in Dated : row.expiry[d] # None

AllAre(verdict) == [d \in Documents |-> verdict]

NewRow(o, s, files, available, status) ==
  [life |-> "live", owner |-> o, serves |-> s, files |-> files, verdict |-> AllAre("pending"),
   expiry |-> [d \in Dated |-> None], status |-> status, available |-> available,
   deleted |-> FALSE]

Unborn(o) == [NewRow(o, {}, {}, TRUE, "pending") EXCEPT !.life = "unborn"]

\* Tractors as the runs find them: none yet, or with every paper handed in, and
\* judged or not.
HandedIn(o) ==
  {[NewRow(o, Services, Documents \cup Photo, TRUE, "pending") EXCEPT !.expiry = x] :
     x \in [Dated -> Dates]}
StartRows(o) ==
  {Unborn(o)} \cup HandedIn(o) \cup
  {[row EXCEPT !.verdict = AllAre("approved"), !.status = "approved"] : row \in HandedIn(o)}

Init ==
  /\ AccountInit
  /\ spent = {}
  /\ tractor \in [Tractors -> UNION {StartRows(o) : o \in Operators}]
  /\ tractorEdits = {}
  /\ deletions = {}
  /\ orders = {}
  /\ booking \in [Bookings -> {[of |-> t, operator |-> o, status |-> "none"] :
                                 t \in Tractors, o \in Operators}]
  /\ starts = {}

Live(t) == tractor[t].life = "live"

\* Tractors are handled for the operator who owns them.
OwnerCalls(t) == Live(t) /\ seen[tractor[t].owner] = "operator"

(***************************************************************************)
(* Registration, and the updates that need no read.                        *)
(***************************************************************************)
WriteTractor(c, t, row) ==
  /\ Spend(c)
  /\ tractor' = [tractor EXCEPT ![t] = row]
  /\ UNCHANGED <<accountVars, tractorEdits, deletions, orders, booking, starts>>

CreateTractor(c, t, o) ==
  /\ tractor[t].life = "unborn"
  /\ seen[o] = "operator"
  /\ \E s \in (SUBSET Services) \ {{}}, files \in SUBSET Photo, a \in BOOLEAN :
       WriteTractor(c, t, NewRow(o, s, files, a, "pending"))

\* An admin gives a new tractor any status; its documents are pending all the same.
AdminCreateTractor(c, t, o) ==
  /\ tractor[t].life = "unborn"
  /\ account[o].role = "operator"
  /\ \E s \in (SUBSET Services) \ {{}}, files \in SUBSET Photo, a \in BOOLEAN, v \in Verdicts :
       WriteTractor(c, t, NewRow(o, s, files, a, v))

SetTractorAvailability(c, t) ==
  /\ OwnerCalls(t)
  /\ \E a \in BOOLEAN : WriteTractor(c, t, [tractor[t] EXCEPT !.available = a])

\* An admin sets what the request names: any field but documents and verdicts.
AdminUpdateTractor(c, t) ==
  /\ Live(t)
  /\ \/ \E o \in Operators :
          account[o].role = "operator" /\ WriteTractor(c, t, [tractor[t] EXCEPT !.owner = o])
     \/ \E s \in (SUBSET Services) \ {{}} : WriteTractor(c, t, [tractor[t] EXCEPT !.serves = s])
     \/ \E v \in Verdicts : WriteTractor(c, t, [tractor[t] EXCEPT !.status = v])
     \/ \E a \in BOOLEAN : WriteTractor(c, t, [tractor[t] EXCEPT !.available = a])
     \/ \E d \in BOOLEAN : WriteTractor(c, t, [tractor[t] EXCEPT !.deleted = d])
     \/ \E p \in SUBSET Photo :
          WriteTractor(c, t, [tractor[t] EXCEPT !.files = (@ \ Photo) \cup p])

AdminDeleteTractor(c, t) ==
  /\ Live(t)
  /\ WriteTractor(c, t, [tractor[t] EXCEPT !.life = "removed"])

\* A date in the future becomes one in the past.
ExpiryPasses(t, d) ==
  /\ tractor[t].expiry[d] # None
  /\ tractor' = [tractor EXCEPT ![t].expiry[d] = None]
  /\ UNCHANGED <<accountVars, spent, tractorEdits, deletions, orders, booking, starts>>

(***************************************************************************)
(* Handlers that read a tractor, change it and save it.                    *)
(***************************************************************************)
BeginEdit(c, by, t, new, fresh) ==
  /\ tractorEdits' = tractorEdits \cup
       {[call |-> c, by |-> by, of |-> t, read |-> tractor[t], new |-> new,
         fresh |-> fresh]}
  /\ UNCHANGED <<accountVars, tractor, deletions, orders, booking, starts>>

\* What an upload makes of a tractor: the papers it names are pending again, and the
\* status follows the verdicts.  Named papers are fresh, blank and thereby cleared,
\* or as they were.
Uploaded(row, named, fresh, blank, dates) ==
  LET verdict == [d \in Documents |-> IF d \in named THEN "pending" ELSE row.verdict[d]]
  IN [row EXCEPT !.files = (@ \cup fresh) \ blank, !.expiry = dates, !.verdict = verdict,
                 !.status = Derived(verdict)]

\* Mutant: an approved tractor is not treated differently.
AnyUpload(row, new) == TRUE

\* An approved tractor may not be left without what approval asks for.
MayUpload(row, new) == row.status = "approved" => Complete(new)

UploadTractorDocuments(c, t) ==
  /\ OwnerCalls(t)
  /\ Spend(c)
  /\ \E named \in SUBSET (Documents \cup Photo), dates \in [Dated -> Dates \cup {None}] :
     \E fresh \in SUBSET named : \E blank \in SUBSET ((named \ fresh) \cap tractor[t].files) :
       LET new == Uploaded(tractor[t], named, fresh, blank, dates)
       IN MayUpload(tractor[t], new) /\ BeginEdit(c, "upload", t, new, fresh)

UpdateTractorBasics(c, t) ==
  /\ OwnerCalls(t)
  /\ ~tractor[t].deleted
  /\ Spend(c)
  /\ \E s \in (SUBSET Services) \ {{}}, a \in BOOLEAN :
       BeginEdit(c, "basics", t, [tractor[t] EXCEPT !.serves = s, !.available = a], {})

\* Mutant: the status is not derived again.
VerifyDocumentOnly(c, t) ==
  /\ Live(t)
  /\ Spend(c)
  /\ \E d \in Documents, v \in Verdicts :
       BeginEdit(c, "judge", t, [tractor[t] EXCEPT !.verdict[d] = v], {})

\* verifyTractorDocument judges one document; that it is there is not checked.
VerifyTractorDocument(c, t) ==
  /\ Live(t)
  /\ Spend(c)
  /\ \E d \in Documents, v \in Verdicts :
       LET verdict == [tractor[t].verdict EXCEPT ![d] = v] IN
       BeginEdit(c, "judge", t,
         [tractor[t] EXCEPT !.verdict = verdict, !.status = Derived(verdict)], {})

JudgeAll(c, by, t, v) ==
  /\ Spend(c)
  /\ BeginEdit(c, by, t, [tractor[t] EXCEPT !.verdict = AllAre(v), !.status = v], {})

VerifyTractor(c, t) == Live(t) /\ Complete(tractor[t]) /\ JudgeAll(c, "verify", t, "approved")
RejectTractor(c, t) == Live(t) /\ JudgeAll(c, "reject", t, "rejected")

\* save() writes the paths whose value the handler changed; a fresh paper is new in
\* any case.
Field(now, read, new) == IF new = read THEN now ELSE new

\* Mutant: the whole document is written back.
SavedWhole(now, e) == [e.new EXCEPT !.life = now.life]

SavedTractor(now, e) ==
  [now EXCEPT
     !.files     = (@ \ (e.read.files \ e.new.files)) \cup e.fresh,
     !.serves    = Field(@, e.read.serves, e.new.serves),
     !.verdict   = [d \in Documents |-> Field(now.verdict[d], e.read.verdict[d], e.new.verdict[d])],
     !.expiry    = [d \in Dated |-> Field(now.expiry[d], e.read.expiry[d], e.new.expiry[d])],
     !.status    = Field(@, e.read.status, e.new.status),
     !.available = Field(@, e.read.available, e.new.available)]

\* The save of a document that is no longer there throws.
SaveTractor(e) ==
  /\ e \in tractorEdits
  /\ tractorEdits' = tractorEdits \ {e}
  /\ tractor' = IF Live(e.of) THEN [tractor EXCEPT ![e.of] = SavedTractor(@, e)] ELSE tractor
  /\ UNCHANGED <<accountVars, spent, deletions, orders, booking, starts>>

(***************************************************************************)
(* deleteTractor: read, look for bookings, save.                           *)
(***************************************************************************)
\* payment_pending is not among the statuses that keep a tractor from being deleted.
BlocksDeletion == {"pending", "accepted", "confirmed", "in_progress"}

BookingsOf(t) == {b \in Bookings : booking[b].of = t}

DeleteRead(c, t) ==
  /\ OwnerCalls(t)
  /\ ~tractor[t].deleted
  /\ Spend(c)
  /\ deletions' = deletions \cup
       {[call |-> c, of |-> t, read |-> tractor[t], step |-> "look",
         saw |-> [b \in Bookings |-> "none"]]}
  /\ UNCHANGED <<accountVars, tractor, tractorEdits, orders, booking, starts>>

DeleteLook(x) ==
  /\ x \in deletions /\ x.step = "look"
  /\ \A b \in BookingsOf(x.of) : booking[b].status \notin BlocksDeletion
  /\ deletions' = (deletions \ {x}) \cup
       {[x EXCEPT !.step = "save", !.saw = [b \in Bookings |-> booking[b].status]]}
  /\ UNCHANGED <<accountVars, spent, tractor, tractorEdits, orders, booking, starts>>

DeleteSave(x) ==
  /\ x \in deletions /\ x.step = "save"
  /\ deletions' = deletions \ {x}
  /\ tractor' = IF Live(x.of)
                THEN [tractor EXCEPT ![x.of].deleted = TRUE,
                                     ![x.of].available = IF x.read.available THEN FALSE ELSE @]
                ELSE tractor
  /\ UNCHANGED <<accountVars, spent, tractorEdits, orders, booking, starts>>

(***************************************************************************)
(* createBooking, from its read of the tractor to its transaction.  The    *)
(* owner of the tractor becomes the booking's operator; the branch for an  *)
(* operator without a tractor always refuses.                              *)
(***************************************************************************)
\* Mutant: deletion is forgotten.
OfferedDeleted(row) == row.life = "live" /\ row.status = "approved" /\ row.available

Offered(row) == row.life = "live" /\ ~row.deleted /\ row.status = "approved" /\ row.available

OnOffer(row, s) == Offered(row) /\ s \in row.serves

MayServe(a) == a.role = "operator" /\ a.status = "approved"

Order(c, t, s) ==
  /\ Spend(c)
  /\ orders' = orders \cup
       {[call |-> c, of |-> t, operator |-> tractor[t].owner, service |-> s,
         read |-> tractor[t], vetted |-> None, step |-> "vet"]}
  /\ UNCHANGED <<accountVars, tractor, tractorEdits, deletions, booking, starts>>

Continue(x, y) ==
  /\ orders' = (orders \ {x}) \cup {y}
  /\ UNCHANGED <<accountVars, spent, tractor, tractorEdits, deletions, booking, starts>>

\* The checks of the tractor are all made on this read, some of them later.
ReadTractor(c, t, s) == OnOffer(tractor[t], s) /\ Order(c, t, s)

\* Mutant: the approval of the operator is not looked at.
VetOperatorRole(x) ==
  /\ x \in orders /\ x.step = "vet"
  /\ account[x.operator].role = "operator"
  /\ Continue(x, [x EXCEPT !.vetted = account[x.operator], !.step = "anyTractor"])

\* canOperatorServeBookings: the account, then whether any tractor is to be had.
VetOperator(x) ==
  /\ x \in orders /\ x.step = "vet"
  /\ MayServe(account[x.operator])
  /\ Continue(x, [x EXCEPT !.vetted = account[x.operator], !.step = "anyTractor"])

FindAnyTractor(x) ==
  /\ x \in orders /\ x.step = "anyTractor"
  /\ \E t \in Tractors : tractor[t].owner = x.operator /\ Offered(tractor[t])
  /\ Continue(x, [x EXCEPT !.step = "insert"])

\* The transaction of createBookingFlow, which looks at bookings only.
InsertBooking(x, b) ==
  /\ x \in orders /\ x.step = "insert"
  /\ booking[b].status = "none"
  /\ booking' = [booking EXCEPT ![b] = [of |-> x.of, operator |-> x.operator, status |-> "pending"]]
  /\ orders' = orders \ {x}
  /\ UNCHANGED <<accountVars, spent, tractor, tractorEdits, deletions, starts>>

\* The rest of a booking's life is module BookingPayment's; its completion and
\* all that follows count as over.  A stale save of another handler ends there too.
NextStatuses(status) ==
  CASE status = "pending" -> {"accepted", "over"}
    [] status = "accepted" -> {"payment_pending", "over"}
    [] status = "payment_pending" -> {"confirmed", "over"}
    [] status \in {"confirmed", "in_progress"} -> {"over"}
    [] OTHER -> {}

BookingMoves(b) ==
  /\ \E s \in NextStatuses(booking[b].status) : booking' = [booking EXCEPT ![b].status = s]
  /\ UNCHANGED <<accountVars, spent, tractor, tractorEdits, deletions, orders, starts>>

\* startJob decides on the booking it reads and notifies the farmer before it saves:
\* meanwhile the booking may have been cancelled, and is brought back to work.  Any
\* number of calls may be under way, and none need ever save.
StartJobRead(b) ==
  /\ booking[b].status = "confirmed"
  /\ seen[booking[b].operator] = "operator"
  /\ starts' = starts \cup {b}
  /\ UNCHANGED <<accountVars, spent, tractor, tractorEdits, deletions, orders, booking>>

StartJobSave(b) ==
  /\ b \in starts
  /\ booking' = [booking EXCEPT ![b].status = "in_progress"]
  /\ UNCHANGED <<accountVars, spent, tractor, tractorEdits, deletions, orders, starts>>

(***************************************************************************)
(* The specification                                                       *)
(***************************************************************************)
TractorNext ==
  \/ \E c \in Calls, t \in Tractors :
       \/ \E o \in Operators : CreateTractor(c, t, o) \/ AdminCreateTractor(c, t, o)
       \/ SetTractorAvailability(c, t) \/ AdminUpdateTractor(c, t) \/ AdminDeleteTractor(c, t)
       \/ UploadTractorDocuments(c, t) \/ UpdateTractorBasics(c, t)
       \/ VerifyTractorDocument(c, t) \/ VerifyTractor(c, t) \/ RejectTractor(c, t)
       \/ DeleteRead(c, t)
  \/ \E t \in Tractors, d \in Dated : ExpiryPasses(t, d)
  \/ \E e \in tractorEdits : SaveTractor(e)
  \/ \E x \in deletions : DeleteLook(x) \/ DeleteSave(x)

OrderNext ==
  \/ \E c \in Calls, t \in Tractors, s \in Services : ReadTractor(c, t, s)
  \/ \E x \in orders :
       \/ VetOperator(x) \/ FindAnyTractor(x)
       \/ \E b \in Bookings : InsertBooking(x, b)
  \/ \E b \in Bookings : BookingMoves(b) \/ StartJobRead(b) \/ StartJobSave(b)

Next ==
  \/ AccountNext /\ UNCHANGED fleetVars
  \/ TractorNext
  \/ OrderNext

Spec == Init /\ [][Next]_vars

(***************************************************************************)
(* Properties                                                              *)
(***************************************************************************)
\* A handler saves a tractor that is not as it read it.
StaleTractorSave(t) ==
  \E e \in tractorEdits : e \notin tractorEdits' /\ e.of = t /\ e.read # tractor[t]

\* The status of a tractor goes with the verdicts on its documents, whatever is
\* handed in and judged in whatever order.  Only saves that overlap separate the
\* two, or an admin who sets the status itself.
OnlyOverlapsMisjudge ==
  [][\A t \in Tractors :
       Live(t) /\ tractor[t].status = Derived(tractor[t].verdict) =>
         \/ tractor'[t].status = Derived(tractor'[t].verdict)
         \/ StaleTractorSave(t)
         \/ \E c \in Calls : AdminUpdateTractor(c, t)]_vars

\* An approved tractor has what approval asks for.
WellPapered(row) == row.status = "approved" => Complete(row)

\* A tractor is approved by the verdicts on its documents, after an upload of some or
\* a judgement of one; whether all are there was not looked at.
ApprovedByVerdicts(t) ==
  \E e \in tractorEdits :
    /\ e \notin tractorEdits' /\ e.of = t
    /\ e.by \in {"upload", "judge"} /\ e.read.status # "approved"

\* Approval and papers stay together while operators replace papers and dates under
\* way and admins judge them: verifyTractor asks for the papers, and an upload may not
\* take them from an approved tractor.  They are separated by saves that overlap, by
\* verdicts alone, by a date that passes, or by an admin who sets the fields.
OnlyOverlapsStripPapers ==
  [][\A t \in Tractors :
       WellPapered(tractor[t]) =>
         \/ WellPapered(tractor'[t])
         \/ StaleTractorSave(t)
         \/ ApprovedByVerdicts(t)
         \/ \E d \in Dated : ExpiryPasses(t, d)
         \/ \E c \in Calls : AdminUpdateTractor(c, t)
         \/ \E c \in Calls, o \in Operators : AdminCreateTractor(c, t, o)]_vars

\* A tractor that its operator deleted stays deleted, whichever handlers had read
\* it before and save it after; only an admin brings it back.
DeletedStays ==
  [][\A t \in Tractors :
       tractor[t].deleted =>
         tractor'[t].deleted \/ \E c \in Calls : AdminUpdateTractor(c, t)]_vars

\* A booking is made of a tractor that is on offer and of its owner, who may serve,
\* unless the tractor or the account has changed since the request read them.
BookedOnOffer ==
  [][\A b \in Bookings :
       booking[b].status = "none" /\ booking'[b].status # "none" =>
         \E x \in orders \ orders' :
           LET t == booking'[b].of
               o == booking'[b].operator
           IN /\ x.of = t /\ x.operator = o
              /\ tractor[t] = x.read /\ account[o] = x.vetted =>
                   MayServe(account[o]) /\ tractor[t].owner = o /\ OnOffer(tractor[t], x.service)]_vars

\* There is work to do with a tractor that was deleted.
WorkOnDeleted(b) ==
  booking[b].status \in BlocksDeletion /\ tractor[booking[b].of].deleted

\* A deletion does not take the tractor away from work.  It happens in four ways
\* only: the booking is made by a request that read the tractor before; it was
\* waiting for a payment when deleteTractor looked, or not made yet; a startJob that
\* read it before brings it back to work after it was over; or an admin deletes.
DeletionSparesWork ==
  [][\A b \in Bookings :
       ~WorkOnDeleted(b) /\ WorkOnDeleted(b)' =>
         \/ \E x \in orders \ orders' : x.of = booking'[b].of /\ ~x.read.deleted
         \/ booking[b].status = "payment_pending"
         \/ (booking[b].status = "over" /\ StartJobSave(b))
         \/ \E x \in deletions \ deletions' :
              /\ x.of = booking[b].of
              /\ \/ x.saw[b] \in {"none", "payment_pending"}
                 \/ x.saw[b] = "over" /\ b \in starts
         \/ \E c \in Calls : AdminUpdateTractor(c, booking[b].of)]_vars

=============================================================================
