------------------------------ MODULE FleetProofs ------------------------------
(***************************************************************************)
(* Proofs about Fleet, for any number of tractors, operators, documents,   *)
(* bookings and calls.                                                     *)
(***************************************************************************)
EXTENDS Fleet, TLAPS

-----------------------------------------------------------------------------
\* What a handler that saves an account has checked: an upload keeps what is fresh and
\* never approves, and verifyOperator has seen the papers.
AccountEditOK(e) ==
  /\ e.fresh \subseteq e.new.papers /\ e.new.papers \subseteq e.read.papers \cup e.fresh
  /\ e.by # "upload" => e.new.papers = e.read.papers
  /\ e.by \in {"verify", "judge"} => e.read.role = "operator"
  /\ e.by = "verify" => HasOperatorDocumentsForApproval(e.read)
  /\ e.by = "reject" => e.new.status # "approved"
  /\ e.by = "upload" /\ e.new.status = "approved" => e.read.status = "approved"

\* Accounts keep their types, whatever writes them.
LEMMA AccountWriteType ==
  ASSUME TypeOK, NEW c \in Calls, NEW o \in Operators, NEW doc \in Accounts, Write(c, o, doc)
  PROVE  TypeOK'
BY DEF TypeOK, Write, Spend

LEMMA AccountReadType ==
  ASSUME TypeOK, NEW c \in Calls, NEW o \in Operators,
         NEW by \in {"upload", "verify", "reject", "judge"}, NEW new \in Accounts,
         NEW fresh \in SUBSET Papers, Spend(c), ReadAccount(c, by, o, new, fresh)
  PROVE  TypeOK'
<1> DEFINE e == [call |-> c, by |-> by, of |-> o, read |-> account[o], new |-> new,
                 fresh |-> fresh]
<1>1. e \in AccountEdits
  BY DEF TypeOK, AccountEdits
<1>2. QED BY <1>1 DEF TypeOK, ReadAccount, Spend

\* What an account becomes when a handler saves it.
LEMMA AccountSaved ==
  ASSUME NEW a \in Accounts, NEW e \in AccountEdits
  PROVE  /\ SavedAccount(a, e) \in Accounts
         /\ SavedAccount(a, e).role = a.role
         /\ SavedAccount(a, e).status = IF e.new.status = e.read.status THEN a.status
                                        ELSE e.new.status
         /\ SavedAccount(a, e).papers = (a.papers \ (e.read.papers \ e.new.papers)) \cup e.fresh
<1> DEFINE v == IF e.new.status = e.read.status THEN a.status ELSE e.new.status
           p == (a.papers \ (e.read.papers \ e.new.papers)) \cup e.fresh
<1>1. e.new.status \in Verdicts /\ e.fresh \in SUBSET Papers
  BY DEF AccountEdits, Accounts
<1>2. v \in Verdicts /\ p \in SUBSET Papers
  BY <1>1 DEF Accounts
<1>3. SavedAccount(a, e) = [a EXCEPT !.status = v, !.papers = p]
  BY DEF SavedAccount
<1> HIDE DEF v, p
<1>4. /\ [a EXCEPT !.status = v, !.papers = p] \in Accounts
      /\ [a EXCEPT !.status = v, !.papers = p].role = a.role
      /\ [a EXCEPT !.status = v, !.papers = p].status = v
      /\ [a EXCEPT !.status = v, !.papers = p].papers = p
  BY <1>2 DEF Accounts
<1>5. QED BY <1>3, <1>4 DEF v, p

LEMMA AccountSaveType ==
  ASSUME TypeOK, NEW e \in accountEdits, SaveAccount(e)
  PROVE  TypeOK'
<1>1. e \in AccountEdits
  BY DEF TypeOK
<1>2. e.of \in Operators /\ account[e.of] \in Accounts
  BY <1>1 DEF TypeOK, AccountEdits
<1>3. SavedAccount(account[e.of], e) \in Accounts
  BY <1>1, <1>2, AccountSaved
<1>4. QED BY <1>2, <1>3 DEF TypeOK, SaveAccount

\* What the handlers that read an account have in hand when they have read it.
LEMMA AccountReadings ==
  ASSUME TypeOK, NEW c \in Calls, NEW o \in Operators,
         \/ UploadOperatorDocuments(c, o) \/ VerifyOperator(c, o) \/ RejectOperator(c, o)
         \/ VerifyOperatorDocuments(c, o)
  PROVE  \E by \in {"upload", "verify", "reject", "judge"}, new \in Accounts,
            fresh \in SUBSET Papers :
           /\ Spend(c) /\ ReadAccount(c, by, o, new, fresh)
           /\ AccountEditOK([call |-> c, by |-> by, of |-> o, read |-> account[o], new |-> new,
                             fresh |-> fresh])
<1>1. account[o] \in Accounts
  BY DEF TypeOK
<1>2. CASE UploadOperatorDocuments(c, o)
  <2>1. PICK fresh \in SUBSET Scans, blank \in SUBSET Scans :
          /\ fresh \cap blank = {}
          /\ ReadAccount(c, "upload", o,
               [account[o] EXCEPT !.papers = (@ \cup fresh) \ blank,
                                  !.status = IF @ = "rejected" THEN "pending" ELSE @], fresh)
    BY <1>2 DEF UploadOperatorDocuments
  <2> DEFINE p == (account[o].papers \cup fresh) \ blank
             v == IF account[o].status = "rejected" THEN "pending" ELSE account[o].status
             new == [account[o] EXCEPT !.papers = p, !.status = v]
  <2>2. p \in SUBSET Papers /\ v \in Verdicts /\ fresh \in SUBSET Papers
    BY <1>1 DEF Accounts, Papers, Verdicts
  <2>3. /\ fresh \subseteq p /\ p \subseteq account[o].papers \cup fresh
        /\ v = "approved" => account[o].status = "approved"
    BY <2>1
  <2>4. ReadAccount(c, "upload", o, new, fresh)
    BY <2>1
  <2> HIDE DEF p, v
  <2>5. new \in Accounts /\ new.papers = p /\ new.status = v
    BY <1>1, <2>2 DEF Accounts
  <2> HIDE DEF new
  <2>6. AccountEditOK([call |-> c, by |-> "upload", of |-> o, read |-> account[o],
                       new |-> new, fresh |-> fresh])
    BY <2>3, <2>5 DEF AccountEditOK
  <2>7. Spend(c)
    BY <1>2 DEF UploadOperatorDocuments
  <2>8. QED BY <2>2, <2>4, <2>5, <2>6, <2>7
<1>3. ASSUME NEW by \in {"verify", "reject", "judge"}, NEW v \in Verdicts, Judge(c, by, o, v),
             by \in {"verify", "judge"} => account[o].role = "operator",
             by = "verify" => HasOperatorDocumentsForApproval(account[o]),
             by = "reject" => v # "approved"
      PROVE  \E new \in Accounts :
               /\ Spend(c) /\ ReadAccount(c, by, o, new, {})
               /\ AccountEditOK([call |-> c, by |-> by, of |-> o, read |-> account[o],
                                 new |-> new, fresh |-> {}])
  <2> DEFINE new == [account[o] EXCEPT !.status = v]
  <2>1. new \in Accounts /\ new.papers = account[o].papers /\ new.status = v
    BY <1>1 DEF Accounts
  <2>2. Spend(c) /\ ReadAccount(c, by, o, new, {})
    BY <1>3 DEF Judge
  <2> HIDE DEF new
  <2>3. AccountEditOK([call |-> c, by |-> by, of |-> o, read |-> account[o], new |-> new,
                       fresh |-> {}])
    BY <1>3, <2>1 DEF AccountEditOK
  <2>4. QED BY <2>1, <2>2, <2>3
<1>4. CASE VerifyOperator(c, o)
  BY <1>3, <1>4 DEF VerifyOperator, Verdicts
<1>5. CASE RejectOperator(c, o)
  BY <1>3, <1>5 DEF RejectOperator, Verdicts
<1>6. CASE VerifyOperatorDocuments(c, o)
  <2>1. PICK v \in {"approved", "rejected"} : Judge(c, "judge", o, v)
    BY <1>6 DEF VerifyOperatorDocuments
  <2>2. QED BY <1>3, <1>6, <2>1 DEF VerifyOperatorDocuments, Verdicts
<1>7. QED BY <1>2, <1>4, <1>5, <1>6

LEMMA AccountNextType == TypeOK /\ AccountNext => TypeOK'
<1> SUFFICES ASSUME TypeOK, AccountNext PROVE TypeOK'
  OBVIOUS
<1>1. CASE \E o \in Operators : Protect(o)
  BY <1>1 DEF Protect, TypeOK, Accounts, Roles
<1>2. ASSUME NEW c \in Calls, NEW o \in Operators,
             \/ SelectRole(c, o) \/ UpdateFarmerProfile(c, o) \/ UpdateOperatorProfile(c, o)
             \/ BlockUser(c, o)
      PROVE  TypeOK'
  <2>1. account[o] \in Accounts
    BY DEF TypeOK
  <2>2. PICK doc \in Accounts : Write(c, o, doc)
    <3>1. AsFarmer(account[o]) \in Accounts
      BY <2>1 DEF AsFarmer, Accounts, Verdicts, Papers
    <3>2. CASE SelectRole(c, o)
      BY <2>1, <3>1, <3>2 DEF SelectRole, Accounts, Roles
    <3>3. CASE UpdateFarmerProfile(c, o)
      BY <3>1, <3>3 DEF UpdateFarmerProfile
    <3>4. CASE UpdateOperatorProfile(c, o)
      BY <2>1, <3>4 DEF UpdateOperatorProfile, Accounts, Papers, Scans
    <3>5. CASE BlockUser(c, o)
      BY <2>1, <3>5 DEF BlockUser, Accounts
    <3>6. QED BY <1>2, <3>2, <3>3, <3>4, <3>5
  <2>3. QED BY <2>2, AccountWriteType
<1>3. ASSUME NEW c \in Calls, NEW o \in Operators,
             \/ UploadOperatorDocuments(c, o) \/ VerifyOperator(c, o) \/ RejectOperator(c, o)
             \/ VerifyOperatorDocuments(c, o)
      PROVE  TypeOK'
  BY <1>3, AccountReadings, AccountReadType
<1>4. CASE \E e \in accountEdits : SaveAccount(e)
  BY <1>4, AccountSaveType
<1>5. QED BY <1>1, <1>2, <1>3, <1>4 DEF AccountNext

-----------------------------------------------------------------------------
\* Steps that leave the accounts alone.
LEMMA AccountFrame ==
  ASSUME TypeOK, UNCHANGED accountVars, spent' \subseteq Calls
  PROVE  TypeOK'
BY DEF TypeOK, accountVars

LEMMA DerivedType == \A verdict : Derived(verdict) \in Verdicts
BY DEF Derived, Verdicts

\* A tractor's document, whole or with a field set anew, is one of Rows.
LEMMA NewRowType ==
  ASSUME NEW o \in Operators, NEW s \in SUBSET Services,
         NEW files \in SUBSET (Documents \cup Photo), NEW a \in BOOLEAN, NEW v \in Verdicts
  PROVE  NewRow(o, s, files, a, v) \in Rows
<1>1. AllAre("pending") \in [Documents -> Verdicts]
  BY DEF AllAre, Verdicts
<1>2. [d \in Dated |-> None] \in [Dated -> Dates \cup {None}]
  OBVIOUS
<1>3. QED BY <1>1, <1>2 DEF NewRow, Rows

LEMMA RowFields ==
  ASSUME NEW row \in Rows
  PROVE  /\ row.owner \in Operators /\ row.serves \in SUBSET Services
         /\ row.files \in SUBSET (Documents \cup Photo)
         /\ row.verdict \in [Documents -> Verdicts]
         /\ row.expiry \in [Dated -> Dates \cup {None}]
         /\ row.status \in Verdicts /\ row.available \in BOOLEAN /\ row.deleted \in BOOLEAN
         /\ row.life \in {"unborn", "live", "removed"}
BY DEF Rows

LEMMA RowUpdates ==
  ASSUME NEW row \in Rows
  PROVE  /\ \A l \in {"unborn", "live", "removed"} : [row EXCEPT !.life = l] \in Rows
         /\ \A o \in Operators : [row EXCEPT !.owner = o] \in Rows
         /\ \A s \in SUBSET Services : [row EXCEPT !.serves = s] \in Rows
         /\ \A f \in SUBSET (Documents \cup Photo) : [row EXCEPT !.files = f] \in Rows
         /\ \A v \in [Documents -> Verdicts] : [row EXCEPT !.verdict = v] \in Rows
         /\ \A x \in [Dated -> Dates \cup {None}] : [row EXCEPT !.expiry = x] \in Rows
         /\ \A v \in Verdicts : [row EXCEPT !.status = v] \in Rows
         /\ \A a \in BOOLEAN : [row EXCEPT !.available = a] \in Rows
         /\ \A d \in BOOLEAN : [row EXCEPT !.deleted = d] \in Rows
BY DEF Rows

LEMMA InitType == Init => FleetTypeOK
<1> SUFFICES ASSUME Init PROVE FleetTypeOK
  OBVIOUS
<1>1. TypeOK
  <2>1. {NewAccount, PendingOperator, ApprovedOperator} \subseteq Accounts
    <3>1. NewAccount \in Accounts
      BY DEF NewAccount, Accounts, Roles, Verdicts
    <3>2. PendingOperator \in Accounts
      BY <3>1 DEF PendingOperator, Accounts, Roles
    <3>3. ApprovedOperator \in Accounts
      BY <3>2 DEF ApprovedOperator, Accounts, Verdicts
    <3>4. QED BY <3>1, <3>2, <3>3
  <2>2. account \in [Operators -> Accounts]
    BY <2>1 DEF Init, AccountInit
  <2>3. seen \in [Operators -> Roles \cup {"blocked"}]
    BY <2>2 DEF Init, AccountInit, Accounts
  <2>4. QED BY <2>2, <2>3 DEF Init, AccountInit, TypeOK
<1>2. \A o \in Operators : StartRows(o) \subseteq Rows
  <2> SUFFICES ASSUME NEW o \in Operators PROVE StartRows(o) \subseteq Rows
    OBVIOUS
  <2>1. Unborn(o) \in Rows
    <3>1. NewRow(o, {}, {}, TRUE, "pending") \in Rows
      BY NewRowType DEF Verdicts
    <3>2. QED BY <3>1, RowUpdates DEF Unborn
  <2>2. HandedIn(o) \subseteq Rows
    <3>1. NewRow(o, Services, Documents \cup Photo, TRUE, "pending") \in Rows
      BY NewRowType DEF Verdicts
    <3>2. [Dated -> Dates] \subseteq [Dated -> Dates \cup {None}]
      OBVIOUS
    <3>3. QED BY <3>1, <3>2, RowUpdates DEF HandedIn
  <2>3. \A row \in HandedIn(o) :
          [row EXCEPT !.verdict = AllAre("approved"), !.status = "approved"] \in Rows
    <3>1. AllAre("approved") \in [Documents -> Verdicts] /\ "approved" \in Verdicts
      BY DEF AllAre, Verdicts
    <3>2. SUFFICES ASSUME NEW row \in HandedIn(o)
                   PROVE  [row EXCEPT !.verdict = AllAre("approved"), !.status = "approved"] \in Rows
      OBVIOUS
    <3>3. row \in Rows
      BY <2>2
    <3>4. [row EXCEPT !.verdict = AllAre("approved")] \in Rows
      BY <3>1, <3>3, RowUpdates
    <3>5. [[row EXCEPT !.verdict = AllAre("approved")] EXCEPT !.status = "approved"] \in Rows
      BY <3>1, <3>4, RowUpdates
    <3>6. QED BY <3>5
  <2>4. QED BY <2>1, <2>2, <2>3 DEF StartRows
<1>3. tractor \in [Tractors -> Rows]
  BY <1>2 DEF Init
<1>4. booking \in [Bookings -> [of : Tractors, operator : Operators, status : BookingStatuses]]
  BY DEF Init, BookingStatuses
<1>5. QED BY <1>1, <1>3, <1>4 DEF Init, FleetTypeOK

\* The single writes of a tractor.
LEMMA TractorWriteType ==
  ASSUME FleetTypeOK, NEW c \in Calls, NEW t \in Tractors, NEW row \in Rows,
         WriteTractor(c, t, row)
  PROVE  FleetTypeOK'
<1>1. TypeOK'
  BY AccountFrame DEF WriteTractor, Spend, FleetTypeOK, TypeOK
<1>2. QED BY <1>1 DEF FleetTypeOK, WriteTractor

LEMMA TractorEditType ==
  ASSUME FleetTypeOK, NEW c \in Calls, NEW t \in Tractors, NEW new \in Rows,
         NEW by \in {"upload", "basics", "judge", "verify", "reject"},
         NEW fresh \in SUBSET (Documents \cup Photo), Spend(c), BeginEdit(c, by, t, new, fresh)
  PROVE  FleetTypeOK'
<1>1. TypeOK'
  BY AccountFrame DEF BeginEdit, Spend, FleetTypeOK, TypeOK
<1> DEFINE e == [call |-> c, by |-> by, of |-> t, read |-> tractor[t], new |-> new,
                 fresh |-> fresh]
<1>2. e \in TractorEdits
  BY DEF FleetTypeOK, TractorEdits
<1>3. QED BY <1>1, <1>2 DEF FleetTypeOK, BeginEdit

LEMMA FieldType ==
  ASSUME NEW S, NEW now \in S, NEW read \in S, NEW new \in S
  PROVE  Field(now, read, new) \in S
BY DEF Field

LEMMA SavedTractorType ==
  ASSUME NEW now \in Rows, NEW e \in TractorEdits
  PROVE  SavedTractor(now, e) \in Rows
<1>1. e.read \in Rows /\ e.new \in Rows
  BY DEF TractorEdits
<1>2. [d \in Documents |-> Field(now.verdict[d], e.read.verdict[d], e.new.verdict[d])]
        \in [Documents -> Verdicts]
  BY <1>1, RowFields, FieldType
<1>3. [d \in Dated |-> Field(now.expiry[d], e.read.expiry[d], e.new.expiry[d])]
        \in [Dated -> Dates \cup {None}]
  <2>1. now.expiry \in [Dated -> Dates \cup {None}]
    BY RowFields
  <2>2. e.read.expiry \in [Dated -> Dates \cup {None}] /\ e.new.expiry \in [Dated -> Dates \cup {None}]
    BY <1>1, RowFields
  <2>3. QED BY <2>1, <2>2 DEF Field
<1>4. /\ (now.files \ (e.read.files \ e.new.files)) \cup e.fresh \in SUBSET (Documents \cup Photo)
      /\ Field(now.serves, e.read.serves, e.new.serves) \in SUBSET Services
      /\ Field(now.status, e.read.status, e.new.status) \in Verdicts
      /\ Field(now.available, e.read.available, e.new.available) \in BOOLEAN
  <2>1. now.files \in SUBSET (Documents \cup Photo) /\ e.fresh \in SUBSET (Documents \cup Photo)
    BY RowFields DEF TractorEdits
  <2>2. Field(now.serves, e.read.serves, e.new.serves) \in SUBSET Services
    BY <1>1, RowFields, FieldType
  <2>3. Field(now.status, e.read.status, e.new.status) \in Verdicts
    BY <1>1, RowFields, FieldType
  <2>4. Field(now.available, e.read.available, e.new.available) \in BOOLEAN
    BY <1>1, RowFields DEF Field
  <2>5. QED BY <2>1, <2>2, <2>3, <2>4
<1>5. QED BY <1>2, <1>3, <1>4 DEF SavedTractor, Rows

LEMMA TractorSaveType ==
  ASSUME FleetTypeOK, NEW e \in tractorEdits, SaveTractor(e)
  PROVE  FleetTypeOK'
<1>1. TypeOK'
  BY AccountFrame DEF SaveTractor, FleetTypeOK, TypeOK
<1>2. e \in TractorEdits
  BY DEF FleetTypeOK
<1>3. SavedTractor(tractor[e.of], e) \in Rows
  BY <1>2, SavedTractorType DEF FleetTypeOK, TractorEdits
<1>4. tractor' \in [Tractors -> Rows]
  BY <1>2, <1>3 DEF FleetTypeOK, SaveTractor, TractorEdits
<1>5. QED BY <1>1, <1>4 DEF FleetTypeOK, SaveTractor

\* What may be in the place of a tractor after a step that is about neither papers nor
\* their verdicts, and after its registration.
Alike(row, old) ==
  /\ row.deleted = old.deleted /\ row.status = old.status /\ row.verdict = old.verdict
  /\ row.files = old.files /\ row.expiry = old.expiry

Registered(t, row) ==
  /\ tractor[t].life = "unborn" /\ ~row.deleted
  /\ row.status = "pending" \/ \E c \in Calls, o \in Operators : AdminCreateTractor(c, t, o)

\* What the single writes put in the place of a tractor.
LEMMA SingleWrites ==
  ASSUME FleetTypeOK, NEW c \in Calls, NEW t \in Tractors,
         \/ \E o \in Operators : CreateTractor(c, t, o) \/ AdminCreateTractor(c, t, o)
         \/ SetTractorAvailability(c, t) \/ AdminUpdateTractor(c, t) \/ AdminDeleteTractor(c, t)
  PROVE  \E row \in Rows :
           /\ WriteTractor(c, t, row)
           /\ \/ AdminUpdateTractor(c, t)
              \/ Registered(t, row)
              \/ Alike(row, tractor[t])
           /\ row.life # "unborn"
<1>1. tractor[t] \in Rows
  BY DEF FleetTypeOK
<1>2. CASE \E o \in Operators : CreateTractor(c, t, o) \/ AdminCreateTractor(c, t, o)
  <2>1. PICK o \in Operators, s \in SUBSET Services, files \in SUBSET Photo, a \in BOOLEAN,
             v \in Verdicts :
          /\ WriteTractor(c, t, NewRow(o, s, files, a, v))
          /\ v = "pending" \/ AdminCreateTractor(c, t, o)
    BY <1>2 DEF CreateTractor, AdminCreateTractor, Verdicts
  <2>2. NewRow(o, s, files, a, v) \in Rows
    BY NewRowType
  <2>3. ~NewRow(o, s, files, a, v).deleted /\ NewRow(o, s, files, a, v).life # "unborn"
        /\ NewRow(o, s, files, a, v).status = v
    BY DEF NewRow
  <2>4. tractor[t].life = "unborn"
    BY <1>2 DEF CreateTractor, AdminCreateTractor
  <2>5. Registered(t, NewRow(o, s, files, a, v))
    BY <2>1, <2>3, <2>4 DEF Registered
  <2>6. QED BY <2>1, <2>2, <2>3, <2>5
<1>3. CASE SetTractorAvailability(c, t)
  <2>1. PICK a \in BOOLEAN : WriteTractor(c, t, [tractor[t] EXCEPT !.available = a])
    BY <1>3 DEF SetTractorAvailability
  <2> DEFINE row == [tractor[t] EXCEPT !.available = a]
  <2>2. row \in Rows
    BY <1>1, RowUpdates
  <2>3. Alike(row, tractor[t]) /\ row.life # "unborn"
    BY <1>1, <1>3 DEF Alike, Rows, SetTractorAvailability, OwnerCalls, Live
  <2>4. QED BY <2>1, <2>2, <2>3
<1>4. CASE AdminUpdateTractor(c, t)
  <2>1. PICK row \in Rows : WriteTractor(c, t, row) /\ row.life = tractor[t].life
    <3> DEFINE Kept(row) == row \in Rows /\ row.life = tractor[t].life
    <3>1. \A o \in Operators : Kept([tractor[t] EXCEPT !.owner = o])
      BY <1>1 DEF Rows
    <3>2. \A q \in SUBSET Services : Kept([tractor[t] EXCEPT !.serves = q])
      BY <1>1 DEF Rows
    <3>3. \A v \in Verdicts : Kept([tractor[t] EXCEPT !.status = v])
      BY <1>1 DEF Rows
    <3>4. \A a \in BOOLEAN : Kept([tractor[t] EXCEPT !.available = a])
      BY <1>1 DEF Rows
    <3>5. \A d \in BOOLEAN : Kept([tractor[t] EXCEPT !.deleted = d])
      BY <1>1 DEF Rows
    <3>6. \A p \in SUBSET Photo : Kept([tractor[t] EXCEPT !.files = (@ \ Photo) \cup p])
      BY <1>1 DEF Rows
    <3>7. QED BY <1>4, <3>1, <3>2, <3>3, <3>4, <3>5, <3>6 DEF AdminUpdateTractor
  <2>2. QED BY <1>4, <2>1 DEF AdminUpdateTractor, Live
<1>5. CASE AdminDeleteTractor(c, t)
  <2> DEFINE row == [tractor[t] EXCEPT !.life = "removed"]
  <2>1. WriteTractor(c, t, row)
    BY <1>5 DEF AdminDeleteTractor
  <2>2. row \in Rows
    BY <1>1, RowUpdates
  <2>3. Alike(row, tractor[t]) /\ row.life # "unborn"
    BY <1>1 DEF Alike, Rows
  <2>4. QED BY <2>1, <2>2, <2>3
<1>6. QED BY <1>2, <1>3, <1>4, <1>5

\* What a handler that saves a tractor has checked: status and verdicts go together, an
\* upload leaves an approved tractor complete, and verifyTractor has seen the papers.
TractorEditOK(e) ==
  /\ \/ e.new.status = Derived(e.new.verdict) /\ e.by # "basics"
     \/ e.new.status = e.read.status /\ e.new.verdict = e.read.verdict
  /\ e.fresh \subseteq e.new.files /\ e.new.files \subseteq e.read.files \cup e.fresh
  /\ e.by # "upload" => e.new.files = e.read.files /\ e.new.expiry = e.read.expiry
  /\ e.by = "upload" /\ e.read.status = "approved" => Complete(e.new)
  /\ e.by = "verify" => Complete(e.read)
  /\ e.by = "reject" => e.new.status # "approved"

\* The handlers that read a tractor to save it leave everything else alone.
LEMMA Readings ==
  ASSUME FleetTypeOK, NEW c \in Calls, NEW t \in Tractors,
         \/ UploadTractorDocuments(c, t) \/ UpdateTractorBasics(c, t)
         \/ VerifyTractorDocument(c, t) \/ VerifyTractor(c, t) \/ RejectTractor(c, t)
  PROVE  \E by \in {"upload", "basics", "judge", "verify", "reject"}, new \in Rows,
            fresh \in SUBSET (Documents \cup Photo) :
           /\ Spend(c) /\ BeginEdit(c, by, t, new, fresh)
           /\ TractorEditOK([call |-> c, by |-> by, of |-> t, read |-> tractor[t], new |-> new,
                             fresh |-> fresh])
<1>1. tractor[t] \in Rows
  BY DEF FleetTypeOK
<1>2. CASE UploadTractorDocuments(c, t)
  <2>1. PICK named \in SUBSET (Documents \cup Photo), dates \in [Dated -> Dates \cup {None}],
             fresh \in SUBSET (Documents \cup Photo), blank \in SUBSET (Documents \cup Photo) :
          /\ fresh \cap blank = {}
          /\ MayUpload(tractor[t], Uploaded(tractor[t], named, fresh, blank, dates))
          /\ BeginEdit(c, "upload", t, Uploaded(tractor[t], named, fresh, blank, dates), fresh)
    BY <1>2 DEF UploadTractorDocuments
  <2> DEFINE verdict == [d \in Documents |-> IF d \in named THEN "pending"
                                             ELSE tractor[t].verdict[d]]
             files == (tractor[t].files \cup fresh) \ blank
             new == [tractor[t] EXCEPT !.files = files, !.expiry = dates, !.verdict = verdict,
                                       !.status = Derived(verdict)]
  <2>2. verdict \in [Documents -> Verdicts]
    BY <1>1, RowFields DEF Verdicts
  <2>3. Derived(verdict) \in Verdicts
    BY DerivedType
  <2>4. /\ fresh \in SUBSET (Documents \cup Photo) /\ files \in SUBSET (Documents \cup Photo)
        /\ fresh \subseteq files /\ files \subseteq tractor[t].files \cup fresh
    BY <1>1, <2>1, RowFields
  <2>5. new = Uploaded(tractor[t], named, fresh, blank, dates)
    BY DEF Uploaded
  <2> HIDE DEF verdict, files
  <2>6. new \in Rows /\ new.status = Derived(new.verdict) /\ new.files = files
    BY <1>1, <2>2, <2>3, <2>4 DEF Rows
  <2> HIDE DEF new
  <2>7. TractorEditOK([call |-> c, by |-> "upload", of |-> t, read |-> tractor[t], new |-> new,
                       fresh |-> fresh])
    BY <2>1, <2>4, <2>5, <2>6 DEF TractorEditOK, MayUpload
  <2>8. Spend(c)
    BY <1>2 DEF UploadTractorDocuments
  <2>9. QED BY <2>1, <2>4, <2>5, <2>6, <2>7, <2>8
<1>3. ASSUME NEW by \in {"basics", "judge", "verify", "reject"}, NEW new \in Rows, Spend(c),
             BeginEdit(c, by, t, new, {}),
             new.files = tractor[t].files, new.expiry = tractor[t].expiry,
             \/ new.status = Derived(new.verdict) /\ by # "basics"
             \/ new.status = tractor[t].status /\ new.verdict = tractor[t].verdict,
             by = "verify" => Complete(tractor[t]), by = "reject" => new.status # "approved"
      PROVE  /\ Spend(c) /\ BeginEdit(c, by, t, new, {})
             /\ TractorEditOK([call |-> c, by |-> by, of |-> t, read |-> tractor[t], new |-> new,
                               fresh |-> {}])
  BY <1>3 DEF TractorEditOK
<1>4. CASE UpdateTractorBasics(c, t)
  <2>1. PICK s \in SUBSET Services, a \in BOOLEAN :
          BeginEdit(c, "basics", t, [tractor[t] EXCEPT !.serves = s, !.available = a], {})
    BY <1>4 DEF UpdateTractorBasics
  <2> DEFINE new == [tractor[t] EXCEPT !.serves = s, !.available = a]
  <2>2. new \in Rows /\ new.status = tractor[t].status /\ new.verdict = tractor[t].verdict
        /\ new.files = tractor[t].files /\ new.expiry = tractor[t].expiry
    BY <1>1 DEF Rows
  <2>3. Spend(c) /\ BeginEdit(c, "basics", t, new, {})
    BY <1>4, <2>1 DEF UpdateTractorBasics
  <2> HIDE DEF new
  <2>4. QED BY <1>3, <2>2, <2>3
<1>5. CASE VerifyTractorDocument(c, t)
  <2>1. PICK d \in Documents, v \in Verdicts :
          LET verdict == [tractor[t].verdict EXCEPT ![d] = v] IN
          BeginEdit(c, "judge", t,
            [tractor[t] EXCEPT !.verdict = verdict, !.status = Derived(verdict)], {})
    BY <1>5 DEF VerifyTractorDocument
  <2> DEFINE verdict == [tractor[t].verdict EXCEPT ![d] = v]
             new == [tractor[t] EXCEPT !.verdict = verdict, !.status = Derived(verdict)]
  <2>2. verdict \in [Documents -> Verdicts]
    BY <1>1, RowFields
  <2>3. Derived(verdict) \in Verdicts
    BY DerivedType
  <2> HIDE DEF verdict
  <2>4. new \in Rows /\ new.status = Derived(new.verdict)
        /\ new.files = tractor[t].files /\ new.expiry = tractor[t].expiry
    BY <1>1, <2>2, <2>3 DEF Rows
  <2>5. Spend(c) /\ BeginEdit(c, "judge", t, new, {})
    BY <1>5, <2>1 DEF verdict, VerifyTractorDocument
  <2> HIDE DEF new
  <2>6. QED BY <1>3, <2>4, <2>5
<1>6. CASE VerifyTractor(c, t) \/ RejectTractor(c, t)
  <2>1. PICK v \in {"approved", "rejected"}, by \in {"verify", "reject"} :
          /\ JudgeAll(c, by, t, v)
          /\ by = "verify" => Complete(tractor[t])
          /\ by = "reject" => v # "approved"
    BY <1>6 DEF VerifyTractor, RejectTractor
  <2> DEFINE new == [tractor[t] EXCEPT !.verdict = AllAre(v), !.status = v]
  <2>2. AllAre(v) \in [Documents -> Verdicts] /\ v \in Verdicts
    BY DEF AllAre, Verdicts
  <2>3. Derived(AllAre(v)) = v
    BY SomeDocuments DEF Derived, AllAre
  <2>4. new \in Rows /\ new.status = Derived(new.verdict) /\ new.status = v
        /\ new.files = tractor[t].files /\ new.expiry = tractor[t].expiry
    BY <1>1, <2>2, <2>3 DEF Rows
  <2>5. Spend(c) /\ BeginEdit(c, by, t, new, {})
    BY <2>1 DEF JudgeAll
  <2> HIDE DEF new
  <2>6. QED BY <1>3, <2>1, <2>4, <2>5
<1>7. QED BY <1>2, <1>4, <1>5, <1>6

-----------------------------------------------------------------------------
\* Deletions and orders keep the types.
LEMMA DeletionType ==
  ASSUME FleetTypeOK,
         \/ \E c \in Calls, t \in Tractors : DeleteRead(c, t)
         \/ \E x \in deletions : DeleteLook(x) \/ DeleteSave(x)
  PROVE  FleetTypeOK'
<1>1. TypeOK'
  BY AccountFrame DEF DeleteRead, DeleteLook, DeleteSave, Spend, FleetTypeOK, TypeOK
<1>2. CASE \E c \in Calls, t \in Tractors : DeleteRead(c, t)
  <2>1. PICK c \in Calls, t \in Tractors : DeleteRead(c, t)
    BY <1>2
  <2> DEFINE x == [call |-> c, of |-> t, read |-> tractor[t], step |-> "look",
                   saw |-> [b \in Bookings |-> "none"]]
  <2>2. x \in Deletions
    BY DEF Deletions, FleetTypeOK, BookingStatuses
  <2>3. QED BY <1>1, <2>1, <2>2 DEF DeleteRead, FleetTypeOK
<1>3. ASSUME NEW x \in deletions, DeleteLook(x) PROVE FleetTypeOK'
  <2> DEFINE y == [x EXCEPT !.step = "save", !.saw = [b \in Bookings |-> booking[b].status]]
  <2>1. x \in Deletions
    BY DEF FleetTypeOK
  <2>2. [b \in Bookings |-> booking[b].status] \in [Bookings -> BookingStatuses]
    BY DEF FleetTypeOK
  <2>3. y \in Deletions
    BY <2>1, <2>2 DEF Deletions
  <2>4. QED BY <1>1, <1>3, <2>3 DEF DeleteLook, FleetTypeOK
<1>4. ASSUME NEW x \in deletions, DeleteSave(x) PROVE FleetTypeOK'
  <2>1. x.of \in Tractors
    BY DEF FleetTypeOK, Deletions
  <2>2. tractor[x.of] \in Rows
    BY <2>1 DEF FleetTypeOK
  <2> DEFINE a == IF x.read.available THEN FALSE ELSE tractor[x.of].available
             row == [tractor[x.of] EXCEPT !.deleted = TRUE, !.available = a]
  <2>3. row \in Rows
    <3>1. a \in BOOLEAN
      BY <2>2, RowFields
    <3> HIDE DEF a
    <3>2. QED BY <2>2, <3>1 DEF Rows
  <2>4. tractor' = tractor \/ tractor' = [tractor EXCEPT ![x.of] = row]
    BY <1>4, <2>1 DEF DeleteSave, FleetTypeOK
  <2>5. tractor' \in [Tractors -> Rows]
    BY <2>3, <2>4 DEF FleetTypeOK
  <2>6. QED BY <1>1, <1>4, <2>5 DEF DeleteSave, FleetTypeOK
<1>5. QED BY <1>2, <1>3, <1>4

LEMMA ContinueType ==
  ASSUME FleetTypeOK, NEW x \in orders, NEW y \in Orders, Continue(x, y)
  PROVE  FleetTypeOK'
<1>1. TypeOK'
  BY AccountFrame DEF Continue, FleetTypeOK, TypeOK
<1>2. QED BY <1>1 DEF FleetTypeOK, Continue

LEMMA OrderNextType == FleetTypeOK /\ OrderNext => FleetTypeOK'
<1> SUFFICES ASSUME FleetTypeOK, OrderNext PROVE FleetTypeOK'
  OBVIOUS
<1>1. ASSUME NEW c \in Calls, NEW t \in Tractors, NEW s \in Services, ReadTractor(c, t, s)
      PROVE  FleetTypeOK'
  <2> DEFINE x == [call |-> c, of |-> t, operator |-> tractor[t].owner, service |-> s,
                   read |-> tractor[t], vetted |-> None, step |-> "vet"]
  <2>1. tractor[t] \in Rows /\ tractor[t].owner \in Operators
    BY RowFields DEF FleetTypeOK
  <2>2. x \in Orders
    BY <2>1 DEF Orders
  <2>3. TypeOK'
    BY <1>1, AccountFrame DEF ReadTractor, Order, Spend, FleetTypeOK, TypeOK
  <2>4. QED BY <1>1, <2>2, <2>3 DEF FleetTypeOK, ReadTractor, Order
<1>2. ASSUME NEW x \in orders, VetOperator(x) PROVE FleetTypeOK'
  <2>1. x \in Orders
    BY DEF FleetTypeOK
  <2>2. account[x.operator] \in Accounts
    BY <2>1 DEF FleetTypeOK, TypeOK, Orders
  <2>3. [x EXCEPT !.vetted = account[x.operator], !.step = "anyTractor"] \in Orders
    BY <2>1, <2>2 DEF Orders
  <2>4. QED BY <1>2, <2>3, ContinueType DEF VetOperator
<1>3. ASSUME NEW x \in orders, FindAnyTractor(x) PROVE FleetTypeOK'
  <2>1. [x EXCEPT !.step = "insert"] \in Orders
    BY DEF FleetTypeOK, Orders
  <2>2. QED BY <1>3, <2>1, ContinueType DEF FindAnyTractor
<1>4. ASSUME NEW x \in orders, NEW b \in Bookings, InsertBooking(x, b)
      PROVE  FleetTypeOK'
  <2>1. TypeOK'
    BY <1>4, AccountFrame DEF InsertBooking, FleetTypeOK, TypeOK
  <2>2. [of |-> x.of, operator |-> x.operator, status |-> "pending"]
          \in [of : Tractors, operator : Operators, status : BookingStatuses]
    BY DEF FleetTypeOK, Orders, BookingStatuses
  <2>3. QED BY <1>4, <2>1, <2>2 DEF InsertBooking, FleetTypeOK
<1>5. ASSUME NEW b \in Bookings, BookingMoves(b)
      PROVE  FleetTypeOK'
  <2>1. TypeOK'
    BY <1>5, AccountFrame DEF BookingMoves, FleetTypeOK, TypeOK
  <2>2. \A s : NextStatuses(s) \subseteq BookingStatuses
    BY DEF NextStatuses, BookingStatuses
  <2>3. QED BY <1>5, <2>1, <2>2 DEF BookingMoves, FleetTypeOK
<1>6. ASSUME NEW b \in Bookings, StartJobRead(b) \/ StartJobSave(b)
      PROVE  FleetTypeOK'
  <2>1. TypeOK'
    BY <1>6, AccountFrame DEF StartJobRead, StartJobSave, FleetTypeOK, TypeOK
  <2>2. "in_progress" \in BookingStatuses
    BY DEF BookingStatuses
  <2>3. QED BY <1>6, <2>1, <2>2 DEF StartJobRead, StartJobSave, FleetTypeOK
<1>7. QED BY <1>1, <1>2, <1>3, <1>4, <1>5, <1>6 DEF OrderNext

LEMMA TractorNextType == FleetTypeOK /\ TractorNext => FleetTypeOK'
<1> SUFFICES ASSUME FleetTypeOK, TractorNext PROVE FleetTypeOK'
  OBVIOUS
<1>1. ASSUME NEW t \in Tractors, NEW d \in Dated, ExpiryPasses(t, d)
      PROVE  FleetTypeOK'
  <2>1. TypeOK'
    BY <1>1, AccountFrame DEF ExpiryPasses, FleetTypeOK, TypeOK
  <2>2. tractor[t] \in Rows
    BY DEF FleetTypeOK
  <2>3. [tractor[t] EXCEPT !.expiry[d] = None] \in Rows
    <3>1. [tractor[t].expiry EXCEPT ![d] = None] \in [Dated -> Dates \cup {None}]
      BY <2>2, RowFields
    <3>2. QED BY <2>2, <3>1, RowUpdates
  <2>4. QED BY <1>1, <2>1, <2>3 DEF ExpiryPasses, FleetTypeOK
<1>2. QED BY <1>1, SingleWrites, Readings, TractorWriteType, TractorEditType, TractorSaveType,
             DeletionType DEF TractorNext

\* FleetTypeOK: accounts, tractors and requests under way stay what they are declared to
\* be, whatever handlers interleave.
THEOREM Types == Spec => []FleetTypeOK
<1>1. FleetTypeOK /\ [Next]_vars => FleetTypeOK'
  <2> SUFFICES ASSUME FleetTypeOK, [Next]_vars PROVE FleetTypeOK'
    OBVIOUS
  <2>1. CASE AccountNext /\ UNCHANGED fleetVars
    BY <2>1, AccountNextType DEF FleetTypeOK, fleetVars
  <2>2. CASE UNCHANGED vars
    BY <2>2 DEF vars, FleetTypeOK, TypeOK
  <2>3. QED BY <2>1, <2>2, TractorNextType, OrderNextType DEF Next
<1>2. QED BY InitType, <1>1, PTL DEF Spec

-----------------------------------------------------------------------------
(***************************************************************************)
(* The inductive invariant: what a handler carries from its reads to its   *)
(* last write is what it checked.                                          *)
(***************************************************************************)
AccountEditsOK == \A e \in accountEdits : AccountEditOK(e)

TractorEditsOK == \A e \in tractorEdits : TractorEditOK(e)

UnbornKept == \A t \in Tractors : tractor[t].life = "unborn" => ~tractor[t].deleted

OrderOK(x) ==
  /\ x.step # "vet" => MayServe(x.vetted)
  /\ OnOffer(x.read, x.service)
  /\ x.read.owner = x.operator

OrdersOK == \A x \in orders : OrderOK(x)

DeletionOK(x) ==
  \A b \in Bookings : x.saw[b] # "none" =>
    /\ booking[b].status # "none"
    /\ booking[b].of = x.of => x.saw[b] \notin BlocksDeletion
    /\ x.saw[b] = "over" => booking[b].status = "over" \/ b \in starts

DeletionsOK == \A x \in deletions : DeletionOK(x)

StartsOK == \A b \in starts : booking[b].status # "none"

-----------------------------------------------------------------------------
\* Accounts: what a handler has read stays with it.
LEMMA AccountEditsStep ==
  ASSUME TypeOK, AccountEditsOK, AccountNext
  PROVE  AccountEditsOK'
<1>1. CASE \E o \in Operators : Protect(o)
  BY <1>1 DEF Protect, AccountEditsOK, AccountEditOK
<1>2. ASSUME NEW c \in Calls, NEW o \in Operators, NEW doc, Write(c, o, doc)
      PROVE  AccountEditsOK'
  BY <1>2 DEF Write, AccountEditsOK, AccountEditOK
<1>3. ASSUME NEW c \in Calls, NEW o \in Operators,
             SelectRole(c, o) \/ UpdateFarmerProfile(c, o) \/ UpdateOperatorProfile(c, o)
               \/ BlockUser(c, o)
      PROVE  AccountEditsOK'
  BY <1>2, <1>3 DEF SelectRole, UpdateFarmerProfile, UpdateOperatorProfile, BlockUser
<1>4. ASSUME NEW c \in Calls, NEW o \in Operators,
             \/ UploadOperatorDocuments(c, o) \/ VerifyOperator(c, o) \/ RejectOperator(c, o)
             \/ VerifyOperatorDocuments(c, o)
      PROVE  AccountEditsOK'
  <2>1. PICK e : accountEdits' = accountEdits \cup {e} /\ AccountEditOK(e)
    BY <1>4, AccountReadings DEF ReadAccount
  <2>2. QED BY <2>1 DEF AccountEditsOK, AccountEditOK
<1>5. ASSUME NEW e \in accountEdits, SaveAccount(e)
      PROVE  AccountEditsOK'
  BY <1>5 DEF SaveAccount, AccountEditsOK, AccountEditOK
<1>6. QED BY <1>1, <1>3, <1>4, <1>5 DEF AccountNext

\* A single write keeps an approval together with the role and the papers.
LEMMA WritesWellApproved ==
  ASSUME TypeOK, NEW c \in Calls, NEW o \in Operators, NEW u \in Operators,
         SelectRole(c, o) \/ UpdateFarmerProfile(c, o) \/ UpdateOperatorProfile(c, o)
           \/ BlockUser(c, o),
         WellApproved(account[u])
  PROVE  WellApproved(account'[u])
<1>1. account[o] \in Accounts
  BY DEF TypeOK
<1>2. ASSUME NEW doc, Write(c, o, doc), WellApproved(account[o]) => WellApproved(doc)
      PROVE  WellApproved(account'[u])
  <2>1. account'[u] = IF u = o THEN doc ELSE account[u]
    BY <1>2 DEF Write, TypeOK
  <2>2. QED BY <1>2, <2>1
<1>3. CASE SelectRole(c, o)
  <2>1. ~([AsFarmer(account[o]) EXCEPT !.role = "farmer"].status = "approved")
    BY <1>1 DEF AsFarmer, Accounts
  <2>2. WellApproved([AsFarmer(account[o]) EXCEPT !.role = "farmer"])
    BY <2>1 DEF WellApproved
  <2>3. WellApproved(account[o]) => WellApproved([account[o] EXCEPT !.role = "operator"])
    BY <1>1 DEF WellApproved, HasOperatorDocumentsForApproval, Accounts
  <2>4. QED BY <1>2, <1>3, <2>2, <2>3 DEF SelectRole
<1>4. CASE UpdateFarmerProfile(c, o)
  <2>1. AsFarmer(account[o]).status = "pending"
    BY <1>1 DEF AsFarmer, Accounts
  <2>2. WellApproved(AsFarmer(account[o]))
    BY <2>1 DEF WellApproved
  <2>3. QED BY <1>2, <1>4, <2>2 DEF UpdateFarmerProfile
<1>5. CASE UpdateOperatorProfile(c, o)
  <2>1. PICK given \in SUBSET Papers :
          Write(c, o, [account[o] EXCEPT !.papers = @ \cup given])
    BY <1>5 DEF UpdateOperatorProfile, Papers, Scans
  <2>2. WellApproved(account[o]) => WellApproved([account[o] EXCEPT !.papers = @ \cup given])
    BY <1>1 DEF WellApproved, HasOperatorDocumentsForApproval, Accounts
  <2>3. QED BY <1>2, <2>1, <2>2
<1>6. CASE BlockUser(c, o)
  <2>1. PICK b \in BOOLEAN : Write(c, o, [account[o] EXCEPT !.blocked = b])
    BY <1>6 DEF BlockUser
  <2>2. WellApproved(account[o]) => WellApproved([account[o] EXCEPT !.blocked = b])
    BY <1>1 DEF WellApproved, HasOperatorDocumentsForApproval, Accounts
  <2>3. QED BY <1>2, <2>1, <2>2
<1>7. QED BY <1>3, <1>4, <1>5, <1>6

\* So does a save of an account that is still as it was read, except that
\* verifyOperatorDocuments has not looked at the papers, and blanks clear them.
LEMMA SaveWellApproved ==
  ASSUME TypeOK, AccountEditsOK, NEW e \in accountEdits, SaveAccount(e), NEW u \in Operators,
         WellApproved(account[u])
  PROVE  \/ WellApproved(account'[u])
         \/ StaleAccountSave(u)
         \/ (JudgementSaved(u) \/ BlankSaved(u)) /\ account'[u].role = "operator"
<1>1. e \in AccountEdits /\ AccountEditOK(e) /\ e \notin accountEdits'
  BY DEF TypeOK, AccountEditsOK, SaveAccount
<1>2. account'[u] = IF u = e.of THEN SavedAccount(account[u], e) ELSE account[u]
  BY <1>1 DEF SaveAccount, TypeOK, AccountEdits
<1>3. CASE u # e.of
  BY <1>2, <1>3
<1>4. CASE u = e.of /\ e.read # account[u]
  BY <1>1, <1>4 DEF StaleAccountSave
<1>5. CASE u = e.of /\ e.read = account[u]
  <2> DEFINE a == account[u]
             b == account'[u]
  <2>1. a \in Accounts
    BY DEF TypeOK
  <2>2. b = SavedAccount(a, e)
    BY <1>2, <1>5
  <2>3. b.role = a.role /\ b.status = e.new.status
        /\ b.papers = (a.papers \ (a.papers \ e.new.papers)) \cup e.fresh
    BY <1>1, <1>5, <2>1, <2>2, AccountSaved
  <2>4. b.papers = e.new.papers
    BY <1>1, <1>5, <2>3 DEF AccountEditOK
  <2> HIDE DEF a, b
  <2>5. CASE e.by = "verify"
    BY <1>1, <1>5, <2>3, <2>4, <2>5
       DEF AccountEditOK, WellApproved, HasOperatorDocumentsForApproval, a, b
  <2>6. CASE e.by = "judge"
    BY <1>1, <1>5, <2>3, <2>6 DEF AccountEditOK, JudgementSaved, a, b
  <2>7. CASE e.by = "reject"
    BY <1>1, <2>3, <2>7 DEF AccountEditOK, WellApproved, b
  <2>8. CASE e.by = "upload" /\ e.new.status # "approved"
    BY <2>3, <2>8 DEF WellApproved, b
  <2>9. CASE e.by = "upload" /\ e.new.status = "approved"
    <3>1. b.role = "operator"
      BY <1>1, <1>5, <2>3, <2>9 DEF AccountEditOK, WellApproved, a
    <3>2. CASE HasOperatorDocumentsForApproval(e.new)
      BY <2>4, <3>1, <3>2 DEF WellApproved, HasOperatorDocumentsForApproval, b
    <3>3. CASE ~HasOperatorDocumentsForApproval(e.new)
      BY <1>1, <1>5, <2>9, <3>1, <3>3 DEF BlankSaved, b
    <3>4. QED BY <3>2, <3>3
  <2>10. QED BY <1>1, <2>5, <2>6, <2>7, <2>8, <2>9 DEF AccountEdits
<1>6. QED BY <1>3, <1>4, <1>5

-----------------------------------------------------------------------------
\* What a step may do to a tractor.
TractorStep(t) ==
  \/ tractor'[t] = tractor[t]
  \/ \E c \in Calls : AdminUpdateTractor(c, t)
  \/ Registered(t, tractor'[t])
  \/ Alike(tractor'[t], tractor[t])
  \/ \E d \in Dated :
       /\ ExpiryPasses(t, d) /\ tractor'[t].deleted = tractor[t].deleted
       /\ tractor'[t].status = tractor[t].status /\ tractor'[t].verdict = tractor[t].verdict
  \/ \E e \in tractorEdits :
       /\ SaveTractor(e) /\ e.of = t /\ Live(t)
       /\ tractor'[t] = SavedTractor(tractor[t], e)
  \/ \E x \in deletions :
       /\ DeleteSave(x) /\ x.of = t /\ tractor'[t].deleted
       /\ tractor'[t].status = tractor[t].status /\ tractor'[t].verdict = tractor[t].verdict
       /\ tractor'[t].files = tractor[t].files /\ tractor'[t].expiry = tractor[t].expiry

BornClean(t) ==
  tractor'[t].life = "unborn" =>
    tractor[t].life = "unborn" /\ tractor'[t].deleted = tractor[t].deleted

LEMMA TractorSteps ==
  ASSUME FleetTypeOK, TractorNext, NEW u \in Tractors
  PROVE  TractorStep(u) /\ BornClean(u)
<1> DEFINE Goal == TractorStep(u) /\ BornClean(u)
<1>1. ASSUME NEW c \in Calls, NEW t \in Tractors,
             \/ \E o \in Operators : CreateTractor(c, t, o) \/ AdminCreateTractor(c, t, o)
             \/ SetTractorAvailability(c, t) \/ AdminUpdateTractor(c, t) \/ AdminDeleteTractor(c, t)
      PROVE  Goal
  <2>1. PICK row \in Rows :
           /\ WriteTractor(c, t, row)
           /\ \/ AdminUpdateTractor(c, t)
              \/ Registered(t, row)
              \/ Alike(row, tractor[t])
           /\ row.life # "unborn"
    BY <1>1, SingleWrites
  <2>2. tractor'[u] = IF u = t THEN row ELSE tractor[u]
    BY <2>1 DEF WriteTractor, FleetTypeOK
  <2>3. QED BY <2>1, <2>2 DEF TractorStep, BornClean
<1>2. ASSUME tractor' = tractor PROVE Goal
  BY <1>2 DEF TractorStep, BornClean
<1>3. ASSUME NEW c \in Calls, NEW t \in Tractors,
             \/ UploadTractorDocuments(c, t) \/ UpdateTractorBasics(c, t)
             \/ VerifyTractorDocument(c, t) \/ VerifyTractor(c, t) \/ RejectTractor(c, t)
      PROVE  Goal
  <2>1. PICK by, new, fresh : BeginEdit(c, by, t, new, fresh)
    BY <1>3, Readings
  <2>2. QED BY <1>2, <2>1 DEF BeginEdit
<1>4. ASSUME NEW c \in Calls, NEW t \in Tractors, DeleteRead(c, t) PROVE Goal
  BY <1>2, <1>4 DEF DeleteRead
<1>5. ASSUME NEW t \in Tractors, NEW d \in Dated, ExpiryPasses(t, d) PROVE Goal
  <2>1. tractor'[u] = IF u = t THEN [tractor[u] EXCEPT !.expiry[d] = None] ELSE tractor[u]
    BY <1>5 DEF ExpiryPasses, FleetTypeOK
  <2>2. tractor[u] \in Rows
    BY DEF FleetTypeOK
  <2> DEFINE row == [tractor[u] EXCEPT !.expiry[d] = None]
  <2>3. row.deleted = tractor[u].deleted /\ row.status = tractor[u].status
        /\ row.verdict = tractor[u].verdict /\ row.life = tractor[u].life
    BY <2>2 DEF Rows
  <2>4. QED BY <1>5, <2>1, <2>3 DEF TractorStep, BornClean
<1>6. ASSUME NEW e \in tractorEdits, SaveTractor(e) PROVE Goal
  <2>1. e \in TractorEdits
    BY DEF FleetTypeOK
  <2>2. CASE ~Live(e.of) \/ u # e.of
    <3>1. tractor'[u] = tractor[u]
      BY <1>6, <2>1, <2>2 DEF SaveTractor, FleetTypeOK, TractorEdits
    <3>2. QED BY <3>1 DEF TractorStep, BornClean
  <2>3. CASE Live(e.of) /\ u = e.of
    <3>1. tractor'[u] = SavedTractor(tractor[u], e)
      BY <1>6, <2>1, <2>3 DEF SaveTractor, FleetTypeOK, TractorEdits
    <3>2. SavedTractor(tractor[u], e).life = tractor[u].life
      BY DEF SavedTractor, FleetTypeOK, Rows
    <3>3. QED BY <1>6, <2>3, <3>1, <3>2 DEF TractorStep, BornClean, Live
  <2>4. QED BY <2>2, <2>3
<1>7. ASSUME NEW x \in deletions, DeleteLook(x) PROVE Goal
  BY <1>2, <1>7 DEF DeleteLook
<1>8. ASSUME NEW x \in deletions, DeleteSave(x) PROVE Goal
  <2>1. x \in Deletions
    BY DEF FleetTypeOK
  <2>2. CASE ~Live(x.of) \/ u # x.of
    <3>1. tractor'[u] = tractor[u]
      BY <1>8, <2>1, <2>2 DEF DeleteSave, FleetTypeOK, Deletions
    <3>2. QED BY <3>1 DEF TractorStep, BornClean
  <2>3. CASE Live(x.of) /\ u = x.of
    <3> DEFINE a == IF x.read.available THEN FALSE ELSE tractor[u].available
               row == [tractor[u] EXCEPT !.deleted = TRUE, !.available = a]
    <3>1. tractor'[u] = row
      BY <1>8, <2>1, <2>3 DEF DeleteSave, FleetTypeOK, Deletions
    <3>2. tractor[u] \in Rows
      BY DEF FleetTypeOK
    <3> HIDE DEF a
    <3>3. row.deleted /\ row.status = tractor[u].status /\ row.verdict = tractor[u].verdict
          /\ row.files = tractor[u].files /\ row.expiry = tractor[u].expiry
          /\ row.life = tractor[u].life
      BY <3>2 DEF Rows
    <3>4. QED BY <1>8, <2>3, <3>1, <3>3 DEF TractorStep, BornClean, Live
  <2>4. QED BY <2>2, <2>3
<1>9. QED BY <1>1, <1>3, <1>4, <1>5, <1>6, <1>7, <1>8 DEF TractorNext

-----------------------------------------------------------------------------
\* The invariant is kept.
IInv ==
  /\ FleetTypeOK
  /\ AccountEditsOK
  /\ TractorEditsOK
  /\ UnbornKept
  /\ OrdersOK
  /\ DeletionsOK
  /\ StartsOK

LEMMA TractorEditsStep ==
  ASSUME FleetTypeOK, TractorEditsOK, TractorNext
  PROVE  TractorEditsOK'
<1>1. ASSUME NEW c \in Calls, NEW t \in Tractors,
             \/ \E o \in Operators : CreateTractor(c, t, o) \/ AdminCreateTractor(c, t, o)
             \/ SetTractorAvailability(c, t) \/ AdminUpdateTractor(c, t) \/ AdminDeleteTractor(c, t)
      PROVE  TractorEditsOK'
  <2>1. tractorEdits' = tractorEdits
    BY <1>1, SingleWrites DEF WriteTractor
  <2>2. QED BY <2>1 DEF TractorEditsOK, TractorEditOK
<1>2. ASSUME NEW c \in Calls, NEW t \in Tractors,
             \/ UploadTractorDocuments(c, t) \/ UpdateTractorBasics(c, t)
             \/ VerifyTractorDocument(c, t) \/ VerifyTractor(c, t) \/ RejectTractor(c, t)
      PROVE  TractorEditsOK'
  <2>1. PICK e : tractorEdits' = tractorEdits \cup {e} /\ TractorEditOK(e)
    BY <1>2, Readings DEF BeginEdit
  <2>2. QED BY <2>1 DEF TractorEditsOK, TractorEditOK
<1>3. ASSUME NEW t \in Tractors, NEW d \in Dated, ExpiryPasses(t, d) PROVE TractorEditsOK'
  BY <1>3 DEF ExpiryPasses, TractorEditsOK, TractorEditOK
<1>4. ASSUME NEW e \in tractorEdits, SaveTractor(e) PROVE TractorEditsOK'
  BY <1>4 DEF SaveTractor, TractorEditsOK, TractorEditOK
<1>5. CASE UNCHANGED tractorEdits
  BY <1>5 DEF TractorEditsOK, TractorEditOK
<1>6. QED BY <1>1, <1>2, <1>3, <1>4, <1>5 DEF TractorNext, DeleteRead, DeleteLook, DeleteSave

LEMMA OrdersStep ==
  ASSUME FleetTypeOK, OrdersOK, OrderNext
  PROVE  OrdersOK'
<1>1. ASSUME NEW x \in orders, NEW y, Continue(x, y), OrderOK(y) PROVE OrdersOK'
  BY <1>1 DEF Continue, OrdersOK, OrderOK
<1>2. ASSUME NEW c \in Calls, NEW t \in Tractors, NEW s \in Services, ReadTractor(c, t, s)
      PROVE  OrdersOK'
  <2> DEFINE x == [call |-> c, of |-> t, operator |-> tractor[t].owner, service |-> s,
                   read |-> tractor[t], vetted |-> None, step |-> "vet"]
  <2>1. OrderOK(x)
    BY <1>2 DEF ReadTractor, OrderOK
  <2>2. QED BY <1>2, <2>1 DEF ReadTractor, Order, OrdersOK, OrderOK
<1>3. ASSUME NEW x \in orders, VetOperator(x) PROVE OrdersOK'
  <2> DEFINE y == [x EXCEPT !.vetted = account[x.operator], !.step = "anyTractor"]
  <2>1. x \in Orders /\ OrderOK(x)
    BY DEF FleetTypeOK, OrdersOK
  <2>2. y.vetted = account[x.operator] /\ y.step = "anyTractor" /\ y.read = x.read
        /\ y.service = x.service /\ y.operator = x.operator
    BY <2>1 DEF Orders
  <2> HIDE DEF y
  <2>3. OrderOK(y)
    BY <1>3, <2>1, <2>2 DEF VetOperator, OrderOK
  <2>4. QED BY <1>1, <1>3, <2>3 DEF VetOperator, y
<1>4. ASSUME NEW x \in orders, FindAnyTractor(x) PROVE OrdersOK'
  <2> DEFINE y == [x EXCEPT !.step = "insert"]
  <2>1. x \in Orders /\ OrderOK(x)
    BY DEF FleetTypeOK, OrdersOK
  <2>2. y.step = "insert" /\ y.vetted = x.vetted /\ y.read = x.read
        /\ y.service = x.service /\ y.operator = x.operator
    BY <2>1 DEF Orders
  <2> HIDE DEF y
  <2>3. OrderOK(y)
    BY <1>4, <2>1, <2>2 DEF FindAnyTractor, OrderOK
  <2>4. QED BY <1>1, <1>4, <2>3 DEF FindAnyTractor, y
<1>5. ASSUME NEW x \in orders, NEW b \in Bookings, InsertBooking(x, b) PROVE OrdersOK'
  BY <1>5 DEF InsertBooking, OrdersOK, OrderOK
<1>6. ASSUME NEW b \in Bookings, BookingMoves(b) \/ StartJobRead(b) \/ StartJobSave(b)
      PROVE  OrdersOK'
  BY <1>6 DEF BookingMoves, StartJobRead, StartJobSave, OrdersOK, OrderOK
<1>7. QED BY <1>2, <1>3, <1>4, <1>5, <1>6 DEF OrderNext

\* Bookings leave the statuses that block a deletion, and come back from payment_pending
\* only, or by a startJob that read them before.
LEMMA Moves ==
  ASSUME NEW from, NEW to \in NextStatuses(from)
  PROVE  /\ from # "none" /\ from # "over" /\ to # "none"
         /\ to \in BlocksDeletion => from \in BlocksDeletion \/ from = "payment_pending"
BY DEF NextStatuses, BlocksDeletion

LEMMA DeletionsFrame ==
  ASSUME FleetTypeOK, DeletionsOK, deletions' \subseteq deletions,
         OrderNext \/ UNCHANGED <<booking, starts>>
  PROVE  DeletionsOK'
<1>1. SUFFICES ASSUME NEW x \in deletions', NEW b \in Bookings, x.saw[b] # "none"
               PROVE  /\ booking'[b].status # "none"
                      /\ booking'[b].of = x.of => x.saw[b] \notin BlocksDeletion
                      /\ x.saw[b] = "over" => booking'[b].status = "over" \/ b \in starts'
  BY DEF DeletionsOK, DeletionOK
<1>2. /\ booking[b].status # "none"
      /\ booking[b].of = x.of => x.saw[b] \notin BlocksDeletion
      /\ x.saw[b] = "over" => booking[b].status = "over" \/ b \in starts
  BY <1>1 DEF DeletionsOK, DeletionOK
<1>3. CASE UNCHANGED <<booking, starts>>
  BY <1>2, <1>3
<1>4. ASSUME NEW a \in Bookings, BookingMoves(a)
      PROVE  /\ booking'[b].status # "none" /\ booking'[b].of = booking[b].of
             /\ booking[b].status = "over" => booking'[b].status = "over"
             /\ starts' = starts
  <2>1. PICK s \in NextStatuses(booking[a].status) : booking' = [booking EXCEPT ![a].status = s]
    BY <1>4 DEF BookingMoves
  <2>2. booking[a] \in [of : Tractors, operator : Operators, status : BookingStatuses]
    BY DEF FleetTypeOK
  <2>3. booking'[b] = IF a = b THEN [booking[b] EXCEPT !.status = s] ELSE booking[b]
    BY <2>1 DEF FleetTypeOK
  <2>4. starts' = starts
    BY <1>4 DEF BookingMoves
  <2>5. QED BY <1>2, <2>1, <2>2, <2>3, <2>4, Moves
<1>5. ASSUME NEW y \in orders, NEW a \in Bookings, InsertBooking(y, a)
      PROVE  booking'[b] = booking[b] /\ starts' = starts
  BY <1>2, <1>5 DEF InsertBooking, FleetTypeOK
<1>6. ASSUME NEW a \in Bookings, StartJobRead(a)
      PROVE  booking'[b] = booking[b] /\ starts \subseteq starts'
  BY <1>6 DEF StartJobRead
<1>7. ASSUME NEW a \in Bookings, StartJobSave(a)
      PROVE  /\ booking'[b].status # "none" /\ booking'[b].of = booking[b].of
             /\ booking[b].status = "over" => booking'[b].status = "over" \/ b \in starts
             /\ starts' = starts
  <2>1. /\ a \in starts /\ starts' = starts
        /\ booking' = [booking EXCEPT ![a].status = "in_progress"]
    BY <1>7 DEF StartJobSave
  <2>2. booking[b] \in [of : Tractors, operator : Operators, status : BookingStatuses]
    BY DEF FleetTypeOK
  <2>3. booking'[b] = IF a = b THEN [booking[b] EXCEPT !.status = "in_progress"] ELSE booking[b]
    BY <2>1 DEF FleetTypeOK
  <2>4. QED BY <1>2, <2>1, <2>2, <2>3
<1>8. CASE OrderNext
  <2>1. \/ UNCHANGED <<booking, starts>>
        \/ \E a \in Bookings : BookingMoves(a) \/ StartJobRead(a) \/ StartJobSave(a)
        \/ \E y \in orders, a \in Bookings : InsertBooking(y, a)
    BY <1>8 DEF OrderNext, ReadTractor, Order, Continue, VetOperator,
                FindAnyTractor
  <2>2. QED BY <1>2, <1>3, <1>4, <1>5, <1>6, <1>7, <2>1
<1>9. QED BY <1>3, <1>8

\* A booking that startJob has read exists.
LEMMA StartsStep ==
  ASSUME FleetTypeOK, StartsOK, OrderNext
  PROVE  StartsOK'
<1>1. ASSUME NEW b \in Bookings, BookingMoves(b) PROVE StartsOK'
  <2>1. PICK s \in NextStatuses(booking[b].status) : booking' = [booking EXCEPT ![b].status = s]
    BY <1>1 DEF BookingMoves
  <2>2. s # "none" /\ starts' = starts
    BY <1>1, <2>1, Moves DEF BookingMoves
  <2>3. QED BY <2>1, <2>2 DEF StartsOK, FleetTypeOK
<1>2. ASSUME NEW b \in Bookings, StartJobRead(b) PROVE StartsOK'
  BY <1>2 DEF StartJobRead, StartsOK
<1>3. ASSUME NEW b \in Bookings, StartJobSave(b) PROVE StartsOK'
  BY <1>3 DEF StartJobSave, StartsOK, FleetTypeOK
<1>4. ASSUME NEW x \in orders, NEW b \in Bookings, InsertBooking(x, b) PROVE StartsOK'
  BY <1>4 DEF InsertBooking, StartsOK, FleetTypeOK
<1>5. CASE UNCHANGED <<booking, starts>>
  BY <1>5 DEF StartsOK
<1>6. QED BY <1>1, <1>2, <1>3, <1>4, <1>5
          DEF OrderNext, ReadTractor, Order, Continue, VetOperator, FindAnyTractor

LEMMA DeletionsStep ==
  ASSUME FleetTypeOK, DeletionsOK, TractorNext
  PROVE  DeletionsOK'
<1>1. ASSUME NEW x, deletions' \subseteq deletions \cup {x}, DeletionOK(x),
             UNCHANGED <<booking, starts>>
      PROVE  DeletionsOK'
  BY <1>1 DEF DeletionsOK, DeletionOK
<1>2. ASSUME NEW c \in Calls, NEW t \in Tractors, DeleteRead(c, t) PROVE DeletionsOK'
  <2> DEFINE x == [call |-> c, of |-> t, read |-> tractor[t], step |-> "look",
                   saw |-> [b \in Bookings |-> "none"]]
  <2>1. DeletionOK(x)
    BY DEF DeletionOK
  <2>2. QED BY <1>1, <1>2, <2>1 DEF DeleteRead
<1>3. ASSUME NEW x \in deletions, DeleteLook(x) PROVE DeletionsOK'
  <2> DEFINE saw == [b \in Bookings |-> booking[b].status]
             y == [x EXCEPT !.step = "save", !.saw = saw]
  <2>1. x \in Deletions
    BY DEF FleetTypeOK
  <2>2. y.saw = saw /\ y.of = x.of
    BY <2>1 DEF Deletions
  <2>3. \A b \in Bookings : booking[b].of = x.of => booking[b].status \notin BlocksDeletion
    BY <1>3 DEF DeleteLook, BookingsOf
  <2> HIDE DEF y
  <2>4. DeletionOK(y)
    BY <2>2, <2>3 DEF DeletionOK
  <2>5. QED BY <1>1, <1>3, <2>4 DEF DeleteLook, y
<1>4. CASE deletions' \subseteq deletions /\ UNCHANGED <<booking, starts>>
  BY <1>4, DeletionsFrame
<1>5. ASSUME NEW c \in Calls, NEW t \in Tractors,
             \/ \E o \in Operators : CreateTractor(c, t, o) \/ AdminCreateTractor(c, t, o)
             \/ SetTractorAvailability(c, t) \/ AdminUpdateTractor(c, t) \/ AdminDeleteTractor(c, t)
             \/ UploadTractorDocuments(c, t) \/ UpdateTractorBasics(c, t)
             \/ VerifyTractorDocument(c, t) \/ VerifyTractor(c, t) \/ RejectTractor(c, t)
      PROVE  UNCHANGED <<deletions, booking, starts>>
  BY <1>5, SingleWrites, Readings DEF WriteTractor, BeginEdit
<1>6. QED BY <1>2, <1>3, <1>4, <1>5
          DEF TractorNext, ExpiryPasses, SaveTractor, DeleteSave

LEMMA Framing ==
  ASSUME FleetTypeOK
  PROVE  /\ TractorNext => UNCHANGED <<account, accountEdits, orders, booking, starts>>
         /\ OrderNext => UNCHANGED <<account, accountEdits, tractor, tractorEdits, deletions>>
<1>1. ASSUME NEW c \in Calls, NEW t \in Tractors,
             \/ \E o \in Operators : CreateTractor(c, t, o) \/ AdminCreateTractor(c, t, o)
             \/ SetTractorAvailability(c, t) \/ AdminUpdateTractor(c, t) \/ AdminDeleteTractor(c, t)
             \/ UploadTractorDocuments(c, t) \/ UpdateTractorBasics(c, t)
             \/ VerifyTractorDocument(c, t) \/ VerifyTractor(c, t) \/ RejectTractor(c, t)
      PROVE  UNCHANGED <<accountVars, orders, booking, starts>>
  BY <1>1, SingleWrites, Readings DEF WriteTractor, BeginEdit
<1>2. TractorNext => UNCHANGED <<account, accountEdits, orders, booking, starts>>
  BY <1>1 DEF TractorNext, DeleteRead, ExpiryPasses, SaveTractor, DeleteLook, DeleteSave,
              accountVars
<1>3. OrderNext => UNCHANGED <<account, accountEdits, tractor, tractorEdits, deletions>>
  BY DEF OrderNext, ReadTractor, Order, Continue, VetOperator,
                FindAnyTractor, InsertBooking, BookingMoves, StartJobRead, StartJobSave, accountVars
<1>4. QED BY <1>2, <1>3

LEMMA InitIInv == Init => IInv
<1> SUFFICES ASSUME Init PROVE IInv
  OBVIOUS
<1>1. UnbornKept
  <2>1. \A o \in Operators : \A row \in StartRows(o) : row.deleted = FALSE
    BY DEF StartRows, HandedIn, Unborn, NewRow
  <2>2. QED BY <2>1 DEF Init, UnbornKept
<1>2. QED BY <1>1, InitType
          DEF IInv, Init, AccountInit, AccountEditsOK, TractorEditsOK, OrdersOK, DeletionsOK, StartsOK

LEMMA NextIInv == IInv /\ [Next]_vars => IInv'
<1> SUFFICES ASSUME IInv, [Next]_vars PROVE IInv'
  OBVIOUS
<1>1. FleetTypeOK /\ TypeOK
  BY DEF IInv, FleetTypeOK
<1>2. CASE AccountNext /\ UNCHANGED fleetVars
  <2>1. FleetTypeOK' /\ AccountEditsOK'
    BY <1>1, <1>2, AccountNextType, AccountEditsStep DEF IInv, FleetTypeOK, fleetVars
  <2>2. QED BY <1>2, <2>1
            DEF IInv, fleetVars, TractorEditsOK, TractorEditOK, UnbornKept, OrdersOK, OrderOK,
                DeletionsOK, DeletionOK, StartsOK
<1>3. CASE TractorNext
  <2>1. FleetTypeOK' /\ TractorEditsOK' /\ DeletionsOK'
    BY <1>1, <1>3, TractorNextType, TractorEditsStep, DeletionsStep DEF IInv
  <2>2. UnbornKept'
    BY <1>1, <1>3, TractorSteps DEF IInv, UnbornKept, BornClean
  <2>3. AccountEditsOK' /\ OrdersOK' /\ StartsOK'
    BY <1>1, <1>3, Framing DEF IInv, AccountEditsOK, AccountEditOK, OrdersOK, OrderOK, StartsOK
  <2>4. QED BY <2>1, <2>2, <2>3 DEF IInv
<1>4. CASE OrderNext
  <2>1. FleetTypeOK' /\ OrdersOK' /\ StartsOK'
    BY <1>1, <1>4, OrderNextType, OrdersStep, StartsStep DEF IInv
  <2>2. DeletionsOK'
    BY <1>1, <1>4, DeletionsFrame, Framing DEF IInv
  <2>3. AccountEditsOK' /\ TractorEditsOK' /\ UnbornKept'
    BY <1>4, Framing DEF IInv, AccountEditsOK, AccountEditOK, TractorEditsOK, TractorEditOK,
                         UnbornKept
  <2>4. QED BY <2>1, <2>2, <2>3 DEF IInv
<1>5. CASE UNCHANGED vars
  BY <1>5 DEF vars, IInv, FleetTypeOK, TypeOK, AccountEditsOK, AccountEditOK, TractorEditsOK,
              TractorEditOK, UnbornKept, OrdersOK, OrderOK, DeletionsOK, DeletionOK,
              StartsOK
<1>6. QED BY <1>2, <1>3, <1>4, <1>5 DEF Next

LEMMA Invariant == Spec => []IInv
BY InitIInv, NextIInv, PTL DEF Spec

-----------------------------------------------------------------------------
\* OnlyOverlapsMisapprove: an approval and its role part only by saves that overlap; its
\* papers are missing also when verifyOperatorDocuments gave it, or an upload of blanks
\* cleared them.
THEOREM Approval == Spec => OnlyOverlapsMisapprove
<1>1. IInv /\ [Next]_vars =>
        [\A o \in Operators :
           WellApproved(account[o]) =>
             \/ WellApproved(account'[o])
             \/ StaleAccountSave(o)
             \/ (JudgementSaved(o) \/ BlankSaved(o)) /\ account'[o].role = "operator"]_<<account, seen, accountEdits, spent>>
  <2> SUFFICES ASSUME IInv, [Next]_vars, NEW o \in Operators, WellApproved(account[o])
               PROVE  \/ WellApproved(account'[o])
                      \/ StaleAccountSave(o)
                      \/ (JudgementSaved(o) \/ BlankSaved(o)) /\ account'[o].role = "operator"
    OBVIOUS
  <2>1. FleetTypeOK /\ TypeOK /\ AccountEditsOK
    BY DEF IInv, FleetTypeOK
  <2>2. CASE UNCHANGED account
    BY <2>2
  <2>3. CASE AccountNext
    <3>1. ASSUME NEW c \in Calls, NEW u \in Operators,
                 \/ UploadOperatorDocuments(c, u) \/ VerifyOperator(c, u) \/ RejectOperator(c, u)
                 \/ VerifyOperatorDocuments(c, u)
          PROVE  UNCHANGED account
      BY <3>1 DEF UploadOperatorDocuments, VerifyOperator, RejectOperator,
                  VerifyOperatorDocuments, Judge, ReadAccount
    <3>2. QED BY <2>1, <2>2, <2>3, <3>1, WritesWellApproved, SaveWellApproved
              DEF AccountNext, Protect
  <2>4. QED BY <2>1, <2>2, <2>3, Framing DEF Next, vars
<1>2. QED BY Invariant, <1>1, PTL DEF Spec, OnlyOverlapsMisapprove

\* A save of a tractor that is still as it was read leaves the status that goes with
\* the verdicts.
LEMMA SaveJudges ==
  ASSUME FleetTypeOK, TractorEditsOK, NEW e \in tractorEdits, NEW t \in Tractors,
         e.of = t, e.read = tractor[t], tractor[t].status = Derived(tractor[t].verdict)
  PROVE  SavedTractor(tractor[t], e).status = Derived(SavedTractor(tractor[t], e).verdict)
<1>1. e \in TractorEdits /\ TractorEditOK(e) /\ tractor[t] \in Rows
  BY DEF FleetTypeOK, TractorEditsOK
<1>2. e.new \in Rows /\ e.read \in Rows
  BY <1>1 DEF TractorEdits
<1> DEFINE row == SavedTractor(tractor[t], e)
<1>3. row.status = Field(tractor[t].status, e.read.status, e.new.status)
      /\ row.verdict = [d \in Documents |-> Field(tractor[t].verdict[d], e.read.verdict[d],
                                                   e.new.verdict[d])]
  BY <1>1 DEF SavedTractor, Rows
<1>4. row.status = e.new.status
  BY <1>3 DEF Field
<1>5. row.verdict = e.new.verdict
  <2>1. e.new.verdict \in [Documents -> Verdicts]
    BY <1>2, RowFields
  <2>2. \A d \in Documents : Field(tractor[t].verdict[d], e.read.verdict[d], e.new.verdict[d])
                               = e.new.verdict[d]
    BY DEF Field
  <2>3. QED BY <1>3, <2>1, <2>2
<1>6. QED BY <1>1, <1>4, <1>5 DEF TractorEditOK

\* OnlyOverlapsMisjudge: status and verdicts of a tractor part only by saves that
\* overlap, or by an admin's word.
THEOREM Judgement == Spec => OnlyOverlapsMisjudge
<1>1. IInv /\ [Next]_vars =>
        [\A t \in Tractors :
           Live(t) /\ tractor[t].status = Derived(tractor[t].verdict) =>
             \/ tractor'[t].status = Derived(tractor'[t].verdict)
             \/ StaleTractorSave(t)
             \/ \E c \in Calls : AdminUpdateTractor(c, t)]_vars
  <2> SUFFICES ASSUME IInv, [Next]_vars, NEW t \in Tractors, Live(t),
                      tractor[t].status = Derived(tractor[t].verdict)
               PROVE  \/ tractor'[t].status = Derived(tractor'[t].verdict)
                      \/ StaleTractorSave(t)
                      \/ \E c \in Calls : AdminUpdateTractor(c, t)
    OBVIOUS
  <2>1. FleetTypeOK /\ TractorEditsOK
    BY DEF IInv
  <2>2. CASE UNCHANGED tractor
    BY <2>2
  <2>3. CASE TractorNext
    <3>1. TractorStep(t)
      BY <2>1, <2>3, TractorSteps
    <3>2. ASSUME NEW e \in tractorEdits, SaveTractor(e), e.of = t,
                 tractor'[t] = SavedTractor(tractor[t], e)
          PROVE  tractor'[t].status = Derived(tractor'[t].verdict) \/ StaleTractorSave(t)
      <4>1. CASE e.read = tractor[t]
        BY <2>1, <3>2, <4>1, SaveJudges
      <4>2. CASE e.read # tractor[t]
        BY <3>2, <4>2 DEF StaleTractorSave, SaveTractor
      <4>3. QED BY <4>1, <4>2
    <3>3. QED BY <3>1, <3>2 DEF TractorStep, Live, Registered, Alike
  <2>4. QED BY <2>1, <2>2, <2>3, Framing DEF Next, vars, fleetVars
<1>2. QED BY Invariant, <1>1, PTL DEF Spec, OnlyOverlapsMisjudge

\* A save of a tractor that is still as it was read leaves the papers as the handler made
\* them, and an approval with all of them, unless it came from verdicts alone.
LEMMA SaveKeepsPapers ==
  ASSUME FleetTypeOK, TractorEditsOK, NEW e \in tractorEdits, NEW t \in Tractors,
         e.of = t, e.read = tractor[t], WellPapered(tractor[t]),
         e.by \in {"upload", "judge"} => e.read.status = "approved"
  PROVE  WellPapered(SavedTractor(tractor[t], e))
<1>1. e \in TractorEdits /\ TractorEditOK(e) /\ tractor[t] \in Rows
  BY DEF FleetTypeOK, TractorEditsOK
<1>2. e.new \in Rows /\ e.read \in Rows
  BY <1>1 DEF TractorEdits
<1> DEFINE row == SavedTractor(tractor[t], e)
<1>3. /\ row.status = Field(tractor[t].status, e.read.status, e.new.status)
      /\ row.expiry = [d \in Dated |-> Field(tractor[t].expiry[d], e.read.expiry[d],
                                              e.new.expiry[d])]
      /\ row.files = (tractor[t].files \ (e.read.files \ e.new.files)) \cup e.fresh
  BY <1>1 DEF SavedTractor, Rows
<1>4. row.status = e.new.status
  BY <1>3 DEF Field
<1>5. \A d \in Dated : row.expiry[d] = e.new.expiry[d]
  BY <1>3 DEF Field
<1>6. row.files = e.new.files
  BY <1>1, <1>3 DEF TractorEditOK
<1> HIDE DEF row
<1>7. SUFFICES ASSUME e.new.status = "approved" PROVE Complete(e.new)
  BY <1>4, <1>5, <1>6 DEF WellPapered, Complete, row
<1>8. CASE e.by = "upload"
  BY <1>1, <1>8 DEF TractorEditOK
<1>9. CASE e.by # "upload"
  <2>1. Complete(e.read)
    BY <1>1, <1>7, <1>9 DEF TractorEditOK, TractorEdits, WellPapered
  <2>2. QED BY <1>1, <1>9, <2>1 DEF TractorEditOK, Complete
<1>10. QED BY <1>8, <1>9

\* OnlyOverlapsStripPapers: an approved tractor is without its papers only by saves that
\* overlap, by verdicts alone, by a date that passes, or by an admin's word.
THEOREM Papered == Spec => OnlyOverlapsStripPapers
<1> DEFINE Excused(t) ==
      \/ WellPapered(tractor'[t])
      \/ StaleTractorSave(t)
      \/ ApprovedByVerdicts(t)
      \/ \E d \in Dated : ExpiryPasses(t, d)
      \/ \E c \in Calls : AdminUpdateTractor(c, t)
      \/ \E c \in Calls, o \in Operators : AdminCreateTractor(c, t, o)
<1>1. IInv /\ [Next]_vars => [\A t \in Tractors : WellPapered(tractor[t]) => Excused(t)]_vars
  <2> SUFFICES ASSUME IInv, [Next]_vars, NEW t \in Tractors, WellPapered(tractor[t])
               PROVE  Excused(t)
    OBVIOUS
  <2>1. FleetTypeOK /\ TractorEditsOK
    BY DEF IInv
  <2>2. CASE UNCHANGED tractor
    BY <2>2
  <2>3. CASE TractorNext
    <3>1. TractorStep(t)
      BY <2>1, <2>3, TractorSteps
    <3>2. ASSUME NEW e \in tractorEdits, SaveTractor(e), e.of = t,
                 tractor'[t] = SavedTractor(tractor[t], e)
          PROVE  Excused(t)
      <4>1. e \notin tractorEdits'
        BY <3>2 DEF SaveTractor
      <4>2. CASE e.read # tractor[t]
        BY <3>2, <4>1, <4>2 DEF StaleTractorSave
      <4>3. CASE e.by \in {"upload", "judge"} /\ e.read.status # "approved"
        BY <3>2, <4>1, <4>3 DEF ApprovedByVerdicts
      <4>4. CASE e.read = tractor[t] /\ (e.by \in {"upload", "judge"} => e.read.status = "approved")
        BY <2>1, <3>2, <4>4, SaveKeepsPapers
      <4>5. QED BY <4>2, <4>3, <4>4
    <3>3. Registered(t, tractor'[t]) => Excused(t)
      BY DEF Registered, WellPapered
    <3>4. ASSUME tractor'[t].status = tractor[t].status, tractor'[t].files = tractor[t].files,
                 tractor'[t].expiry = tractor[t].expiry
          PROVE  WellPapered(tractor'[t])
      BY <3>4 DEF WellPapered, Complete
    <3> HIDE DEF Excused
    <3>5. CASE Alike(tractor'[t], tractor[t])
      BY <3>4, <3>5 DEF Alike, Excused
    <3>6. QED BY <3>1, <3>2, <3>3, <3>4, <3>5 DEF TractorStep, Excused
  <2>4. QED BY <2>1, <2>2, <2>3, Framing DEF Next, vars, fleetVars
<1>2. QED BY Invariant, <1>1, PTL DEF Spec, OnlyOverlapsStripPapers

\* DeletedStays: no handler but an admin's takes the mark of deletion away.
THEOREM Deleted == Spec => DeletedStays
<1>1. IInv /\ [Next]_vars =>
        [\A t \in Tractors :
           tractor[t].deleted =>
             tractor'[t].deleted \/ \E c \in Calls : AdminUpdateTractor(c, t)]_vars
  <2> SUFFICES ASSUME IInv, [Next]_vars, NEW t \in Tractors, tractor[t].deleted
               PROVE  tractor'[t].deleted \/ \E c \in Calls : AdminUpdateTractor(c, t)
    OBVIOUS
  <2>1. FleetTypeOK /\ tractor[t].life # "unborn" /\ tractor[t] \in Rows
    BY DEF IInv, UnbornKept, FleetTypeOK
  <2>2. CASE UNCHANGED tractor
    BY <2>2
  <2>3. CASE TractorNext
    <3>1. TractorStep(t)
      BY <2>1, <2>3, TractorSteps
    <3>2. \A e \in tractorEdits : SavedTractor(tractor[t], e).deleted = tractor[t].deleted
      BY <2>1 DEF SavedTractor, Rows
    <3>3. QED BY <2>1, <3>1, <3>2 DEF TractorStep, Registered, Alike
  <2>4. QED BY <2>1, <2>2, <2>3, Framing DEF Next, vars, fleetVars
<1>2. QED BY Invariant, <1>1, PTL DEF Spec, DeletedStays

\* BookedOnOffer: a booking is made on what was read of tractor and account.
THEOREM Offers == Spec => BookedOnOffer
<1> DEFINE Good(b) ==
      booking[b].status = "none" /\ booking'[b].status # "none" =>
        \E x \in orders \ orders' :
          LET t == booking'[b].of
              o == booking'[b].operator
          IN /\ x.of = t /\ x.operator = o
             /\ tractor[t] = x.read /\ account[o] = x.vetted =>
                  MayServe(account[o]) /\ tractor[t].owner = o /\ OnOffer(tractor[t], x.service)
<1>1. IInv /\ [Next]_vars => [\A b \in Bookings : Good(b)]_vars
  <2> SUFFICES ASSUME IInv, [Next]_vars, NEW b \in Bookings,
                      booking[b].status = "none", booking'[b].status # "none"
               PROVE  Good(b)
    OBVIOUS
  <2>1. FleetTypeOK /\ OrdersOK /\ StartsOK
    BY DEF IInv
  <2>2. booking' # booking
    OBVIOUS
  <2>3. OrderNext
    BY <2>1, <2>2, Framing DEF Next, vars, fleetVars
  <2>4. ASSUME NEW a \in Bookings, BookingMoves(a) PROVE FALSE
    <3>1. PICK s \in NextStatuses(booking[a].status) : booking' = [booking EXCEPT ![a].status = s]
      BY <2>4 DEF BookingMoves
    <3>2. a = b
      BY <2>1, <3>1 DEF FleetTypeOK
    <3>3. QED BY <3>1, <3>2, Moves
  <2>5. PICK x \in orders, a \in Bookings : InsertBooking(x, a)
    <3>1. ASSUME NEW a \in Bookings, StartJobSave(a) PROVE FALSE
      <4>1. a = b
        BY <2>1, <3>1 DEF StartJobSave, FleetTypeOK
      <4>2. QED BY <2>1, <3>1, <4>1 DEF StartJobSave, StartsOK
    <3>2. QED BY <2>2, <2>3, <2>4, <3>1 DEF OrderNext, ReadTractor, Order, Continue, VetOperator,
                FindAnyTractor, StartJobRead
  <2>6. booking'[b] = [of |-> x.of, operator |-> x.operator, status |-> "pending"]
    BY <2>1, <2>5 DEF InsertBooking, FleetTypeOK
  <2>7. x \in orders \ orders' /\ OrderOK(x) /\ x.step = "insert"
    BY <2>1, <2>5 DEF InsertBooking, OrdersOK
  <2>8. QED BY <2>6, <2>7 DEF OrderOK
<1>2. QED BY Invariant, <1>1, PTL DEF Spec, BookedOnOffer

\* DeletionSparesWork: a deleted tractor meets work in four ways only.
THEOREM Deletion == Spec => DeletionSparesWork
<1> DEFINE Excused(b) ==
      \/ \E x \in orders \ orders' : x.of = booking'[b].of /\ ~x.read.deleted
      \/ booking[b].status = "payment_pending"
      \/ (booking[b].status = "over" /\ StartJobSave(b))
      \/ \E x \in deletions \ deletions' :
           /\ x.of = booking[b].of
           /\ \/ x.saw[b] \in {"none", "payment_pending"}
              \/ x.saw[b] = "over" /\ b \in starts
      \/ \E c \in Calls : AdminUpdateTractor(c, booking[b].of)
<1>1. IInv /\ [Next]_vars =>
        [\A b \in Bookings : ~WorkOnDeleted(b) /\ WorkOnDeleted(b)' => Excused(b)]_vars
  <2> SUFFICES ASSUME IInv, [Next]_vars, NEW b \in Bookings, ~WorkOnDeleted(b), WorkOnDeleted(b)'
               PROVE  Excused(b)
    OBVIOUS
  <2>1. FleetTypeOK /\ OrdersOK /\ DeletionsOK /\ UnbornKept /\ StartsOK
    BY DEF IInv
  <2>2. booking[b].of \in Tractors /\ booking[b].status \in BookingStatuses
    BY <2>1 DEF FleetTypeOK
  <2>3. booking'[b].status \in BlocksDeletion /\ tractor'[booking'[b].of].deleted
    BY DEF WorkOnDeleted
  <2>4. ~(UNCHANGED <<tractor, booking>>)
    BY <2>3 DEF WorkOnDeleted
  <2>5. CASE OrderNext
    <3>1. tractor' = tractor /\ booking' # booking
      BY <2>1, <2>4, <2>5, Framing
    <3>2. CASE \E a \in Bookings : BookingMoves(a)
      <4>1. PICK a \in Bookings :
              \E s \in NextStatuses(booking[a].status) : booking' = [booking EXCEPT ![a].status = s]
        BY <3>2 DEF BookingMoves
      <4>2. a = b
        BY <2>1, <2>3, <3>1, <4>1 DEF FleetTypeOK, WorkOnDeleted
      <4>3. /\ booking'[b].of = booking[b].of
            /\ booking'[b].status \in NextStatuses(booking[b].status)
        BY <2>1, <4>1, <4>2 DEF FleetTypeOK
      <4>4. QED BY <2>3, <3>1, <4>3, Moves DEF WorkOnDeleted
    <3>3. CASE \E x \in orders, a \in Bookings : InsertBooking(x, a)
      <4>1. PICK x \in orders, a \in Bookings : InsertBooking(x, a)
        BY <3>3
      <4>2. a = b
        BY <2>1, <2>3, <3>1, <4>1 DEF InsertBooking, FleetTypeOK, WorkOnDeleted
      <4>3. booking'[b].of = x.of /\ x \in orders \ orders'
        BY <2>1, <4>1, <4>2 DEF InsertBooking, FleetTypeOK
      <4>4. ~x.read.deleted
        BY <2>1, <4>1 DEF InsertBooking, OrdersOK, OrderOK, OnOffer, Offered
      <4>5. QED BY <4>3, <4>4
    <3>4. CASE \E a \in Bookings : StartJobSave(a)
      <4>1. PICK a \in Bookings :
              a \in starts /\ booking' = [booking EXCEPT ![a].status = "in_progress"] /\ StartJobSave(a)
        BY <3>4 DEF StartJobSave
      <4>2. a = b
        BY <2>1, <2>3, <3>1, <4>1 DEF FleetTypeOK, WorkOnDeleted
      <4>3. booking[b].status \notin BlocksDeletion
        BY <2>1, <2>3, <3>1, <4>1, <4>2 DEF FleetTypeOK, WorkOnDeleted
      <4>4. booking[b].status \in {"payment_pending", "over"}
        BY <2>1, <2>2, <4>1, <4>2, <4>3 DEF BookingStatuses, BlocksDeletion, StartsOK
      <4>5. QED BY <4>1, <4>2, <4>4
    <3>5. QED BY <2>5, <3>1, <3>2, <3>3, <3>4 DEF OrderNext, ReadTractor, Order, Continue,
                  VetOperator, FindAnyTractor, StartJobRead
  <2>6. CASE TractorNext
    <3> DEFINE t == booking[b].of
    <3>1. booking' = booking /\ ~tractor[t].deleted /\ tractor'[t].deleted
      BY <2>1, <2>3, <2>6, Framing DEF WorkOnDeleted
    <3>2. TractorStep(t)
      BY <2>1, <2>2, <2>6, TractorSteps
    <3>3. \A e \in tractorEdits : SavedTractor(tractor[t], e).deleted = tractor[t].deleted
      BY <2>1, <2>2 DEF SavedTractor, Rows, FleetTypeOK
    <3>4. ASSUME NEW x \in deletions, DeleteSave(x), x.of = t
          PROVE  /\ x \in deletions \ deletions'
                 /\ \/ x.saw[b] \in {"none", "payment_pending"}
                    \/ x.saw[b] = "over" /\ b \in starts
      <4>1. x.saw[b] \in BookingStatuses
        BY <2>1 DEF FleetTypeOK, Deletions
      <4>2. /\ x.saw[b] # "none" => x.saw[b] \notin BlocksDeletion
            /\ x.saw[b] = "over" => b \in starts
        BY <2>1, <2>3, <3>1, <3>4 DEF DeletionsOK, DeletionOK, BlocksDeletion
      <4>3. QED BY <3>4, <4>1, <4>2 DEF BookingStatuses, BlocksDeletion, DeleteSave
    <3> HIDE DEF t
    <3>5. QED BY <3>1, <3>2, <3>3, <3>4 DEF TractorStep, Registered, Alike, t
  <2>7. QED BY <2>4, <2>5, <2>6 DEF Next, vars, fleetVars
<1>2. QED BY Invariant, <1>1, PTL DEF Spec, DeletionSparesWork

=============================================================================
