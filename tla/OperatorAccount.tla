---------------------------- MODULE OperatorAccount ----------------------------
(***************************************************************************)
(* What decides whether an account may serve bookings: its role, the       *)
(* papers an operator hands in, their verification by admins, and the      *)
(* block.  The verified flags of single papers are left out: they stand in *)
(* for the status only on accounts that predate it.                        *)
(***************************************************************************)
EXTENDS Naturals

CONSTANTS
  Operators,  \* accounts that may take the role of operator
  Calls       \* HTTP requests, each handled once

Scans == {"aadhaar", "license"}
Papers == {"number"} \cup Scans
Verdicts == {"pending", "approved", "rejected"}
Roles == {"none", "farmer", "operator"}

Accounts == [role : Roles, status : Verdicts, papers : SUBSET Papers, blocked : BOOLEAN]

\* A handler between its read of the account and its save(): what it read, what it
\* made of it, and the papers it was given anew.
AccountEdits ==
  [call : Calls, by : {"upload", "verify", "reject", "judge"}, of : Operators,
   read : Accounts, new : Accounts, fresh : SUBSET Papers]

VARIABLES
  account,       \* operator -> its user document
  seen,          \* operator -> the role that protect last put on a request of theirs
  accountEdits,  \* handlers about to save an account
  spent          \* calls begun

accountVars == <<account, seen, accountEdits>>

TypeOK ==
  /\ account \in [Operators -> Accounts]
  /\ seen \in [Operators -> Roles \cup {"blocked"}]
  /\ accountEdits \subseteq AccountEdits
  /\ spent \subseteq Calls

NewAccount == [role |-> "none", status |-> "pending", papers |-> {}, blocked |-> FALSE]
PendingOperator == [NewAccount EXCEPT !.role = "operator", !.papers = Papers]
ApprovedOperator == [PendingOperator EXCEPT !.status = "approved"]

\* Accounts as the runs find them, all reachable from NewAccount.
AccountInit ==
  /\ account \in [Operators -> {NewAccount, PendingOperator, ApprovedOperator}]
  /\ seen = [o \in Operators |-> account[o].role]
  /\ accountEdits = {}

Spend(c) == c \notin spent /\ spent' = spent \cup {c}

(***************************************************************************)
(* protect puts the account on the request from a cache of 60 seconds, and *)
(* a request may be under way for long after: handlers decide on the role  *)
(* as it was seen.                                                         *)
(***************************************************************************)
Protect(o) ==
  /\ seen' = [seen EXCEPT ![o] = IF account[o].blocked THEN "blocked" ELSE account[o].role]
  /\ UNCHANGED <<account, accountEdits, spent>>

(***************************************************************************)
(* Handlers that write with one findOneAndUpdate.                          *)
(***************************************************************************)
Write(c, o, doc) ==
  /\ Spend(c)
  /\ account' = [account EXCEPT ![o] = doc]
  /\ UNCHANGED <<seen, accountEdits>>

AsFarmer(a) == [a EXCEPT !.papers = {}, !.status = "pending"]

\* Mutant: a change of role keeps what was verified.
SelectRoleOnly(c, o) ==
  /\ seen[o] # "blocked"
  /\ \E r \in {"farmer", "operator"} : Write(c, o, [account[o] EXCEPT !.role = r])

SelectRole(c, o) ==
  /\ seen[o] # "blocked"
  /\ \/ Write(c, o, [AsFarmer(account[o]) EXCEPT !.role = "farmer"])
     \/ Write(c, o, [account[o] EXCEPT !.role = "operator"])

UpdateFarmerProfile(c, o) ==
  /\ seen[o] = "farmer"
  /\ Write(c, o, AsFarmer(account[o]))

UpdateOperatorProfile(c, o) ==
  /\ seen[o] = "operator"
  /\ \E given \in {{"number"}, {"number", "aadhaar"}} :
       Write(c, o, [account[o] EXCEPT !.papers = @ \cup given])

BlockUser(c, o) ==
  /\ account[o].role # "none"
  /\ \E b \in BOOLEAN : Write(c, o, [account[o] EXCEPT !.blocked = b])

(***************************************************************************)
(* Handlers that read the account, change it and save it.                  *)
(***************************************************************************)
ReadAccount(c, by, o, new, fresh) ==
  /\ accountEdits' = accountEdits \cup
       {[call |-> c, by |-> by, of |-> o, read |-> account[o], new |-> new, fresh |-> fresh]}
  /\ UNCHANGED <<account, seen>>

\* Both scans are asked for, but blanks pass and are trimmed to nothing: they clear
\* what was there.  Neither fresh nor blank is the paper as it was.
UploadOperatorDocuments(c, o) ==
  /\ seen[o] = "operator"
  /\ Spend(c)
  /\ \E fresh \in SUBSET Scans : \E blank \in SUBSET ((Scans \ fresh) \cap account[o].papers) :
       ReadAccount(c, "upload", o,
         [account[o] EXCEPT !.papers = (@ \cup fresh) \ blank,
                            !.status = IF @ = "rejected" THEN "pending" ELSE @],
         fresh)

HasOperatorDocumentsForApproval(a) == a.papers = Papers

Judge(c, by, o, status) ==
  /\ Spend(c)
  /\ ReadAccount(c, by, o, [account[o] EXCEPT !.status = status], {})

VerifyOperator(c, o) ==
  /\ account[o].role = "operator"
  /\ HasOperatorDocumentsForApproval(account[o])
  /\ Judge(c, "verify", o, "approved")

RejectOperator(c, o) ==
  /\ account[o].role = "operator"
  /\ Judge(c, "reject", o, "rejected")

\* Both papers are judged; that they exist is not checked.
VerifyOperatorDocuments(c, o) ==
  /\ account[o].role = "operator"
  /\ \E verdict \in {"approved", "rejected"} : Judge(c, "judge", o, verdict)

\* save() writes the paths whose value the handler changed; a fresh paper is new in
\* any case.
SavedAccount(now, e) ==
  [now EXCEPT !.status = IF e.new.status = e.read.status THEN @ ELSE e.new.status,
              !.papers = (@ \ (e.read.papers \ e.new.papers)) \cup e.fresh]

SaveAccount(e) ==
  /\ e \in accountEdits
  /\ account' = [account EXCEPT ![e.of] = SavedAccount(@, e)]
  /\ accountEdits' = accountEdits \ {e}
  /\ UNCHANGED <<seen, spent>>

AccountNext ==
  \/ \E o \in Operators : Protect(o)
  \/ \E c \in Calls, o \in Operators :
       \/ SelectRole(c, o) \/ UpdateFarmerProfile(c, o) \/ UpdateOperatorProfile(c, o)
       \/ BlockUser(c, o) \/ UploadOperatorDocuments(c, o)
       \/ VerifyOperator(c, o) \/ RejectOperator(c, o) \/ VerifyOperatorDocuments(c, o)
  \/ \E e \in accountEdits : SaveAccount(e)

(***************************************************************************)
(* Properties                                                              *)
(***************************************************************************)
\* An approved account is an operator's, with the papers approval asks for.
WellApproved(a) == a.status = "approved" => a.role = "operator" /\ HasOperatorDocumentsForApproval(a)

\* A handler saves an account that is not as it read it.
StaleAccountSave(o) ==
  \E e \in accountEdits : e \notin accountEdits' /\ e.of = o /\ e.read # account[o]

\* verifyOperatorDocuments saves.
JudgementSaved(o) ==
  \E e \in accountEdits : e \notin accountEdits' /\ e.of = o /\ e.by = "judge"

\* uploadOperatorDocuments saves, and not every paper is there.
BlankSaved(o) ==
  \E e \in accountEdits :
    e \notin accountEdits' /\ e.of = o /\ e.by = "upload" /\ ~HasOperatorDocumentsForApproval(e.new)

\* Approval, role and papers stay together: a change of role takes the approval
\* away, and verifyOperator asks for the papers.  Only a save that overlaps with
\* another change separates the role from the approval.  The papers can be separated
\* by verifyOperatorDocuments, which does not ask for them, and by an upload of
\* blanks, which clears them and leaves the approval.
OnlyOverlapsMisapprove ==
  [][\A o \in Operators :
       WellApproved(account[o]) =>
         \/ WellApproved(account'[o])
         \/ StaleAccountSave(o)
         \/ (JudgementSaved(o) \/ BlankSaved(o)) /\ account'[o].role = "operator"]_<<account, seen, accountEdits, spent>>

=============================================================================
