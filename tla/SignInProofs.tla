----------------------------- MODULE SignInProofs -----------------------------
(***************************************************************************)
(* Theorems about SignIn, for any users, admins, calls, codes and limits.  *)
(***************************************************************************)
EXTENDS SignIn, TLAPS

Coded == {"save", "expired", "wrong", "right", "void", "open"}
OfUsers == {"open", "over", "rotate", "fill", "evict"}

\* A call at work is about an account, and a code that it read or made.
CallsOK ==
  \A c \in Calls :
    /\ ~At(c, "idle") => call[c].of \in Accounts
    /\ call[c].at \in OfUsers => call[c].of \in Users
    /\ At(c, "setActive") => call[c].of \in Admins
    /\ call[c].at \in Coded => call[c].code \in issued
    /\ call[c].at \notin Coded => call[c].code = None

\* A code is with one account, or with the login that made it, or gone for good.
CodesApart ==
  /\ \A n \in Codes \ issued : wrong[n] = 0 /\ accepted[n] = 0
  /\ \A a \in Accounts : doc[a].otp # None => doc[a].otp \in issued
  /\ \A a, b \in Accounts : doc[a].otp = doc[b].otp /\ doc[a].otp # None => a = b
  /\ \A a \in Accounts : doc[a].otp # None => accepted[doc[a].otp] = 0

Unsaved ==
  \A c \in Calls :
    At(c, "save") =>
      /\ wrong[call[c].code] = 0
      /\ accepted[call[c].code] = 0
      /\ \A a \in Accounts : doc[a].otp # call[c].code
      /\ \A d \in Calls \ {c} : call[d].code # call[c].code

AttemptsLimited == \A a \in Accounts : doc[a].attempts <= MaxAttempts

\* The code that a call is to take away is still as it was found to be.
JudgedRightly ==
  \A c \in Calls :
    /\ At(c, "expired") => expiry[call[c].code] < now
    /\ At(c, "void") /\ doc[call[c].of].otp = call[c].code =>
         doc[call[c].of].attempts >= MaxAttempts
    /\ At(c, "over") => call[c].session < now

IInv ==
  /\ TypeOK
  /\ CallsOK
  /\ CodesApart
  /\ Unsaved
  /\ AttemptsLimited
  /\ OneSignInPerCode
  /\ AttemptsCounted
  /\ JudgedRightly
  /\ SpentIsVoided
  /\ OutdatedForACause


-----------------------------------------------------------------------------
LEMMA Constants ==
  /\ None \notin Codes /\ None \notin Accounts
  /\ Users \cap Admins = {} /\ Users \subseteq Accounts /\ Admins \subseteq Accounts
  /\ CodeTTL \in Nat /\ SessionTTL \in Nat /\ CacheTTL \in Nat
  /\ CodeTTL > 0 /\ SessionTTL > 0 /\ CacheTTL > 0
  /\ MaxAttempts \in Nat /\ MaxAttempts > 0
BY NoneIsNone, UsersAreNotAdmins, PositiveBounds DEF Accounts

LEMMA IdleHeld == Idle \in Held
BY DEF Idle, Held, Steps

LEMMA ReadHeld ==
  ASSUME TypeOK, NEW a \in Accounts, NEW step \in Steps
  PROVE  Read(step, a) \in Held
BY Constants DEF Read, Idle, Held, TypeOK, Docs, Steps

\* What a call goes on with is the only change to the calls.
LEMMA OneCall ==
  ASSUME TypeOK, NEW c \in Calls, NEW held \in Held, Goes(c, held)
  PROVE  /\ call' \in [Calls -> Held]
         /\ call'[c] = held
         /\ \A d \in Calls \ {c} : call'[d] = call[d]
BY DEF TypeOK, Goes

LEMMA OneDoc ==
  ASSUME TypeOK, NEW a \in Accounts, NEW n \in Codes \cup {None}, NEW i \in Nat, Stores(a, n, i)
  PROVE  /\ doc' \in [Accounts -> Docs]
         /\ doc'[a] = [doc[a] EXCEPT !.otp = n, !.attempts = i]
         /\ \A b \in Accounts \ {a} : doc'[b] = doc[b]
<1>1. doc \in [Accounts -> Docs] /\ doc[a] \in Docs
  BY DEF TypeOK
<1>2. doc' = [doc EXCEPT ![a] = [doc[a] EXCEPT !.otp = n, !.attempts = i]]
  BY <1>1 DEF Stores, Docs
<1>3. [doc[a] EXCEPT !.otp = n, !.attempts = i] \in Docs
  BY <1>1 DEF Docs
<1>4. QED BY <1>1, <1>2, <1>3

LEMMA OneSession ==
  ASSUME TypeOK, NEW a \in Accounts, NEW t \in Nat, HasSession(a, t)
  PROVE  /\ doc' \in [Accounts -> Docs]
         /\ doc'[a] = [doc[a] EXCEPT !.session = t]
         /\ \A b \in Accounts \ {a} : doc'[b] = doc[b]
         /\ \A b \in Accounts : /\ doc'[b].otp = doc[b].otp
                               /\ doc'[b].attempts = doc[b].attempts
                               /\ doc'[b].barred = doc[b].barred
<1>1. doc \in [Accounts -> Docs] /\ doc[a] \in Docs
  BY DEF TypeOK
<1>2. doc' = [doc EXCEPT ![a] = [doc[a] EXCEPT !.session = t]]
  BY <1>1 DEF HasSession, Docs
<1>3. /\ [doc[a] EXCEPT !.session = t] \in Docs
      /\ [doc[a] EXCEPT !.session = t].otp = doc[a].otp
      /\ [doc[a] EXCEPT !.session = t].attempts = doc[a].attempts
      /\ [doc[a] EXCEPT !.session = t].barred = doc[a].barred
  BY <1>1 DEF Docs
<1>4. QED BY <1>1, <1>2, <1>3

LEMMA OneBar ==
  ASSUME TypeOK, NEW a \in Accounts, NEW b \in BOOLEAN, Bars(a, b)
  PROVE  /\ doc' \in [Accounts -> Docs]
         /\ doc'[a] = [doc[a] EXCEPT !.barred = b]
         /\ \A x \in Accounts \ {a} : doc'[x] = doc[x]
         /\ \A x \in Accounts : /\ doc'[x].otp = doc[x].otp
                               /\ doc'[x].attempts = doc[x].attempts
                               /\ doc'[x].session = doc[x].session
<1>1. doc \in [Accounts -> Docs] /\ doc[a] \in Docs
  BY DEF TypeOK
<1>2. doc' = [doc EXCEPT ![a] = [doc[a] EXCEPT !.barred = b]]
  BY <1>1 DEF Bars, Docs
<1>3. /\ [doc[a] EXCEPT !.barred = b] \in Docs
      /\ [doc[a] EXCEPT !.barred = b].otp = doc[a].otp
      /\ [doc[a] EXCEPT !.barred = b].attempts = doc[a].attempts
      /\ [doc[a] EXCEPT !.barred = b].session = doc[a].session
  BY <1>1 DEF Docs
<1>4. QED BY <1>1, <1>2, <1>3

\* What save() makes of the attempts.
LEMMA ResetIn ==
  ASSUME TypeOK, NEW a \in Accounts, NEW i \in Nat
  PROVE  Reset(a, i) \in Nat /\ Reset(a, i) \in {0, doc[a].attempts}
BY DEF TypeOK, Docs, Reset

LEMMA ResetLimited ==
  ASSUME TypeOK, AttemptsLimited, NEW a \in Accounts, NEW i \in Nat
  PROVE  Reset(a, i) \in Nat /\ Reset(a, i) <= MaxAttempts
<1>1. doc[a].attempts \in Nat /\ doc[a].attempts <= MaxAttempts
  BY DEF TypeOK, Docs, AttemptsLimited
<1>2. QED BY <1>1, Constants DEF Reset

\* The next state of a handler's step, seen from the call that makes it.
LEMMA CallParts ==
  ASSUME TypeOK, NEW c \in Calls
  PROVE  /\ call[c] \in Held
         /\ call[c].at \in Steps
         /\ call[c].of \in Accounts \cup {None}
         /\ call[c].code \in Codes \cup {None}
         /\ call[c].attempts \in Nat /\ call[c].session \in Nat /\ call[c].barred \in BOOLEAN
BY DEF TypeOK, Held

LEMMA VoidHeld ==
  ASSUME TypeOK, NEW c \in Calls
  PROVE  /\ [call[c] EXCEPT !.at = "void"] \in Held
         /\ [call[c] EXCEPT !.at = "open"] \in Held
         /\ [call[c] EXCEPT !.at = "void"].at = "void"
         /\ [call[c] EXCEPT !.at = "open"].at = "open"
         /\ [call[c] EXCEPT !.at = "void"].of = call[c].of
         /\ [call[c] EXCEPT !.at = "open"].of = call[c].of
         /\ [call[c] EXCEPT !.at = "void"].code = call[c].code
         /\ [call[c] EXCEPT !.at = "open"].code = call[c].code
BY DEF TypeOK, Held, Steps

LEMMA InitInvariant == Init => IInv
<1> SUFFICES ASSUME Init PROVE IInv
  OBVIOUS
<1>1. TypeOK
  BY IdleHeld DEF Init, TypeOK, NewDoc, Docs, NoCopy
<1>2. \A c \in Calls : call[c] = Idle
  BY DEF Init
<1>3. \A a \in Accounts : doc[a].otp = None /\ doc[a].attempts = 0 /\ doc[a].barred = FALSE
  BY DEF Init, NewDoc
<1>4. CallsOK /\ Unsaved /\ JudgedRightly
  BY <1>2 DEF CallsOK, Unsaved, JudgedRightly, At, Idle, OfUsers, Coded
<1>5. CodesApart /\ OneSignInPerCode /\ AttemptsCounted
  BY <1>3, Constants DEF Init, CodesApart, OneSignInPerCode, AttemptsCounted
<1>6. AttemptsLimited /\ SpentIsVoided
  BY <1>3, Constants DEF AttemptsLimited, SpentIsVoided
<1>7. OutdatedForACause
  BY <1>3, Constants DEF OutdatedForACause, Init, NoCopy, Cached
<1>8. QED BY <1>1, <1>4, <1>5, <1>6, <1>7 DEF IInv

-----------------------------------------------------------------------------
(***************************************************************************)
(* Types.                                                                  *)
(***************************************************************************)

LEMMA MakesType ==
  ASSUME TypeOK, NEW n \in Codes, Makes(n)
  PROVE  /\ issued' \subseteq Codes /\ expiry' \in [Codes -> Nat]
         /\ \A m \in issued : expiry'[m] = expiry[m]
BY Constants DEF TypeOK, Makes

LEMMA ForgivesType ==
  ASSUME TypeOK, NEW a \in Accounts, NEW i, Forgives(a, i)
  PROVE  left' \subseteq Accounts
BY DEF TypeOK, Forgives

\* The steps that change a code.
CodeAction(c) ==
  SaveLogin(c) \/ ClearExpired(c) \/ CountWrong(c) \/ Void(c) \/ Consume(c)

\* Ask begins a call.
LEMMA AskBegins ==
  ASSUME TypeOK, NEW c \in Calls, Ask(c)
  PROVE  At(c, "idle") /\ \E held \in Held : Goes(c, held)
<1>1. ASSUME NEW u \in Users, RefreshToken(c, u)
      PROVE  At(c, "idle") /\ \E held \in Held : Goes(c, held)
  <2>1. [Idle EXCEPT !.at = IF doc[u].session < now THEN "over" ELSE "rotate",
                     !.of = u, !.session = doc[u].session] \in Held
    BY Constants DEF TypeOK, Docs, Idle, Held, Steps
  <2>2. QED BY <1>1, <2>1 DEF RefreshToken, Begins
<1>2. ASSUME NEW u \in Users, Protect(c, u)
      PROVE  At(c, "idle") /\ \E held \in Held : Goes(c, held)
  <2>1. [Idle EXCEPT !.at = "fill", !.of = u, !.barred = doc[u].barred] \in Held
    BY Constants DEF TypeOK, Docs, Idle, Held, Steps
  <2>2. QED BY <1>2, <2>1 DEF Protect, Begins
<1>3. ASSUME NEW u \in Users, NEW b \in BOOLEAN, BlockUser(c, u, b)
      PROVE  At(c, "idle") /\ \E held \in Held : Goes(c, held)
  <2>1. [Idle EXCEPT !.at = "evict", !.of = u] \in Held
    BY Constants DEF Idle, Held, Steps
  <2>2. QED BY <1>3, <2>1 DEF BlockUser, Begins
<1>4. ASSUME NEW a \in Admins, DeactivateAdmin(c, a)
      PROVE  At(c, "idle") /\ \E held \in Held : Goes(c, held)
  <2>1. [Idle EXCEPT !.at = "setActive", !.of = a, !.barred = ~doc[a].barred] \in Held
    BY Constants DEF Idle, Held, Steps
  <2>2. QED BY <1>4, <2>1 DEF DeactivateAdmin, Begins
<1>5. ASSUME NEW a \in Admins, NEW n \in Codes, AdminLogin(c, a, n)
      PROVE  At(c, "idle") /\ \E held \in Held : Goes(c, held)
  <2>1. [Read("save", a) EXCEPT !.code = n] \in Held
    BY ReadHeld, Constants DEF Held, Steps
  <2>2. QED BY <1>5, <2>1 DEF AdminLogin, Begins
<1>6. ASSUME NEW a \in Accounts, VerifyOtp(c, a)
      PROVE  At(c, "idle") /\ \E held \in Held : Goes(c, held)
  <2>1. PICK step \in {"expired", "right", "wrong"} : Begins(c, Read(step, a))
    BY <1>6 DEF VerifyOtp
  <2>2. Read(step, a) \in Held
    BY <2>1, ReadHeld DEF Steps
  <2>3. QED BY <2>1, <2>2 DEF Begins
<1>7. QED BY <1>1, <1>2, <1>3, <1>4, <1>5, <1>6 DEF Ask

LEMMA AskType ==
  ASSUME TypeOK, NEW c \in Calls, Ask(c)
  PROVE  TypeOK'
<1>1. call' \in [Calls -> Held]
  BY AskBegins, OneCall
<1>2. ASSUME NEW u \in Users, RefreshToken(c, u) \/ Protect(c, u) PROVE TypeOK'
  BY <1>1, <1>2 DEF TypeOK, RefreshToken, Protect, codeVars, history
<1>3. ASSUME NEW u \in Users, NEW b \in BOOLEAN, BlockUser(c, u, b) PROVE TypeOK'
  <2>1. doc' \in [Accounts -> Docs]
    BY <1>3, OneBar, Constants DEF BlockUser
  <2>2. QED BY <1>1, <1>3, <2>1 DEF TypeOK, BlockUser, codeVars, history
<1>4. ASSUME NEW a \in Accounts, VerifyOtp(c, a) \/ DeactivateAdmin(c, a) PROVE TypeOK'
  BY <1>1, <1>4 DEF TypeOK, VerifyOtp, DeactivateAdmin, codeVars, history
<1>5. ASSUME NEW a \in Admins, NEW n \in Codes, AdminLogin(c, a, n) PROVE TypeOK'
  BY <1>1, <1>5, MakesType DEF TypeOK, AdminLogin, history
<1>6. QED BY <1>2, <1>3, <1>4, <1>5, Constants DEF Ask

LEMMA CodeActionType ==
  ASSUME TypeOK, CallsOK, NEW c \in Calls, CodeAction(c)
  PROVE  TypeOK'
<1> DEFINE a == call[c].of
           n == call[c].code
<1>1. a \in Accounts /\ n \in Codes
  BY DEF TypeOK, CallsOK, CodeAction, SaveLogin, ClearExpired, CountWrong, Void, Consume, At, Coded
<1>2. call[c].attempts \in Nat /\ Reset(a, call[c].attempts) \in Nat
  BY <1>1, CallParts, ResetIn
<1>3. /\ Idle \in Held
      /\ [call[c] EXCEPT !.at = "void"] \in Held
      /\ [call[c] EXCEPT !.at = "open"] \in Held
  BY IdleHeld, VoidHeld
<1>4. call' \in [Calls -> Held]
  <2>1. PICK held \in Held : Goes(c, held)
    BY <1>3 DEF CodeAction, SaveLogin, ClearExpired, CountWrong, Void, Consume
  <2>2. QED BY <2>1, OneCall
<1>5. CASE SaveLogin(c)
  BY <1>1, <1>2, <1>4, <1>5, OneDoc, ForgivesType DEF SaveLogin, TypeOK, codeVars
<1>6. CASE ClearExpired(c)
  BY <1>1, <1>2, <1>4, <1>6, OneDoc, ForgivesType DEF ClearExpired, TypeOK, codeVars
<1>7. CASE CountWrong(c)
  <2>1. doc' \in [Accounts -> Docs]
    BY <1>1, <1>7 DEF CountWrong, TypeOK, Docs
  <2>2. wrong' \in [Codes -> Nat]
    BY <1>1, <1>7 DEF CountWrong, TypeOK
  <2>3. QED BY <1>4, <1>7, <2>1, <2>2 DEF CountWrong, TypeOK, codeVars
<1>8. CASE Void(c)
  BY <1>1, <1>4, <1>8, OneDoc, ForgivesType DEF Void, TypeOK, codeVars
<1>9. CASE Consume(c)
  <2>1. doc' \in [Accounts -> Docs] /\ left' \subseteq Accounts
    BY <1>1, <1>9, OneDoc, ForgivesType DEF Consume, TypeOK
  <2>2. accepted' \in [Codes -> Nat]
    BY <1>1, <1>9 DEF Consume, TypeOK
  <2>3. QED BY <1>4, <1>9, <2>1, <2>2 DEF Consume, TypeOK, codeVars
<1>10. QED BY <1>5, <1>6, <1>7, <1>8, <1>9 DEF CodeAction

LEMMA WorkType ==
  ASSUME TypeOK, CallsOK, NEW c \in Calls, Work(c) \/ CutShort(c)
  PROVE  TypeOK'
<1>1. CASE CodeAction(c)
  BY <1>1, CodeActionType
<1>2. CASE OpenSession(c) \/ EndSession(c) \/ Rotate(c)
  <2>1. PICK t \in Nat : SessionStep(c, t)
    BY <1>2, Constants DEF OpenSession, EndSession, Rotate, TypeOK
  <2>2. call[c].of \in Accounts
    BY <1>2, Constants DEF OpenSession, EndSession, Rotate, CallsOK, At, OfUsers
  <2>3. call' \in [Calls -> Held] /\ doc' \in [Accounts -> Docs]
    BY <2>1, <2>2, OneCall, OneSession, IdleHeld DEF SessionStep
  <2>4. QED BY <2>1, <2>3 DEF SessionStep, TypeOK, codeVars, history
<1>3. CASE Fill(c)
  BY <1>3, IdleHeld, OneCall, CallParts, Constants
     DEF Fill, TypeOK, CallsOK, At, OfUsers, codeVars, history, Docs
<1>4. CASE Evict(c)
  BY <1>4, IdleHeld, OneCall DEF Evict, TypeOK, NoCopy, codeVars, history
<1>5. CASE SaveAdmin(c)
  <2>1. call[c].of \in Accounts
    BY <1>5 DEF SaveAdmin, CallsOK, At
  <2>2. call' \in [Calls -> Held] /\ doc' \in [Accounts -> Docs]
    BY <1>5, <2>1, IdleHeld, OneCall, OneBar, CallParts DEF SaveAdmin
  <2>3. QED BY <1>5, <2>2 DEF SaveAdmin, TypeOK, codeVars, history
<1>6. CASE CutShort(c)
  <2>1. call[c].of \in Accounts
    BY <1>6 DEF CutShort, CallsOK, At
  <2>2. call' \in [Calls -> Held] /\ left' \subseteq Accounts
    BY <1>6, <2>1, IdleHeld, OneCall DEF CutShort, TypeOK
  <2>3. cache' \in [Users -> [barred : BOOLEAN, until : Nat, stray : BOOLEAN]]
    BY <1>6 DEF CutShort, TypeOK
  <2>4. QED BY <1>6, <2>2, <2>3 DEF CutShort, TypeOK, codeVars
<1>7. QED BY <1>1, <1>2, <1>3, <1>4, <1>5, <1>6 DEF Work, CodeAction

LEMMA TypeStep ==
  ASSUME TypeOK, CallsOK, [Next]_vars
  PROVE  TypeOK'
<1>1. ASSUME NEW c \in Calls, Ask(c) \/ Work(c) \/ CutShort(c) PROVE TypeOK'
  BY <1>1, AskType, WorkType
<1>2. ASSUME NEW u \in Users, Logout(u) PROVE TypeOK'
  BY <1>2, OneSession, Constants DEF Logout, TypeOK, codeVars, history
<1>3. ASSUME NEW u \in Users, NEW n \in Codes, SendOtp(u, n) PROVE TypeOK'
  BY <1>3, OneDoc, MakesType, ForgivesType, Constants DEF SendOtp, TypeOK
<1>4. CASE Tick
  BY <1>4 DEF Tick, TypeOK, codeVars, history
<1>5. CASE UNCHANGED vars
  BY <1>5 DEF TypeOK, vars, codeVars, history
<1>6. QED BY <1>1, <1>2, <1>3, <1>4, <1>5 DEF Next

-----------------------------------------------------------------------------
(***************************************************************************)
(* Steps that leave the codes alone.                                       *)
(***************************************************************************)

SameCodes == \A a \in Accounts : doc'[a].otp = doc[a].otp /\ doc'[a].attempts = doc[a].attempts

\* A call that begins, other than an admin's login.
BegunRightly(c, held) ==
  /\ At(c, "idle")
  /\ held.at \notin {"idle", "save", "void", "open"}
  /\ held.of \in Accounts
  /\ held.at \in OfUsers => held.of \in Users
  /\ held.at = "setActive" => held.of \in Admins
  /\ held.at \notin Coded => held.code = None
  /\ held.at \in Coded => \E a \in Accounts : doc[a].otp = held.code /\ doc[a].otp # None
  /\ held.at = "expired" => expiry[held.code] < now
  /\ held.at = "over" => held.session < now

QuietCall(c) ==
  \/ call'[c] = call[c]
  \/ call'[c] = Idle /\ (At(c, "void") => call[c].of \in left')
  \/ BegunRightly(c, call'[c])

QuietStep ==
  /\ SameCodes
  /\ UNCHANGED <<codeVars, wrong, accepted>>
  /\ left \subseteq left'
  /\ now \in Nat /\ now' \in Nat /\ now <= now'
  /\ \A c \in Calls : QuietCall(c)

CodeStep ==
  \/ \E u \in Users, n \in Codes : SendOtp(u, n)
  \/ \E c \in Calls : CodeAction(c) \/ \E a \in Admins, n \in Codes : AdminLogin(c, a, n)

LEMMA QuietAsk ==
  ASSUME IInv, NEW c \in Calls, Ask(c), ~CodeStep
  PROVE  QuietStep
<1> USE DEF IInv
<1> DEFINE Begun == /\ SameCodes
                    /\ UNCHANGED <<codeVars, history, now>>
                    /\ \E held \in Held : Goes(c, held) /\ BegunRightly(c, held)
<1>1. Begun => QuietStep
  <2> SUFFICES ASSUME Begun PROVE QuietStep
    OBVIOUS
  <2>1. PICK held \in Held : Goes(c, held) /\ BegunRightly(c, held)
    OBVIOUS
  <2>2. \A d \in Calls : QuietCall(d)
    BY <2>1, OneCall DEF QuietCall
  <2>3. QED BY <2>2 DEF QuietStep, history, codeVars, TypeOK
<1> HIDE DEF Begun
<1>2. (UNCHANGED doc) => SameCodes
  BY DEF SameCodes
<1>3. ASSUME NEW u \in Users, RefreshToken(c, u) PROVE QuietStep
  <2> DEFINE held == [Idle EXCEPT !.at = IF doc[u].session < now THEN "over" ELSE "rotate",
                                  !.of = u, !.session = doc[u].session]
  <2>1. held \in Held /\ (At(c, "idle") => BegunRightly(c, held))
    BY Constants DEF TypeOK, Docs, Idle, Held, Steps, BegunRightly, OfUsers, Coded
  <2>2. Goes(c, held) /\ At(c, "idle")
    BY <1>3 DEF RefreshToken, Begins
  <2> HIDE DEF held
  <2>3. QED BY <1>1, <1>2, <1>3, <2>1, <2>2 DEF Begun, RefreshToken
<1>4. ASSUME NEW u \in Users, Protect(c, u) PROVE QuietStep
  <2> DEFINE held == [Idle EXCEPT !.at = "fill", !.of = u, !.barred = doc[u].barred]
  <2>1. held \in Held /\ (At(c, "idle") => BegunRightly(c, held))
    BY Constants DEF TypeOK, Docs, Idle, Held, Steps, BegunRightly, OfUsers, Coded
  <2>2. Goes(c, held) /\ At(c, "idle")
    BY <1>4 DEF Protect, Begins
  <2> HIDE DEF held
  <2>3. QED BY <1>1, <1>2, <1>4, <2>1, <2>2 DEF Begun, Protect
<1>5. ASSUME NEW u \in Users, NEW b \in BOOLEAN, BlockUser(c, u, b) PROVE QuietStep
  <2> DEFINE held == [Idle EXCEPT !.at = "evict", !.of = u]
  <2>1. held \in Held /\ (At(c, "idle") => BegunRightly(c, held))
    BY Constants DEF TypeOK, Docs, Idle, Held, Steps, BegunRightly, OfUsers, Coded
  <2>2. Goes(c, held) /\ At(c, "idle") /\ Bars(u, b)
    BY <1>5 DEF BlockUser, Begins
  <2>3. SameCodes
    BY <2>2, OneBar, Constants DEF SameCodes
  <2> HIDE DEF held
  <2>4. QED BY <1>1, <1>5, <2>1, <2>2, <2>3 DEF Begun, BlockUser
<1>6. ASSUME NEW a \in Admins, DeactivateAdmin(c, a) PROVE QuietStep
  <2> DEFINE held == [Idle EXCEPT !.at = "setActive", !.of = a, !.barred = ~doc[a].barred]
  <2>1. held \in Held /\ (At(c, "idle") => BegunRightly(c, held))
    BY Constants DEF Idle, Held, Steps, BegunRightly, OfUsers, Coded
  <2>2. Goes(c, held) /\ At(c, "idle")
    BY <1>6 DEF DeactivateAdmin, Begins
  <2> HIDE DEF held
  <2>3. QED BY <1>1, <1>2, <1>6, <2>1, <2>2 DEF Begun, DeactivateAdmin
<1>7. ASSUME NEW a \in Accounts, VerifyOtp(c, a) PROVE QuietStep
  <2>1. PICK step \in {"expired", "right", "wrong"} :
          Begins(c, Read(step, a)) /\ (step = "expired" => Expired(doc[a].otp))
    BY <1>7 DEF VerifyOtp
  <2> DEFINE held == Read(step, a)
  <2>2. doc[a].otp # None
    BY <1>7 DEF VerifyOtp
  <2>3. held \in Held
    BY <2>1, ReadHeld DEF Steps
  <2>4. held.at = step /\ held.of = a /\ held.code = doc[a].otp
    BY DEF Read, Idle
  <2>5. Goes(c, held) /\ At(c, "idle")
    BY <2>1 DEF Begins
  <2> HIDE DEF held
  <2>6. BegunRightly(c, held)
    BY <2>1, <2>2, <2>4, <2>5 DEF BegunRightly, OfUsers, Coded, Expired
  <2>7. QED BY <1>1, <1>2, <1>7, <2>3, <2>5, <2>6 DEF Begun, VerifyOtp
<1>8. QED BY <1>3, <1>4, <1>5, <1>6, <1>7 DEF Ask, CodeStep

LEMMA QuietWork ==
  ASSUME IInv, NEW c \in Calls, Work(c) \/ CutShort(c), ~CodeStep
  PROVE  QuietStep
<1> USE DEF IInv
<1> DEFINE Ended == /\ SameCodes
                    /\ UNCHANGED <<codeVars, wrong, accepted, now>>
                    /\ left \subseteq left'
                    /\ Goes(c, Idle)
                    /\ At(c, "void") => call[c].of \in left'
<1>1. Ended => QuietStep
  <2> SUFFICES ASSUME Ended PROVE QuietStep
    OBVIOUS
  <2>1. \A d \in Calls : QuietCall(d)
    BY OneCall, IdleHeld DEF QuietCall
  <2>2. QED BY <2>1 DEF QuietStep, TypeOK
<1>2. (UNCHANGED doc) => SameCodes
  BY DEF SameCodes
<1> HIDE DEF Ended
<1>3. CASE OpenSession(c) \/ EndSession(c) \/ Rotate(c)
  <2>1. PICK t \in Nat : SessionStep(c, t)
    BY <1>3, Constants DEF OpenSession, EndSession, Rotate, TypeOK
  <2>2. call[c].of \in Accounts /\ ~At(c, "void")
    BY <1>3, Constants DEF OpenSession, EndSession, Rotate, CallsOK, At, OfUsers
  <2>3. SameCodes
    BY <2>1, <2>2, OneSession DEF SessionStep, SameCodes
  <2>4. QED BY <1>1, <2>1, <2>2, <2>3 DEF Ended, SessionStep, history
<1>4. CASE Fill(c)
  BY <1>1, <1>2, <1>4 DEF Ended, Fill, At, history
<1>5. CASE Evict(c)
  BY <1>1, <1>2, <1>5 DEF Ended, Evict, At, history
<1>6. CASE SaveAdmin(c)
  <2>1. call[c].of \in Accounts /\ ~At(c, "void")
    BY <1>6 DEF SaveAdmin, CallsOK, At
  <2>2. SameCodes
    BY <1>6, <2>1, OneBar, CallParts DEF SaveAdmin, SameCodes
  <2>3. QED BY <1>1, <1>6, <2>1, <2>2 DEF Ended, SaveAdmin, history
<1>7. CASE CutShort(c)
  BY <1>1, <1>2, <1>7 DEF Ended, CutShort
<1>8. QED BY <1>3, <1>4, <1>5, <1>6, <1>7 DEF Work, CodeStep, CodeAction

LEMMA QuietOrCode ==
  ASSUME IInv, [Next]_vars
  PROVE  QuietStep \/ CodeStep
<1> USE DEF IInv
<1>1. ASSUME NEW c \in Calls, Ask(c) \/ Work(c) \/ CutShort(c) PROVE QuietStep \/ CodeStep
  BY <1>1, QuietAsk, QuietWork
<1>2. ASSUME NEW u \in Users, Logout(u) PROVE QuietStep
  <2>1. SameCodes
    BY <1>2, OneSession, Constants DEF Logout, SameCodes
  <2>2. QED BY <1>2, <2>1 DEF Logout, QuietStep, QuietCall, TypeOK, history
<1>3. CASE Tick
  BY <1>3 DEF Tick, QuietStep, QuietCall, SameCodes, TypeOK, history
<1>4. CASE UNCHANGED vars
  BY <1>4 DEF vars, QuietStep, QuietCall, SameCodes, TypeOK, history
<1>5. QED BY <1>1, <1>2, <1>3, <1>4 DEF Next, CodeStep

-----------------------------------------------------------------------------
\* How a handler that works on a code leaves the calls.
LEMMA CodeCalls ==
  ASSUME IInv, NEW c \in Calls, CodeAction(c)
  PROVE  /\ \A d \in Calls \ {c} : call'[d] = call[d]
         /\ call[c].of \in Accounts
         /\ call[c].code \in issued
         /\ \/ call'[c] = Idle
            \/ At(c, "wrong") /\ call'[c] = [call[c] EXCEPT !.at = "void"]
            \/ At(c, "right") /\ call[c].of \in Users /\ call'[c] = [call[c] EXCEPT !.at = "open"]
         /\ UNCHANGED <<codeVars, now, cache>>
<1> USE DEF IInv
<1>1. PICK held \in Held :
        /\ Goes(c, held)
        /\ \/ held = Idle
           \/ At(c, "wrong") /\ held = [call[c] EXCEPT !.at = "void"]
           \/ At(c, "right") /\ call[c].of \in Users /\ held = [call[c] EXCEPT !.at = "open"]
  BY IdleHeld, VoidHeld DEF CodeAction, SaveLogin, ClearExpired, CountWrong, Void, Consume
<1>2. call'[c] = held /\ \A d \in Calls \ {c} : call'[d] = call[d]
  BY <1>1, OneCall
<1>3. call[c].of \in Accounts /\ call[c].code \in issued
  BY DEF CallsOK, CodeAction, SaveLogin, ClearExpired, CountWrong, Void, Consume, At, Coded
<1>4. UNCHANGED <<codeVars, now, cache>>
  BY DEF CodeAction, SaveLogin, ClearExpired, CountWrong, Void, Consume
<1>5. QED BY <1>1, <1>2, <1>3, <1>4

\* How an admin's login begins.
LEMMA LoginCall ==
  ASSUME IInv, NEW c \in Calls, NEW a \in Admins, NEW n \in Codes, AdminLogin(c, a, n)
  PROVE  /\ \A d \in Calls \ {c} : call'[d] = call[d]
         /\ At(c, "idle")
         /\ call[c].code = None
         /\ call'[c].at = "save" /\ call'[c].of = a /\ call'[c].code = n
         /\ n \notin issued /\ issued' = issued \cup {n}
         /\ \A m \in issued : expiry'[m] = expiry[m]
         /\ UNCHANGED <<doc, cache, now, history>>
<1> USE DEF IInv
<1> DEFINE held == [Read("save", a) EXCEPT !.code = n]
<1>1. held \in Held /\ held.at = "save" /\ held.of = a /\ held.code = n
  <2>1. Read("save", a) \in Held
    BY ReadHeld, Constants DEF Steps
  <2>2. Read("save", a).at = "save" /\ Read("save", a).of = a
    BY DEF Read, Idle
  <2>3. QED BY <2>1, <2>2 DEF Held
<1>2. Goes(c, held) /\ At(c, "idle") /\ Makes(n)
  BY DEF AdminLogin, Begins
<1> HIDE DEF held
<1>3. call'[c] = held /\ \A d \in Calls \ {c} : call'[d] = call[d]
  BY <1>1, <1>2, OneCall
<1>4. call[c].code = None
  BY <1>2 DEF CallsOK, At, Coded
<1>5. QED BY <1>1, <1>2, <1>3, <1>4, MakesType DEF AdminLogin, Makes

LEMMA CallsStep ==
  ASSUME IInv, [Next]_vars
  PROVE  CallsOK'
<1> USE DEF IInv
<1> SUFFICES ASSUME NEW c \in Calls
             PROVE  /\ call'[c].at # "idle" => call'[c].of \in Accounts
                    /\ call'[c].at \in OfUsers => call'[c].of \in Users
                    /\ call'[c].at = "setActive" => call'[c].of \in Admins
                    /\ call'[c].at \in Coded => call'[c].code \in issued'
                    /\ call'[c].at \notin Coded => call'[c].code = None
  BY DEF CallsOK, At
<1>1. /\ call[c].at # "idle" => call[c].of \in Accounts
      /\ call[c].at \in OfUsers => call[c].of \in Users
      /\ call[c].at = "setActive" => call[c].of \in Admins
      /\ call[c].at \in Coded => call[c].code \in issued
      /\ call[c].at \notin Coded => call[c].code = None
  BY DEF CallsOK, At
<1>2. CASE QuietStep
  <2>1. QuietCall(c) /\ issued' = issued
    BY <1>2 DEF QuietStep, codeVars
  <2>2. QED BY <1>1, <2>1 DEF QuietCall, BegunRightly, CodesApart, Idle, OfUsers, Coded
<1>3. ASSUME NEW d \in Calls, CodeAction(d) PROVE CallsOK'
  <2> SUFFICES ASSUME NEW e \in Calls
               PROVE  /\ call'[e].at # "idle" => call'[e].of \in Accounts
                      /\ call'[e].at \in OfUsers => call'[e].of \in Users
                      /\ call'[e].at = "setActive" => call'[e].of \in Admins
                      /\ call'[e].at \in Coded => call'[e].code \in issued'
                      /\ call'[e].at \notin Coded => call'[e].code = None
    BY DEF CallsOK, At
  <2>1. issued' = issued
    BY <1>3, CodeCalls DEF codeVars
  <2>2. CASE e # d
    BY <1>3, <2>1, <2>2, CodeCalls DEF CallsOK, At
  <2>3. CASE e = d
    <3>1. call[d].of \in Accounts /\ call[d].code \in issued
      BY <1>3, CodeCalls
    <3>2. \/ call'[d] = Idle
          \/ call'[d] = [call[d] EXCEPT !.at = "void"]
          \/ call[d].of \in Users /\ call'[d] = [call[d] EXCEPT !.at = "open"]
      BY <1>3, CodeCalls
    <3>3. CASE call'[d] = Idle
      BY <2>3, <3>3 DEF Idle, OfUsers, Coded
    <3>4. CASE call'[d] = [call[d] EXCEPT !.at = "void"]
      <4>1. call'[d].at = "void" /\ call'[d].of = call[d].of /\ call'[d].code = call[d].code
        BY <3>4, VoidHeld
      <4>2. QED BY <2>1, <2>3, <3>1, <4>1 DEF OfUsers, Coded
    <3>5. CASE call[d].of \in Users /\ call'[d] = [call[d] EXCEPT !.at = "open"]
      <4>1. call'[d].at = "open" /\ call'[d].of = call[d].of /\ call'[d].code = call[d].code
        BY <3>5, VoidHeld
      <4>2. QED BY <2>1, <2>3, <3>1, <3>5, <4>1 DEF Coded
    <3>6. QED BY <3>2, <3>3, <3>4, <3>5
  <2>4. QED BY <2>2, <2>3
<1>4. ASSUME NEW d \in Calls, NEW a \in Admins, NEW n \in Codes, AdminLogin(d, a, n)
      PROVE  CallsOK'
  BY <1>4, LoginCall, Constants DEF CallsOK, At, OfUsers, Coded
<1>5. ASSUME NEW u \in Users, NEW n \in Codes, SendOtp(u, n) PROVE CallsOK'
  BY <1>5 DEF SendOtp, Makes, CallsOK, At
<1>6. QED BY <1>2, <1>3, <1>4, <1>5, QuietOrCode DEF CodeStep, CallsOK, At

-----------------------------------------------------------------------------
(***************************************************************************)
(* Codes, and the submissions counted against them.                        *)
(***************************************************************************)

LEMMA StoresOne ==
  ASSUME TypeOK, NEW a \in Accounts, NEW n \in Codes \cup {None}, NEW i \in Nat, Stores(a, n, i)
  PROVE  /\ doc'[a].otp = n /\ doc'[a].attempts = i
         /\ \A b \in Accounts \ {a} : doc'[b] = doc[b]
         /\ \A b \in Accounts : doc'[b].barred = doc[b].barred /\ doc'[b].session = doc[b].session
<1>1. doc[a] \in Docs
  BY DEF TypeOK
<1>2. /\ [doc[a] EXCEPT !.otp = n, !.attempts = i].otp = n
      /\ [doc[a] EXCEPT !.otp = n, !.attempts = i].attempts = i
      /\ [doc[a] EXCEPT !.otp = n, !.attempts = i].barred = doc[a].barred
      /\ [doc[a] EXCEPT !.otp = n, !.attempts = i].session = doc[a].session
  BY <1>1 DEF Docs
<1> DEFINE r == [doc[a] EXCEPT !.otp = n, !.attempts = i]
<1>3. doc'[a] = r /\ \A b \in Accounts \ {a} : doc'[b] = doc[b]
  BY OneDoc
<1>4. r.otp = n /\ r.attempts = i /\ r.barred = doc[a].barred /\ r.session = doc[a].session
  BY <1>2
<1> HIDE DEF r
<1>5. QED BY <1>3, <1>4

CodeInv == CodesApart /\ Unsaved /\ AttemptsLimited /\ OneSignInPerCode /\ AttemptsCounted

LEMMA QuietCodes ==
  ASSUME IInv, QuietStep
  PROVE  CodeInv'
<1> USE DEF IInv
<1>1. /\ \A a \in Accounts : doc'[a].otp = doc[a].otp /\ doc'[a].attempts = doc[a].attempts
      /\ issued' = issued /\ wrong' = wrong /\ accepted' = accepted
  BY DEF QuietStep, SameCodes, codeVars
<1>2. CodesApart'
  BY <1>1 DEF CodesApart
<1>3. Unsaved'
  <2> SUFFICES ASSUME NEW c \in Calls, call'[c].at = "save"
               PROVE  /\ wrong[call'[c].code] = 0
                      /\ accepted[call'[c].code] = 0
                      /\ \A a \in Accounts : doc[a].otp # call'[c].code
                      /\ \A d \in Calls \ {c} : call'[d].code # call'[c].code
    BY <1>1 DEF Unsaved, At
  <2>1. call'[c] = call[c]
    BY DEF QuietStep, QuietCall, BegunRightly, Idle
  <2>2. call[c].at = "save" /\ call[c].code \in issued /\ call[c].code # None
    BY <2>1, Constants DEF CallsOK, At, Coded, TypeOK
  <2>3. /\ wrong[call[c].code] = 0 /\ accepted[call[c].code] = 0
        /\ \A a \in Accounts : doc[a].otp # call[c].code
        /\ \A d \in Calls \ {c} : call[d].code # call[c].code
    BY <2>2 DEF Unsaved, At
  <2>4. ASSUME NEW d \in Calls \ {c} PROVE call'[d].code # call[c].code
    <3>1. QuietCall(d)
      BY DEF QuietStep
    <3>2. CASE call'[d] = call[d]
      BY <2>3, <3>2
    <3>3. CASE call'[d] = Idle
      BY <2>2, <3>3 DEF Idle
    <3>4. CASE BegunRightly(d, call'[d])
      BY <2>2, <2>3, <3>4 DEF BegunRightly, Coded
    <3>5. QED BY <3>1, <3>2, <3>3, <3>4 DEF QuietCall
  <2>5. QED BY <2>1, <2>3, <2>4
<1>4. AttemptsLimited' /\ OneSignInPerCode' /\ AttemptsCounted'
  BY <1>1 DEF AttemptsLimited, OneSignInPerCode, AttemptsCounted
<1>5. QED BY <1>2, <1>3, <1>4 DEF CodeInv

LEMMA SendOtpCodes ==
  ASSUME IInv, NEW u \in Users, NEW n \in Codes, SendOtp(u, n)
  PROVE  CodeInv'
<1> USE DEF IInv
<1>1. /\ n \notin issued /\ issued' = issued \cup {n}
      /\ UNCHANGED <<call, wrong, accepted>>
  BY DEF SendOtp, Makes
<1>2. /\ doc'[u].otp = n /\ doc'[u].attempts = 0
      /\ \A b \in Accounts \ {u} : doc'[b] = doc[b]
      /\ u \in Accounts /\ n # None
  BY StoresOne, Constants DEF SendOtp
<1>3. wrong[n] = 0 /\ accepted[n] = 0
  BY <1>1 DEF CodesApart
<1>4. CodesApart'
  BY <1>1, <1>2, <1>3 DEF CodesApart
<1>5. Unsaved'
  BY <1>1, <1>2 DEF Unsaved, CallsOK, At, Coded
<1>6. AttemptsLimited' /\ OneSignInPerCode' /\ AttemptsCounted'
  BY <1>1, <1>2, <1>3, Constants DEF AttemptsLimited, OneSignInPerCode, AttemptsCounted
<1>7. QED BY <1>4, <1>5, <1>6 DEF CodeInv

LEMMA LoginCodes ==
  ASSUME IInv, NEW c \in Calls, NEW a \in Admins, NEW n \in Codes, AdminLogin(c, a, n)
  PROVE  CodeInv'
<1> USE DEF IInv
<1>1. /\ \A d \in Calls \ {c} : call'[d] = call[d]
      /\ call[c].at = "idle" /\ call'[c].at = "save" /\ call'[c].code = n
      /\ n \notin issued /\ issued' = issued \cup {n}
      /\ UNCHANGED <<doc, wrong, accepted>>
  BY LoginCall DEF At, history
<1>2. wrong[n] = 0 /\ accepted[n] = 0 /\ \A b \in Accounts : doc[b].otp # n
  BY <1>1, Constants DEF CodesApart
<1>3. CodesApart'
  BY <1>1 DEF CodesApart
<1>4. Unsaved'
  <2>1. \A d \in Calls \ {c} : call[d].code # n
    BY <1>1, Constants DEF CallsOK, At
  <2>2. \A d \in Calls \ {c} : call'[d].at = "save" => call[d].code # n
    BY <2>1
  <2>3. QED BY <1>1, <1>2, <2>1, <2>2 DEF Unsaved, At
<1>5. AttemptsLimited' /\ OneSignInPerCode' /\ AttemptsCounted'
  BY <1>1 DEF AttemptsLimited, OneSignInPerCode, AttemptsCounted
<1>6. QED BY <1>3, <1>4, <1>5 DEF CodeInv

LEMMA SaveLoginCodes ==
  ASSUME IInv, NEW c \in Calls, SaveLogin(c)
  PROVE  CodeInv'
<1> USE DEF IInv
<1> DEFINE a == call[c].of
           n == call[c].code
           i == Reset(a, call[c].attempts)
<1>1. /\ \A d \in Calls \ {c} : call'[d] = call[d]
      /\ a \in Accounts /\ n \in issued
      /\ issued' = issued
  BY CodeCalls DEF CodeAction, codeVars
<1>2. n \in Codes /\ n # None /\ i \in Nat /\ i <= MaxAttempts
  <2>1. n \in Codes /\ n # None
    BY <1>1, Constants DEF TypeOK
  <2>2. i \in Nat /\ i <= MaxAttempts
    BY <1>1, ResetLimited, CallParts
  <2>3. QED BY <2>1, <2>2
<1>3. /\ call[c].at = "save" /\ call'[c] = Idle
      /\ UNCHANGED <<wrong, accepted>>
  BY IdleHeld, OneCall DEF SaveLogin, At
<1>4. /\ doc'[a].otp = n /\ doc'[a].attempts = i
      /\ \A b \in Accounts \ {a} : doc'[b] = doc[b]
  BY <1>1, <1>2, StoresOne DEF SaveLogin
<1>5. /\ wrong[n] = 0 /\ accepted[n] = 0
      /\ \A b \in Accounts : doc[b].otp # n
      /\ \A d \in Calls \ {c} : call[d].code # n
  BY <1>3 DEF Unsaved, At
<1> HIDE DEF a, n, i
<1>6. CodesApart'
  BY <1>1, <1>2, <1>3, <1>4, <1>5 DEF CodesApart
<1>7. Unsaved'
  <2> SUFFICES ASSUME NEW d \in Calls, call'[d].at = "save"
               PROVE  /\ wrong'[call'[d].code] = 0
                      /\ accepted'[call'[d].code] = 0
                      /\ \A b \in Accounts : doc'[b].otp # call'[d].code
                      /\ \A e \in Calls \ {d} : call'[e].code # call'[d].code
    BY DEF Unsaved, At
  <2>1. d # c /\ call'[d] = call[d] /\ call'[c].code = None
    BY <1>1, <1>3 DEF Idle
  <2>2. /\ call[d].code \in issued /\ wrong[call[d].code] = 0 /\ accepted[call[d].code] = 0
        /\ \A b \in Accounts : doc[b].otp # call[d].code
        /\ \A e \in Calls \ {d} : call[e].code # call[d].code
    BY <2>1 DEF Unsaved, CallsOK, At, Coded
  <2>3. call[d].code # n /\ call[d].code # None
    BY <1>5, <2>1, <2>2, Constants DEF TypeOK
  <2>4. \A e \in Calls \ {d} : call'[e].code # call[d].code
    BY <1>1, <2>1, <2>2, <2>3
  <2>5. \A b \in Accounts : doc'[b].otp # call[d].code
    BY <1>4, <2>2, <2>3
  <2>6. QED BY <1>3, <2>1, <2>2, <2>4, <2>5
<1>8. AttemptsLimited' /\ OneSignInPerCode' /\ AttemptsCounted'
  BY <1>1, <1>2, <1>3, <1>4, <1>5 DEF AttemptsLimited, OneSignInPerCode, AttemptsCounted
<1>9. QED BY <1>6, <1>7, <1>8 DEF CodeInv

\* An account whose code is taken away, while no code is made and none judged wrong.
LEMMA TakenCodes ==
  ASSUME IInv, NEW c \in Calls, NEW a \in Accounts, NEW i \in Nat, i <= MaxAttempts,
         CodeAction(c), call'[c].at # "save", call'[c].code \in {None, call[c].code},
         Stores(a, None, i), wrong' = wrong,
         \/ accepted' = accepted
         \/ doc[a].otp # None /\ accepted' = [accepted EXCEPT ![doc[a].otp] = @ + 1]
  PROVE  CodeInv'
<1> USE DEF IInv
<1>1. (\A d \in Calls \ {c} : call'[d] = call[d]) /\ issued' = issued
  BY CodeCalls DEF codeVars
<1>2. /\ doc'[a].otp = None /\ doc'[a].attempts = i
      /\ \A b \in Accounts \ {a} : doc'[b] = doc[b]
  BY StoresOne
<1>3. \A n \in Codes : \/ accepted'[n] = accepted[n]
                       \/ /\ n = doc[a].otp
                          /\ n # None
                          /\ accepted'[n] = accepted[n] + 1
  <2>1. doc[a].otp # None => doc[a].otp \in Codes
    BY DEF TypeOK, Docs
  <2>2. accepted \in [Codes -> Nat]
    BY DEF TypeOK
  <2>3. CASE accepted' = accepted
    BY <2>3
  <2>4. CASE doc[a].otp # None /\ accepted' = [accepted EXCEPT ![doc[a].otp] = @ + 1]
    <3> DEFINE m == doc[a].otp
    <3>1. m \in Codes /\ accepted' = [accepted EXCEPT ![m] = accepted[m] + 1]
      BY <2>1, <2>4
    <3> HIDE DEF m
    <3>2. accepted'[m] = accepted[m] + 1 /\ \A n \in Codes \ {m} : accepted'[n] = accepted[n]
      BY <2>2, <3>1
    <3>3. QED BY <2>4, <3>2 DEF m
  <2>5. QED BY <2>3, <2>4
<1>4. doc[a].otp # None => doc[a].otp \in issued /\ accepted[doc[a].otp] = 0
  BY DEF CodesApart
<1>5. CodesApart'
  <2>1. \A n \in Codes \ issued : wrong[n] = 0 /\ accepted'[n] = 0
    BY <1>3, <1>4 DEF CodesApart
  <2>2. \A b \in Accounts : doc'[b].otp # None => b # a /\ doc'[b] = doc[b]
    BY <1>2
  <2>3. \A b \in Accounts : doc'[b].otp # None => accepted'[doc'[b].otp] = 0
    BY <1>3, <2>2 DEF CodesApart, TypeOK
  <2>4. \A b \in Accounts : doc'[b].otp # None => doc'[b].otp \in issued
    BY <2>2 DEF CodesApart
  <2>5. \A b, e \in Accounts : doc'[b].otp = doc'[e].otp /\ doc'[b].otp # None => b = e
    BY <2>2 DEF CodesApart
  <2>6. QED BY <1>1, <2>1, <2>3, <2>4, <2>5 DEF CodesApart
<1>6. Unsaved'
  <2> SUFFICES ASSUME NEW d \in Calls, call'[d].at = "save"
               PROVE  /\ wrong'[call'[d].code] = 0
                      /\ accepted'[call'[d].code] = 0
                      /\ \A b \in Accounts : doc'[b].otp # call'[d].code
                      /\ \A e \in Calls \ {d} : call'[e].code # call'[d].code
    BY DEF Unsaved, At
  <2>1. d # c /\ call'[d] = call[d]
    BY <1>1
  <2>2. /\ call[d].code \in issued /\ wrong[call[d].code] = 0 /\ accepted[call[d].code] = 0
        /\ \A b \in Accounts : doc[b].otp # call[d].code
        /\ \A e \in Calls \ {d} : call[e].code # call[d].code
    BY <2>1 DEF Unsaved, CallsOK, At, Coded
  <2>3. call[d].code \in Codes /\ call[d].code # None
    BY <2>2, Constants DEF TypeOK
  <2>4. accepted'[call[d].code] = 0
    BY <1>3, <2>2, <2>3
  <2>5. \A b \in Accounts : doc'[b].otp # call[d].code
    BY <1>2, <2>2, <2>3
  <2>6. \A e \in Calls \ {d} : call'[e].code # call[d].code
    BY <1>1, <2>1, <2>2, <2>3
  <2>7. QED BY <2>1, <2>2, <2>4, <2>5, <2>6
<1>7. AttemptsLimited' /\ AttemptsCounted'
  BY <1>2 DEF AttemptsLimited, AttemptsCounted
<1>8. OneSignInPerCode'
  BY <1>3, <1>4 DEF OneSignInPerCode, TypeOK
<1>9. QED BY <1>5, <1>6, <1>7, <1>8 DEF CodeInv

LEMMA CountWrongCodes ==
  ASSUME IInv, NEW c \in Calls, CountWrong(c)
  PROVE  CodeInv'
<1> USE DEF IInv
<1> DEFINE a == call[c].of
           n == call[c].code
<1>1. /\ \A d \in Calls \ {c} : call'[d] = call[d]
      /\ a \in Accounts /\ n \in issued /\ n \in Codes /\ n # None
      /\ issued' = issued /\ accepted' = accepted
      /\ call'[c] = Idle \/ call'[c] = [call[c] EXCEPT !.at = "void"]
      /\ call[c].at = "wrong"
  BY CodeCalls, Constants DEF CodeAction, codeVars, CountWrong, At, TypeOK
<1>2. call'[c].at # "save" /\ call'[c].code \in {None, n}
  <2>1. CASE call'[c] = Idle
    BY <2>1 DEF Idle
  <2>2. CASE call'[c] = [call[c] EXCEPT !.at = "void"]
    <3>1. call'[c].at = "void" /\ call'[c].code = call[c].code
      BY <2>2, VoidHeld
    <3>2. QED BY <3>1
  <2>3. QED BY <1>1, <2>1, <2>2
<1>3. CASE doc[a].otp = n /\ doc[a].attempts < MaxAttempts
  <2>1. /\ doc' = [doc EXCEPT ![a].attempts = doc[a].attempts + 1]
        /\ wrong' = [wrong EXCEPT ![n] = @ + 1]
    BY <1>3 DEF CountWrong, Countable
  <2>2. /\ doc'[a].otp = n /\ doc'[a].attempts = doc[a].attempts + 1
        /\ \A b \in Accounts \ {a} : doc'[b] = doc[b]
    <3>1. doc[a] \in Docs /\ doc \in [Accounts -> Docs]
      BY <1>1 DEF TypeOK
    <3>2. doc' = [doc EXCEPT ![a] = [doc[a] EXCEPT !.attempts = doc[a].attempts + 1]]
      BY <2>1
    <3>3. /\ [doc[a] EXCEPT !.attempts = doc[a].attempts + 1].attempts = doc[a].attempts + 1
          /\ [doc[a] EXCEPT !.attempts = doc[a].attempts + 1].otp = doc[a].otp
      BY <3>1 DEF Docs
    <3>4. QED BY <1>1, <1>3, <3>1, <3>2, <3>3
  <2>3. wrong'[n] = wrong[n] + 1 /\ \A m \in Codes \ {n} : wrong'[m] = wrong[m]
    BY <1>1, <2>1 DEF TypeOK
  <2>4. /\ wrong[n] <= doc[a].attempts /\ wrong[n] \in Nat /\ doc[a].attempts \in Nat
        /\ accepted[n] = 0
    BY <1>1, <1>3 DEF AttemptsCounted, TypeOK, Docs, CodesApart
  <2> HIDE DEF a, n
  <2>5. CodesApart'
    <3>1. \A b \in Accounts : doc'[b].otp = doc[b].otp
      BY <1>3, <2>2
    <3>2. \A m \in Codes \ issued : wrong'[m] = 0 /\ accepted[m] = 0
      BY <1>1, <2>3 DEF CodesApart
    <3>3. QED BY <1>1, <3>1, <3>2 DEF CodesApart
  <2>6. Unsaved'
    <3> SUFFICES ASSUME NEW d \in Calls, call'[d].at = "save"
                 PROVE  /\ wrong'[call'[d].code] = 0
                        /\ accepted'[call'[d].code] = 0
                        /\ \A b \in Accounts : doc'[b].otp # call'[d].code
                        /\ \A e \in Calls \ {d} : call'[e].code # call'[d].code
      BY DEF Unsaved, At
    <3>1. d # c /\ call'[d] = call[d]
      BY <1>1, <1>2
    <3>2. /\ call[d].code \in issued /\ wrong[call[d].code] = 0 /\ accepted[call[d].code] = 0
          /\ \A b \in Accounts : doc[b].otp # call[d].code
          /\ \A e \in Calls \ {d} : call[e].code # call[d].code
      BY <3>1 DEF Unsaved, CallsOK, At, Coded
    <3>3. call[d].code # n /\ call[d].code \in Codes /\ call[d].code # None
      BY <1>1, <1>3, <3>2, Constants DEF TypeOK
    <3>4. wrong'[call[d].code] = 0
      BY <2>3, <3>2, <3>3
    <3>5. \A b \in Accounts : doc'[b].otp # call[d].code
      BY <2>2, <3>2, <3>3
    <3>6. \A e \in Calls \ {d} : call'[e].code # call[d].code
      BY <1>1, <1>2, <3>2, <3>3
    <3>7. QED BY <1>1, <3>1, <3>2, <3>4, <3>5, <3>6
  <2>7. AttemptsLimited'
    BY <1>3, <2>2, <2>4, Constants DEF AttemptsLimited
  <2>8. OneSignInPerCode'
    BY <1>1 DEF OneSignInPerCode
  <2>9. AttemptsCounted'
    <3>1. \A m \in Codes : wrong'[m] <= MaxAttempts
      BY <1>3, <2>3, <2>4, Constants DEF AttemptsCounted
    <3>2. \A b \in Accounts : doc'[b].otp # None => wrong'[doc'[b].otp] <= doc'[b].attempts
      <4> SUFFICES ASSUME NEW b \in Accounts, doc'[b].otp # None
                   PROVE  wrong'[doc'[b].otp] <= doc'[b].attempts
        OBVIOUS
      <4>1. CASE b = a
        BY <2>2, <2>3, <2>4, <4>1
      <4>2. CASE b # a
        <5>1. doc'[b] = doc[b] /\ doc[b].otp \in Codes /\ doc[b].otp # n
          BY <1>1, <1>3, <2>2, <4>2 DEF CodesApart, TypeOK
        <5>2. QED BY <2>3, <5>1 DEF AttemptsCounted
      <4>3. QED BY <4>1, <4>2
    <3>3. QED BY <3>1, <3>2 DEF AttemptsCounted
  <2>10. QED BY <2>5, <2>6, <2>7, <2>8, <2>9 DEF CodeInv
<1>4. CASE ~(doc[a].otp = n /\ doc[a].attempts < MaxAttempts)
  <2>1. UNCHANGED <<doc, wrong>>
    BY <1>4 DEF CountWrong, Countable
  <2>2. CodesApart' /\ AttemptsLimited' /\ OneSignInPerCode' /\ AttemptsCounted'
    BY <1>1, <2>1 DEF CodesApart, AttemptsLimited, OneSignInPerCode, AttemptsCounted
  <2>3. Unsaved'
    <3> HIDE DEF a
    <3>1. \A d \in Calls : call'[d].at = "save" =>
            d # c /\ call'[d] = call[d] /\ call[d].code # None
      BY <1>1, <1>2, Constants DEF CallsOK, At, Coded, TypeOK
    <3>2. \A d \in Calls : call'[d].at = "save" => call[d].code # n
      BY <3>1, <1>1 DEF Unsaved, At, n
    <3>3. QED BY <1>1, <1>2, <2>1, <3>1, <3>2 DEF Unsaved, At
  <2>4. QED BY <2>2, <2>3 DEF CodeInv
<1>5. QED BY <1>3, <1>4

LEMMA CodesStep ==
  ASSUME IInv, [Next]_vars
  PROVE  CodeInv'
<1> USE DEF IInv
<1>1. ASSUME NEW c \in Calls, SaveLogin(c) \/ CountWrong(c) PROVE CodeInv'
  BY <1>1, SaveLoginCodes, CountWrongCodes
<1>2. ASSUME NEW c \in Calls, ClearExpired(c) PROVE CodeInv'
  <2>1. call[c].of \in Accounts /\ call'[c] = Idle /\ CodeAction(c)
    BY <1>2, CodeCalls, IdleHeld, OneCall DEF CodeAction, ClearExpired
  <2> DEFINE i == Reset(call[c].of, call[c].attempts)
  <2>2. i \in Nat /\ i <= MaxAttempts
    BY <2>1, ResetIn, CallParts, Constants DEF AttemptsLimited
  <2>3. Stores(call[c].of, None, i) /\ UNCHANGED <<wrong, accepted>>
    BY <1>2 DEF ClearExpired
  <2> HIDE DEF i
  <2>4. QED BY <2>1, <2>2, <2>3, TakenCodes DEF Idle
<1>3. ASSUME NEW c \in Calls, Void(c) PROVE CodeInv'
  <2>1. call[c].of \in Accounts /\ call'[c] = Idle /\ CodeAction(c)
    BY <1>3, CodeCalls, IdleHeld, OneCall DEF CodeAction, Void
  <2>2. Stores(call[c].of, None, 0) /\ UNCHANGED <<wrong, accepted>>
    BY <1>3 DEF Void
  <2>3. QED BY <2>1, <2>2, TakenCodes, Constants DEF Idle
<1>4. ASSUME NEW c \in Calls, Consume(c) PROVE CodeInv'
  <2>1. /\ \A d \in Calls \ {c} : call'[d] = call[d]
        /\ call[c].of \in Accounts /\ call[c].code \in issued
        /\ issued' = issued /\ wrong' = wrong
        /\ call[c].at = "right"
    BY <1>4, CodeCalls DEF CodeAction, Consume, codeVars, At
  <2>2. CASE ~Matches(c)
    <3>1. UNCHANGED <<doc, accepted>> /\ call'[c] = Idle
      BY <1>4, <2>2, IdleHeld, OneCall DEF Consume
    <3>2. CodesApart' /\ AttemptsLimited' /\ OneSignInPerCode' /\ AttemptsCounted'
      BY <2>1, <3>1 DEF CodesApart, AttemptsLimited, OneSignInPerCode, AttemptsCounted
    <3>3. Unsaved'
      <4>1. \A d \in Calls : call'[d].at = "save" =>
              d # c /\ call'[d] = call[d] /\ call[d].code # None
        BY <2>1, <3>1, Constants DEF CallsOK, At, Coded, TypeOK, Idle
      <4>2. QED BY <2>1, <3>1, <4>1 DEF Unsaved, At, Idle
    <3>4. QED BY <3>2, <3>3 DEF CodeInv
  <2>3. CASE Matches(c)
    <3>1. /\ Stores(call[c].of, None, 0)
          /\ accepted' = [accepted EXCEPT ![doc[call[c].of].otp] = @ + 1]
          /\ doc[call[c].of].otp # None
      BY <1>4, <2>1, <2>3, Constants DEF Consume, Matches, TypeOK
    <3>2. call'[c] = Idle \/ call'[c] = [call[c] EXCEPT !.at = "open"]
      BY <1>4, IdleHeld, VoidHeld, OneCall DEF Consume
    <3>3. call'[c].at # "save" /\ call'[c].code \in {None, call[c].code}
      <4>1. CASE call'[c] = Idle
        BY <4>1 DEF Idle
      <4>2. CASE call'[c] = [call[c] EXCEPT !.at = "open"]
        <5>1. call'[c].at = "open" /\ call'[c].code = call[c].code
          BY <4>2, VoidHeld
        <5>2. QED BY <5>1
      <4>3. QED BY <3>2, <4>1, <4>2
    <3>4. CodeAction(c) /\ 0 \in Nat /\ 0 <= MaxAttempts
      BY <1>4, Constants DEF CodeAction
    <3>5. QED BY <2>1, <3>1, <3>3, <3>4, TakenCodes
  <2>4. QED BY <2>2, <2>3
<1>5. QED
  BY <1>1, <1>2, <1>3, <1>4, QuietOrCode, QuietCodes, SendOtpCodes, LoginCodes
     DEF CodeStep, CodeAction

-----------------------------------------------------------------------------
(***************************************************************************)
(* What calls are about to take away.                                      *)
(***************************************************************************)

JudgedCall(c) ==
  /\ At(c, "expired") => expiry[call[c].code] < now
  /\ At(c, "void") /\ doc[call[c].of].otp = call[c].code =>
       doc[call[c].of].attempts >= MaxAttempts
  /\ At(c, "over") => call[c].session < now

\* A call that does not move is judged as before, unless the code of its account was
\* replaced by its own.
LEMMA SameJudgement ==
  ASSUME IInv, TypeOK', NEW c \in Calls, call'[c] = call[c],
         \A n \in issued : expiry'[n] = expiry[n], now <= now',
         \A a \in Accounts :
           \/ doc'[a].otp # call[c].code
           \/ At(c, "idle")
           \/ doc'[a].otp = doc[a].otp /\ doc'[a].attempts >= doc[a].attempts
  PROVE  JudgedCall(c)'
<1> USE DEF IInv
<1>1. JudgedCall(c) /\ now \in Nat /\ now' \in Nat
  BY DEF JudgedRightly, JudgedCall, TypeOK
<1>2. ASSUME call[c].at = "expired" PROVE expiry'[call[c].code] < now'
  <2>1. call[c].code \in issued /\ call[c].code \in Codes
    BY <1>2 DEF CallsOK, At, Coded, TypeOK
  <2>2. expiry[call[c].code] < now /\ expiry[call[c].code] \in Nat
    BY <1>1, <1>2, <2>1 DEF JudgedCall, At, TypeOK
  <2>3. expiry'[call[c].code] = expiry[call[c].code]
    BY <2>1
  <2>4. QED BY <1>1, <2>2, <2>3
<1>3. ASSUME call[c].at = "void", doc'[call[c].of].otp = call[c].code
      PROVE  doc'[call[c].of].attempts >= MaxAttempts
  <2>1. call[c].of \in Accounts
    BY <1>3 DEF CallsOK, At
  <2>2. /\ doc'[call[c].of].otp = doc[call[c].of].otp
        /\ doc'[call[c].of].attempts >= doc[call[c].of].attempts
    BY <1>3, <2>1 DEF At
  <2>3. doc[call[c].of].attempts >= MaxAttempts
    BY <1>1, <1>3, <2>2 DEF JudgedCall, At
  <2>4. doc[call[c].of].attempts \in Nat /\ doc'[call[c].of].attempts \in Nat
    BY <2>1 DEF TypeOK, Docs
  <2>5. QED BY <2>2, <2>3, <2>4, Constants
<1>4. ASSUME call[c].at = "over" PROVE call[c].session < now'
  <2>1. call[c].session < now
    BY <1>1, <1>4 DEF JudgedCall, At
  <2>2. QED BY <1>1, <2>1, CallParts
<1>5. QED BY <1>2, <1>3, <1>4 DEF JudgedCall, At

LEMMA IdleJudgement ==
  ASSUME NEW c \in Calls, call'[c].at \notin {"expired", "void", "over"}
  PROVE  JudgedCall(c)'
BY DEF JudgedCall, At

LEMMA JudgedStep ==
  ASSUME IInv, TypeOK', [Next]_vars
  PROVE  JudgedRightly'
<1> USE DEF IInv
<1> SUFFICES ASSUME NEW c \in Calls PROVE JudgedCall(c)'
  BY DEF JudgedRightly, JudgedCall
<1>1. CASE QuietStep
  <2>1. /\ \A a \in Accounts : doc'[a].otp = doc[a].otp /\ doc'[a].attempts = doc[a].attempts
        /\ \A a \in Accounts : doc[a].attempts \in Nat
        /\ expiry' = expiry /\ now \in Nat /\ now' \in Nat /\ now <= now'
        /\ QuietCall(c)
    BY <1>1 DEF QuietStep, SameCodes, codeVars, TypeOK, Docs
  <2>2. CASE call'[c] = call[c]
    <3>1. \A a \in Accounts : doc'[a].otp = doc[a].otp /\ doc'[a].attempts >= doc[a].attempts
      BY <2>1
    <3>2. \A n \in issued : expiry'[n] = expiry[n]
      BY <2>1
    <3>3. QED BY <2>1, <2>2, <3>1, <3>2, SameJudgement
  <2>3. CASE call'[c] = Idle
    BY <2>3, IdleJudgement DEF Idle
  <2>4. CASE BegunRightly(c, call'[c])
    <3>1. /\ call'[c].at # "void"
          /\ call'[c].at = "expired" => expiry[call'[c].code] < now /\ call'[c].code \in Codes
          /\ call'[c].at = "over" => call'[c].session < now
      BY <2>4, Constants DEF BegunRightly, Coded, TypeOK, Docs
    <3>2. call'[c].session \in Nat /\ \A n \in Codes : expiry[n] \in Nat
      BY DEF TypeOK, Held
    <3>3. QED BY <2>1, <3>1, <3>2 DEF JudgedCall, At
  <2>5. QED BY <2>1, <2>2, <2>3, <2>4 DEF QuietCall
<1>2. ASSUME NEW u \in Users, NEW n \in Codes, SendOtp(u, n) PROVE JudgedCall(c)'
  <2>1. /\ doc'[u].otp = n /\ \A b \in Accounts \ {u} : doc'[b] = doc[b]
        /\ call' = call /\ n \notin issued /\ now' = now
        /\ \A m \in issued : expiry'[m] = expiry[m]
    BY <1>2, StoresOne, MakesType, Constants DEF SendOtp, Makes
  <2>2. call[c].code # n
    BY <2>1, Constants DEF CallsOK, At
  <2>3. \A a \in Accounts : doc[a].attempts \in Nat
    BY DEF TypeOK, Docs
  <2>4. \A a \in Accounts : \/ doc'[a].otp # call[c].code
                            \/ doc'[a].otp = doc[a].otp /\ doc'[a].attempts >= doc[a].attempts
    BY <2>1, <2>2, <2>3
  <2>5. now <= now'
    BY <2>1 DEF TypeOK
  <2>6. QED BY <2>1, <2>4, <2>5, SameJudgement
<1>3. ASSUME NEW d \in Calls, NEW a \in Admins, NEW n \in Codes, AdminLogin(d, a, n)
      PROVE  JudgedCall(c)'
  <2>1. CASE c = d
    BY <1>3, <2>1, LoginCall, IdleJudgement
  <2>2. CASE c # d
    <3>1. /\ call'[c] = call[c] /\ doc' = doc /\ now' = now
          /\ \A m \in issued : expiry'[m] = expiry[m]
      BY <1>3, <2>2, LoginCall
    <3>2. \A b \in Accounts : doc'[b].otp = doc[b].otp /\ doc'[b].attempts >= doc[b].attempts
      BY <3>1 DEF TypeOK, Docs
    <3>3. now <= now'
      BY <3>1 DEF TypeOK
    <3>4. QED BY <3>1, <3>2, <3>3, SameJudgement
  <2>3. QED BY <2>1, <2>2
<1>4. ASSUME NEW d \in Calls, CodeAction(d) PROVE JudgedCall(c)'
  <2>1. /\ \A e \in Calls \ {d} : call'[e] = call[e]
        /\ call[d].of \in Accounts /\ call[d].code \in issued
        /\ expiry' = expiry /\ now' = now
    BY <1>4, CodeCalls DEF codeVars
  <2>2. /\ now <= now'
        /\ \A b \in Accounts : doc[b].attempts \in Nat
        /\ \A n \in issued : expiry'[n] = expiry[n]
    BY <2>1 DEF TypeOK, Docs
  <2>3. CASE CountWrong(d)
    <3> DEFINE a == call[d].of
    <3>1. \A b \in Accounts : doc'[b].otp = doc[b].otp /\ doc'[b].attempts >= doc[b].attempts
      <4>1. CASE Countable(d)
        <5>1. doc' = [doc EXCEPT ![a].attempts = doc[a].attempts + 1]
          BY <2>3, <4>1 DEF CountWrong
        <5>2. doc[a] \in Docs /\ doc \in [Accounts -> Docs]
          BY <2>1 DEF TypeOK
        <5>3. doc' = [doc EXCEPT ![a] = [doc[a] EXCEPT !.attempts = doc[a].attempts + 1]]
          BY <5>1
        <5>4. /\ [doc[a] EXCEPT !.attempts = doc[a].attempts + 1].attempts = doc[a].attempts + 1
              /\ [doc[a] EXCEPT !.attempts = doc[a].attempts + 1].otp = doc[a].otp
          BY <5>2 DEF Docs
        <5>5. QED BY <2>1, <2>2, <5>2, <5>3, <5>4
      <4>2. CASE ~Countable(d)
        BY <2>2, <2>3, <4>2 DEF CountWrong
      <4>3. QED BY <4>1, <4>2
    <3>2. CASE c # d
      BY <2>1, <2>2, <3>1, <3>2, SameJudgement
    <3>3. CASE c = d
      <4>1. CASE call'[c] = Idle
        BY <4>1, IdleJudgement DEF Idle
      <4>2. CASE call'[c] = [call[c] EXCEPT !.at = "void"]
        <5>1. call'[c].at = "void" /\ call'[c].of = a /\ call'[c].code = call[d].code
          BY <3>3, <4>2, VoidHeld
        <5>2. CASE Countable(d)
          <6>1. Spent(doc[a].attempts + 1)
            <7>1. call'[c] = IF Spent(doc[a].attempts + 1) THEN [call[d] EXCEPT !.at = "void"] ELSE Idle
              BY <2>3, <3>3, <5>2, IdleHeld, VoidHeld, OneCall DEF CountWrong
            <7>2. QED BY <5>1, <7>1 DEF Idle
          <6>2. doc'[a].attempts = doc[a].attempts + 1
            <7>1. doc' = [doc EXCEPT ![a].attempts = doc[a].attempts + 1]
              BY <2>3, <5>2 DEF CountWrong
            <7>2. doc[a] \in Docs /\ doc \in [Accounts -> Docs]
              BY <2>1 DEF TypeOK
            <7>3. QED BY <2>1, <7>1, <7>2 DEF Docs
          <6>3. QED BY <5>1, <6>1, <6>2 DEF JudgedCall, At, Spent
        <5>3. CASE ~Countable(d)
          <6>1. doc' = doc
            BY <2>3, <5>3 DEF CountWrong
          <6>2. doc[a].otp = call[d].code => doc[a].attempts >= MaxAttempts
            BY <2>1, <2>2, <5>3, Constants DEF Countable
          <6>3. QED BY <5>1, <6>1, <6>2 DEF JudgedCall, At
        <5>4. QED BY <5>2, <5>3
      <4>3. QED BY <1>4, <2>3, <3>3, <4>1, <4>2, CodeCalls DEF CountWrong, At
    <3>4. QED BY <3>2, <3>3
  <2>4. CASE ~CountWrong(d)
    <3>1. call'[d].at \notin {"expired", "void", "over"}
      <4>1. call'[d] = Idle \/ call'[d] = [call[d] EXCEPT !.at = "open"]
        BY <1>4, <2>4, IdleHeld, VoidHeld, OneCall
           DEF CodeAction, SaveLogin, ClearExpired, Void, Consume
      <4>2. CASE call'[d] = Idle
        BY <4>2 DEF Idle
      <4>3. CASE call'[d] = [call[d] EXCEPT !.at = "open"]
        <5>1. call'[d].at = "open"
          BY <4>3, VoidHeld
        <5>2. QED BY <5>1
      <4>4. QED BY <4>1, <4>2, <4>3
    <3>2. CASE c = d
      BY <3>1, <3>2, IdleJudgement
    <3>3. CASE c # d
      <4>1. \A b \in Accounts : \/ doc'[b].otp # call[c].code
                                \/ At(c, "idle")
                                \/ call[c].code = None
                                \/ doc'[b].otp = doc[b].otp /\ doc'[b].attempts >= doc[b].attempts
        <5>1. CASE SaveLogin(d)
          <6>1. Reset(call[d].of, call[d].attempts) \in Nat /\ call[d].code \in Codes
            BY <2>1, ResetIn, CallParts DEF TypeOK
          <6>2. /\ doc'[call[d].of].otp = call[d].code
                /\ \A b \in Accounts \ {call[d].of} : doc'[b] = doc[b]
            BY <2>1, <5>1, <6>1, StoresOne DEF SaveLogin
          <6>3. call[c].code # call[d].code
            BY <3>3, <5>1 DEF SaveLogin, Unsaved
          <6>4. QED BY <2>2, <6>2, <6>3
        <5>2. CASE ClearExpired(d)
          <6>1. Reset(call[d].of, call[d].attempts) \in Nat
            BY <2>1, ResetIn, CallParts
          <6>2. /\ doc'[call[d].of].otp = None
                /\ \A b \in Accounts \ {call[d].of} : doc'[b] = doc[b]
            BY <2>1, <5>2, <6>1, StoresOne DEF ClearExpired
          <6>3. QED BY <2>2, <6>2
        <5>3. CASE Void(d)
          <6>1. /\ doc'[call[d].of].otp = None
                /\ \A b \in Accounts \ {call[d].of} : doc'[b] = doc[b]
            BY <2>1, <5>3, StoresOne DEF Void
          <6>2. QED BY <2>2, <6>1
        <5>4. CASE Consume(d) /\ Matches(d)
          <6>1. /\ doc'[call[d].of].otp = None
                /\ \A b \in Accounts \ {call[d].of} : doc'[b] = doc[b]
            BY <2>1, <5>4, StoresOne DEF Consume
          <6>2. QED BY <2>2, <6>1
        <5>5. CASE Consume(d) /\ ~Matches(d)
          BY <2>2, <5>5 DEF Consume
        <5>6. QED BY <1>4, <2>4, <5>1, <5>2, <5>3, <5>4, <5>5 DEF CodeAction
      <4>2. CASE call[c].code = None
        <5>1. call[c].at \notin {"expired", "void"}
          BY <4>2, Constants DEF CallsOK, At, Coded, TypeOK
        <5>2. call'[c] = call[c]
          BY <2>1, <3>3
        <5>3. call[c].at = "over" => call[c].session < now'
          BY <2>1 DEF JudgedRightly, At
        <5>4. QED BY <5>1, <5>2, <5>3 DEF JudgedCall, At
      <4>3. CASE call[c].code # None
        BY <2>1, <2>2, <3>3, <4>1, <4>3, SameJudgement
      <4>4. QED BY <4>2, <4>3
    <3>4. QED BY <3>2, <3>3
  <2>5. QED BY <2>3, <2>4
<1>5. QED BY <1>1, <1>2, <1>3, <1>4, QuietOrCode DEF CodeStep

-----------------------------------------------------------------------------
(***************************************************************************)
(* Spent codes.                                                            *)
(***************************************************************************)

SpentDone(a) ==
  doc[a].attempts >= MaxAttempts => a \in left \/ \E c \in Calls : At(c, "void") /\ call[c].of = a

\* An account that a step does not concern.
LEMMA SpentSame ==
  ASSUME IInv, NEW a \in Accounts, doc'[a].attempts = doc[a].attempts,
         a \in left => a \in left',
         \A c \in Calls : At(c, "void") /\ call[c].of = a => call'[c] = call[c] \/ a \in left'
  PROVE  SpentDone(a)'
<1> SUFFICES ASSUME doc[a].attempts >= MaxAttempts, a \notin left'
             PROVE  \E c \in Calls : call'[c].at = "void" /\ call'[c].of = a
  BY DEF SpentDone, At
<1>1. PICK c \in Calls : At(c, "void") /\ call[c].of = a
  BY DEF IInv, SpentIsVoided
<1>2. call'[c] = call[c]
  BY <1>1
<1>3. QED BY <1>1, <1>2 DEF At

LEMMA SpentZero ==
  ASSUME NEW a \in Accounts, doc'[a].attempts = 0
  PROVE  SpentDone(a)'
BY Constants DEF SpentDone

LEMMA SpentStep ==
  ASSUME IInv, [Next]_vars
  PROVE  SpentIsVoided'
<1> USE DEF IInv
<1> SUFFICES ASSUME NEW a \in Accounts PROVE SpentDone(a)'
  BY DEF SpentIsVoided, SpentDone
<1>1. CASE QuietStep
  <2>1. doc'[a].attempts = doc[a].attempts /\ (a \in left => a \in left')
    BY <1>1 DEF QuietStep, SameCodes
  <2>2. \A c \in Calls : At(c, "void") /\ call[c].of = a => call'[c] = call[c] \/ a \in left'
    BY <1>1 DEF QuietStep, QuietCall, BegunRightly, At
  <2>3. QED BY <2>1, <2>2, SpentSame
<1>2. ASSUME NEW u \in Users, NEW n \in Codes, SendOtp(u, n) PROVE SpentDone(a)'
  <2>1. /\ doc'[u].attempts = 0
        /\ \A b \in Accounts \ {u} : doc'[b] = doc[b]
        /\ call' = call
    BY <1>2, StoresOne, Constants DEF SendOtp
  <2>2. a # u => (a \in left => a \in left')
    BY <1>2 DEF SendOtp, Forgives
  <2>3. CASE a = u
    BY <2>1, <2>3, SpentZero
  <2>4. CASE a # u
    BY <2>1, <2>2, <2>4, SpentSame
  <2>5. QED BY <2>3, <2>4
<1>3. ASSUME NEW d \in Calls, NEW b \in Admins, NEW n \in Codes, AdminLogin(d, b, n)
      PROVE  SpentDone(a)'
  <2>1. /\ \A c \in Calls \ {d} : call'[c] = call[c]
        /\ At(d, "idle") /\ doc' = doc /\ left' = left
    BY <1>3, LoginCall DEF history
  <2>2. \A c \in Calls : At(c, "void") /\ call[c].of = a => call'[c] = call[c]
    BY <2>1 DEF At
  <2>3. QED BY <2>1, <2>2, SpentSame
<1>4. ASSUME NEW d \in Calls, CodeAction(d) PROVE SpentDone(a)'
  <2>1. /\ \A c \in Calls \ {d} : call'[c] = call[c]
        /\ call[d].of \in Accounts
    BY <1>4, CodeCalls
  <2> DEFINE b == call[d].of
             i == Reset(b, call[d].attempts)
  <2>2. doc[b].attempts \in Nat /\ i \in Nat /\ i \in {0, doc[b].attempts}
    BY <2>1, ResetIn, CallParts DEF TypeOK, Docs
  <2>3. ASSUME a = b => doc'[a].attempts = 0,
               a # b => doc'[a].attempts = doc[a].attempts /\ (a \in left => a \in left')
        PROVE  SpentDone(a)'
    <3>1. CASE a = b
      BY <2>3, <3>1, SpentZero
    <3>2. CASE a # b
      <4>1. \A c \in Calls : At(c, "void") /\ call[c].of = a => call'[c] = call[c]
        BY <2>1, <3>2
      <4>2. QED BY <2>3, <3>2, <4>1, SpentSame
    <3>3. QED BY <3>1, <3>2
  <2>4. ASSUME ~At(d, "void"), doc'[a].attempts = doc[a].attempts, a \in left => a \in left'
        PROVE  SpentDone(a)'
    <3>1. \A c \in Calls : At(c, "void") /\ call[c].of = a => call'[c] = call[c]
      BY <2>1, <2>4
    <3>2. QED BY <2>4, <3>1, SpentSame
  <2>5. CASE SaveLogin(d) \/ ClearExpired(d)
    <3>1. PICK n \in Codes \cup {None} : Stores(b, n, i)
      BY <2>5, CallParts DEF SaveLogin, ClearExpired
    <3>2. ~At(d, "void") /\ Forgives(b, i)
      BY <2>5 DEF SaveLogin, ClearExpired, At
    <3>3. doc'[b].attempts = i /\ \A x \in Accounts \ {b} : doc'[x] = doc[x]
      BY <2>1, <2>2, <3>1, StoresOne
    <3> HIDE DEF i, b
    <3>4. a # b => (a \in left => a \in left')
      BY <3>2 DEF Forgives
    <3>5. CASE i = 0
      BY <2>1, <2>3, <3>3, <3>4, <3>5
    <3>6. CASE i # 0
      <4>1. left' = left
        BY <3>2, <3>6 DEF Forgives
      <4>2. doc'[a].attempts = doc[a].attempts
        BY <2>2, <3>3, <3>6
      <4>3. QED BY <2>4, <3>2, <4>1, <4>2
    <3>7. QED BY <3>5, <3>6
  <2>6. CASE Void(d) \/ (Consume(d) /\ Matches(d))
    <3>1. Stores(b, None, 0) /\ Forgives(b, 0)
      BY <2>6 DEF Void, Consume
    <3>2. doc'[b].attempts = 0 /\ \A x \in Accounts \ {b} : doc'[x] = doc[x]
      BY <2>1, <3>1, StoresOne
    <3>3. a # b => (a \in left => a \in left')
      BY <3>1 DEF Forgives
    <3> HIDE DEF b
    <3>4. QED BY <2>3, <3>2, <3>3
  <2>7. CASE Consume(d) /\ ~Matches(d)
    BY <2>4, <2>7 DEF Consume, At
  <2>8. CASE CountWrong(d)
    <3>1. left' = left /\ ~At(d, "void")
      BY <2>8 DEF CountWrong, At
    <3>2. CASE ~Countable(d)
      BY <2>4, <2>8, <3>1, <3>2 DEF CountWrong
    <3>3. CASE Countable(d)
      <4>1. /\ doc' = [doc EXCEPT ![b].attempts = doc[b].attempts + 1]
            /\ Goes(d, IF Spent(doc[b].attempts + 1) THEN [call[d] EXCEPT !.at = "void"] ELSE Idle)
        BY <2>8, <3>3 DEF CountWrong
      <4>2. /\ doc'[b].attempts = doc[b].attempts + 1
            /\ \A x \in Accounts \ {b} : doc'[x] = doc[x]
        <5>1. doc[b] \in Docs /\ doc \in [Accounts -> Docs]
          BY <2>1 DEF TypeOK
        <5>2. QED BY <2>1, <4>1, <5>1 DEF Docs
      <4>3. CASE a # b
        BY <2>4, <3>1, <4>2, <4>3
      <4>4. CASE a = b /\ Spent(doc[b].attempts + 1)
        <5>1. call'[d] = [call[d] EXCEPT !.at = "void"]
          BY <4>1, <4>4, VoidHeld, OneCall
        <5>2. call'[d].at = "void" /\ call'[d].of = a
          BY <4>4, <5>1, VoidHeld
        <5>3. QED BY <5>2 DEF SpentDone, At
      <4>5. CASE a = b /\ ~Spent(doc[b].attempts + 1)
        BY <4>2, <4>5 DEF SpentDone, Spent
      <4>6. QED BY <4>3, <4>4, <4>5
    <3>4. QED BY <3>2, <3>3
  <2>9. QED BY <1>4, <2>5, <2>6, <2>7, <2>8 DEF CodeAction
<1>5. QED BY <1>1, <1>2, <1>3, <1>4, QuietOrCode DEF CodeStep

-----------------------------------------------------------------------------
(***************************************************************************)
(* Copies.                                                                 *)
(***************************************************************************)

CopyOK(u) ==
  Cached(u) /\ cache[u].barred # doc[u].barred =>
    cache[u].stray \/ \E c \in Calls : At(c, "evict") /\ call[c].of = u

LEMMA CopySame ==
  ASSUME IInv, TypeOK', NEW u \in Users, cache'[u] = cache[u], doc'[u].barred = doc[u].barred,
         now <= now',
         \A c \in Calls : At(c, "evict") /\ call[c].of = u => call'[c] = call[c]
  PROVE  CopyOK(u)'
<1> USE DEF IInv
<1> SUFFICES ASSUME now' < cache[u].until, cache[u].barred # doc[u].barred, ~cache[u].stray
             PROVE  \E c \in Calls : call'[c].at = "evict" /\ call'[c].of = u
  BY DEF CopyOK, Cached, At
<1>1. now < cache[u].until
  BY DEF TypeOK
<1>2. PICK c \in Calls : At(c, "evict") /\ call[c].of = u
  BY <1>1 DEF OutdatedForACause, Cached
<1>3. QED BY <1>2 DEF At

\* Calls that are not about to evict may do what they like to themselves.
LEMMA CopyOthers ==
  ASSUME IInv, TypeOK', NEW d \in Calls, ~At(d, "evict"),
         \A c \in Calls \ {d} : call'[c] = call[c],
         cache' = cache, now' = now, NEW u \in Users, doc'[u].barred = doc[u].barred
  PROVE  CopyOK(u)'
<1>1. now <= now'
  BY DEF IInv, TypeOK
<1>2. QED BY <1>1, CopySame

LEMMA CopiesStep ==
  ASSUME IInv, TypeOK', [Next]_vars
  PROVE  OutdatedForACause'
<1> USE DEF IInv
<1> SUFFICES ASSUME NEW u \in Users PROVE CopyOK(u)'
  BY DEF OutdatedForACause, CopyOK
<1>u. u \in Accounts
  BY Constants
<1>1. ASSUME NEW c \in Calls, CodeAction(c) PROVE CopyOK(u)'
  <2>1. /\ \A d \in Calls \ {c} : call'[d] = call[d]
        /\ call[c].of \in Accounts /\ call[c].code \in Codes
        /\ now' = now /\ cache' = cache
    BY <1>1, CodeCalls DEF TypeOK
  <2>2. ~At(c, "evict")
    BY <1>1 DEF CodeAction, SaveLogin, ClearExpired, CountWrong, Void, Consume, At
  <2>3. doc'[u].barred = doc[u].barred
    <3>1. CASE CountWrong(c)
      BY <1>u, <2>1, <3>1 DEF CountWrong, TypeOK, Docs
    <3>2. CASE ~CountWrong(c)
      <4>1. doc' = doc \/ \E n \in Codes \cup {None}, i \in Nat : Stores(call[c].of, n, i)
        BY <1>1, <2>1, <3>2, ResetIn, CallParts
           DEF CodeAction, SaveLogin, ClearExpired, Void, Consume
      <4>2. QED BY <1>u, <2>1, <4>1, StoresOne
    <3>3. QED BY <3>1, <3>2
  <2>4. QED BY <2>1, <2>2, <2>3, CopyOthers
<1>2. ASSUME NEW c \in Calls, OpenSession(c) \/ EndSession(c) \/ Rotate(c) PROVE CopyOK(u)'
  <2>1. PICK t \in Nat : SessionStep(c, t)
    BY <1>2, Constants DEF OpenSession, EndSession, Rotate, TypeOK
  <2>2. call[c].of \in Accounts /\ ~At(c, "evict")
    BY <1>2, Constants DEF OpenSession, EndSession, Rotate, CallsOK, At, OfUsers
  <2>3. doc'[u].barred = doc[u].barred
    BY <1>u, <2>1, <2>2, OneSession DEF SessionStep
  <2>4. QED BY <2>1, <2>2, <2>3, IdleHeld, OneCall, CopyOthers DEF SessionStep
<1>3. ASSUME NEW c \in Calls, Fill(c) PROVE CopyOK(u)'
  <2>1. /\ \A d \in Calls \ {c} : call'[d] = call[d]
        /\ ~At(c, "evict") /\ doc' = doc /\ now' = now
        /\ call[c].of \in Users
    BY <1>3, IdleHeld, OneCall DEF Fill, At, CallsOK, OfUsers
  <2>2. CASE u = call[c].of
    <3>1. /\ cache'[u].barred = call[c].barred
          /\ cache'[u].stray = (call[c].barred # doc[u].barred)
      BY <1>3, <2>2 DEF Fill, TypeOK
    <3>2. QED BY <2>1, <3>1 DEF CopyOK
  <2>3. CASE u # call[c].of
    <3>1. cache'[u] = cache[u] /\ now <= now'
      BY <1>3, <2>1, <2>3 DEF Fill, TypeOK
    <3>2. QED BY <2>1, <3>1, CopySame
  <2>4. QED BY <2>2, <2>3
<1>4. ASSUME NEW c \in Calls, Evict(c) PROVE CopyOK(u)'
  <2>1. /\ \A d \in Calls \ {c} : call'[d] = call[d]
        /\ doc' = doc /\ now' = now
    BY <1>4, IdleHeld, OneCall DEF Evict
  <2>2. CASE u = call[c].of
    <3>1. cache'[u].until = 0
      BY <1>4, <2>2 DEF Evict, TypeOK, NoCopy
    <3>2. QED BY <3>1 DEF CopyOK, Cached, TypeOK
  <2>3. CASE u # call[c].of
    <3>1. cache'[u] = cache[u] /\ now <= now'
      BY <1>4, <2>1, <2>3 DEF Evict, TypeOK
    <3>2. QED BY <2>1, <2>3, <3>1, CopySame
  <2>4. QED BY <2>2, <2>3
<1>5. ASSUME NEW c \in Calls, SaveAdmin(c) PROVE CopyOK(u)'
  <2>1. call[c].of \in Admins /\ call[c].barred \in BOOLEAN
    BY <1>5, CallParts DEF SaveAdmin, CallsOK
  <2>2. doc'[u].barred = doc[u].barred
    <3>1. call[c].of \in Accounts /\ u # call[c].of /\ Bars(call[c].of, call[c].barred)
      BY <1>5, <2>1, Constants DEF SaveAdmin
    <3>2. QED BY <1>u, <2>1, <3>1, OneBar
  <2>3. QED BY <1>5, <2>2, IdleHeld, OneCall, CopyOthers DEF SaveAdmin, At
<1>6. ASSUME NEW c \in Calls, CutShort(c) PROVE CopyOK(u)'
  <2>1. /\ \A d \in Calls \ {c} : call'[d] = call[d]
        /\ doc' = doc /\ now' = now /\ now <= now'
    BY <1>6, IdleHeld, OneCall DEF CutShort, TypeOK
  <2>2. CASE At(c, "evict") /\ u = call[c].of
    <3>1. cache'[u].stray
      BY <1>6, <2>2 DEF CutShort, TypeOK
    <3>2. QED BY <3>1 DEF CopyOK
  <2>3. CASE ~(At(c, "evict") /\ u = call[c].of)
    <3>1. cache'[u] = cache[u]
      BY <1>6, <2>3 DEF CutShort, TypeOK
    <3>2. \A d \in Calls : At(d, "evict") /\ call[d].of = u => call'[d] = call[d]
      BY <2>1, <2>3
    <3>3. QED BY <2>1, <3>1, <3>2, CopySame
  <2>4. QED BY <2>2, <2>3
<1>7. ASSUME NEW c \in Calls, Ask(c) PROVE CopyOK(u)'
  <2>1. At(c, "idle") /\ \E held \in Held : Goes(c, held)
    BY <1>7, AskBegins
  <2>2. /\ \A d \in Calls \ {c} : call'[d] = call[d]
        /\ ~At(c, "evict")
    BY <2>1, OneCall DEF At
  <2>3. CASE \E v \in Users, b \in BOOLEAN : BlockUser(c, v, b)
    <3>1. PICK v \in Users, b \in BOOLEAN : BlockUser(c, v, b)
      BY <2>3
    <3>2. cache' = cache /\ now' = now /\ Bars(v, b) /\ v \in Accounts
      BY <3>1, Constants DEF BlockUser
    <3>3. CASE u = v
      <4>1. call'[c].at = "evict" /\ call'[c].of = u
        BY <3>1, <3>3, <2>1 DEF BlockUser, Begins, Goes, Idle, TypeOK
      <4>2. QED BY <4>1 DEF CopyOK, At
    <3>4. CASE u # v
      <4>1. doc'[u] = doc[u]
        BY <1>u, <3>2, <3>4, OneBar
      <4>2. QED BY <2>2, <3>2, <4>1, CopyOthers
    <3>5. QED BY <3>3, <3>4
  <2>4. CASE ~\E v \in Users, b \in BOOLEAN : BlockUser(c, v, b)
    <3>1. UNCHANGED <<doc, cache, now>>
      BY <1>7, <2>4 DEF Ask, RefreshToken, Protect, DeactivateAdmin, AdminLogin, VerifyOtp
    <3>2. QED BY <2>2, <3>1, CopyOthers
  <2>5. QED BY <2>3, <2>4
<1>8. ASSUME NEW v \in Users, Logout(v) PROVE CopyOK(u)'
  <2>1. doc'[u].barred = doc[u].barred
    BY <1>8, <1>u, OneSession, Constants DEF Logout
  <2>2. QED BY <1>8, <2>1, CopySame DEF Logout, TypeOK
<1>9. ASSUME NEW v \in Users, NEW n \in Codes, SendOtp(v, n) PROVE CopyOK(u)'
  <2>1. doc'[u].barred = doc[u].barred
    BY <1>9, <1>u, StoresOne, Constants DEF SendOtp
  <2>2. QED BY <1>9, <2>1, CopySame DEF SendOtp, TypeOK
<1>10. CASE Tick
  BY <1>10, CopySame DEF Tick, TypeOK
<1>11. CASE UNCHANGED vars
  BY <1>11, CopySame DEF vars, TypeOK
<1>12. QED
  BY <1>1, <1>2, <1>3, <1>4, <1>5, <1>6, <1>7, <1>8, <1>9, <1>10, <1>11
     DEF Next, Work, CodeAction

-----------------------------------------------------------------------------
(***************************************************************************)
(* Theorems.                                                               *)
(***************************************************************************)

\* The invariant holds in every state of every behaviour.
THEOREM Invariant == Spec => []IInv
<1>1. ASSUME IInv, [Next]_vars PROVE IInv'
  <2>1. TypeOK' /\ CallsOK'
    BY <1>1, TypeStep, CallsStep DEF IInv
  <2>2. CodeInv'
    BY <1>1, CodesStep
  <2>3. JudgedRightly' /\ SpentIsVoided' /\ OutdatedForACause'
    BY <1>1, <2>1, JudgedStep, SpentStep, CopiesStep
  <2>4. QED BY <2>1, <2>2, <2>3 DEF IInv, CodeInv
<1>2. QED BY <1>1, InitInvariant, PTL DEF Spec

\* The state keeps its types.
THEOREM Types == Spec => []TypeOK
<1>1. IInv => TypeOK
  BY DEF IInv
<1>2. QED BY <1>1, Invariant, PTL

\* Of all submissions of a code, at most one signs in.
THEOREM SignedInOnce == Spec => []OneSignInPerCode
<1>1. IInv => OneSignInPerCode
  BY DEF IInv
<1>2. QED BY <1>1, Invariant, PTL

\* Wrong submissions are neither lost nor counted beyond the limit.
THEOREM Counted == Spec => []AttemptsCounted
<1>1. IInv => AttemptsCounted
  BY DEF IInv
<1>2. QED BY <1>1, Invariant, PTL

\* A spent code is being taken away.
THEOREM Voided == Spec => []SpentIsVoided
<1>1. IInv => SpentIsVoided
  BY DEF IInv
<1>2. QED BY <1>1, Invariant, PTL

\* A copy disagrees with its account only for one of the known causes.
THEOREM Copies == Spec => []OutdatedForACause
<1>1. IInv => OutdatedForACause
  BY DEF IInv
<1>2. QED BY <1>1, Invariant, PTL

TakesAway ==
  /\ \A a \in Accounts :
       (doc[a].otp # None /\ doc'[a].otp = None
          /\ expiry[doc[a].otp] >= now /\ doc[a].attempts < MaxAttempts) =>
         \/ accepted'[doc[a].otp] > accepted[doc[a].otp]
         \/ \E c \in Calls : /\ At(c, "expired") \/ At(c, "void")
                             /\ call[c].of = a
                             /\ call[c].code # doc[a].otp
                             /\ call'[c] = Idle
  /\ \A u \in Users :
       (doc[u].session # 0 /\ doc'[u].session = 0 /\ doc[u].session >= now) =>
         \/ Logout(u)
         \/ \E c \in Calls : /\ At(c, "over")
                             /\ call[c].of = u
                             /\ call[c].session # doc[u].session
                             /\ call'[c] = Idle

LEMMA TakenCode ==
  ASSUME IInv, [Next]_vars, NEW a \in Accounts, doc[a].otp # None, doc'[a].otp = None,
         expiry[doc[a].otp] >= now, doc[a].attempts < MaxAttempts
  PROVE  \/ accepted'[doc[a].otp] > accepted[doc[a].otp]
         \/ \E c \in Calls : /\ At(c, "expired") \/ At(c, "void")
                             /\ call[c].of = a
                             /\ call[c].code # doc[a].otp
                             /\ call'[c] = Idle
<1> USE DEF IInv
<1>1. ~QuietStep
  BY DEF QuietStep, SameCodes
<1>2. ASSUME NEW u \in Users, NEW n \in Codes, SendOtp(u, n) PROVE FALSE
  BY <1>2, StoresOne, Constants DEF SendOtp
<1>3. ASSUME NEW c \in Calls, NEW b \in Admins, NEW n \in Codes, AdminLogin(c, b, n) PROVE FALSE
  BY <1>3 DEF AdminLogin
<1>4. PICK c \in Calls : CodeAction(c)
  BY <1>1, <1>2, <1>3, QuietOrCode DEF CodeStep
<1>5. call[c].of \in Accounts /\ call[c].code \in Codes /\ call[c].code # None
  BY <1>4, CodeCalls, Constants DEF TypeOK
<1>6. CASE SaveLogin(c)
  <2>1. Reset(call[c].of, call[c].attempts) \in Nat
    BY <1>5, ResetIn, CallParts
  <2>2. /\ doc'[call[c].of].otp = call[c].code
        /\ \A b \in Accounts \ {call[c].of} : doc'[b] = doc[b]
    BY <1>5, <1>6, <2>1, StoresOne DEF SaveLogin
  <2>3. QED BY <1>5, <2>2
<1>7. CASE ClearExpired(c)
  <2>1. Reset(call[c].of, call[c].attempts) \in Nat
    BY <1>5, ResetIn, CallParts
  <2>2. \A b \in Accounts \ {call[c].of} : doc'[b] = doc[b]
    BY <1>5, <1>7, <2>1, StoresOne DEF ClearExpired
  <2>3. call[c].of = a /\ call'[c] = Idle /\ At(c, "expired")
    BY <1>7, <2>2, IdleHeld, OneCall DEF ClearExpired
  <2>4. call[c].code # doc[a].otp
    <3>1. expiry[call[c].code] < now /\ expiry[call[c].code] \in Nat /\ now \in Nat
      BY <1>5, <2>3 DEF JudgedRightly, TypeOK
    <3>2. QED BY <3>1
  <2>5. QED BY <2>3, <2>4
<1>8. CASE Void(c)
  <2>1. \A b \in Accounts \ {call[c].of} : doc'[b] = doc[b]
    BY <1>5, <1>8, StoresOne DEF Void
  <2>2. call[c].of = a /\ call'[c] = Idle /\ At(c, "void")
    BY <1>8, <2>1, IdleHeld, OneCall DEF Void
  <2>3. call[c].code # doc[a].otp
    <3>1. doc[a].otp = call[c].code => doc[a].attempts >= MaxAttempts
      BY <2>2 DEF JudgedRightly
    <3>2. QED BY <3>1, Constants DEF TypeOK, Docs
  <2>4. QED BY <2>2, <2>3
<1>9. CASE CountWrong(c)
  <2>1. doc'[a].otp = doc[a].otp
    BY <1>5, <1>9 DEF CountWrong, TypeOK, Docs
  <2>2. QED BY <2>1
<1>10. CASE Consume(c)
  <2>1. Matches(c)
    BY <1>10 DEF Consume
  <2>2. \A b \in Accounts \ {call[c].of} : doc'[b] = doc[b]
    BY <1>5, <1>10, <2>1, StoresOne DEF Consume
  <2>3. call[c].of = a
    BY <2>2
  <2>4. doc[a].otp = call[c].code /\ accepted' = [accepted EXCEPT ![call[c].code] = @ + 1]
    BY <1>10, <2>1, <2>3 DEF Consume, Matches
  <2>5. accepted'[doc[a].otp] > accepted[doc[a].otp]
    BY <1>5, <2>4 DEF TypeOK
  <2>6. QED BY <2>5
<1>11. QED BY <1>4, <1>6, <1>7, <1>8, <1>9, <1>10 DEF CodeAction

LEMMA TakenSession ==
  ASSUME IInv, Next, NEW u \in Users, doc[u].session # 0, doc'[u].session = 0,
         doc[u].session >= now, ~Logout(u)
  PROVE  \E c \in Calls : /\ At(c, "over")
                          /\ call[c].of = u
                          /\ call[c].session # doc[u].session
                          /\ call'[c] = Idle
<1> USE DEF IInv
<1>u. u \in Accounts /\ doc[u] \in Docs
  BY Constants DEF TypeOK
<1>1. doc' # doc
  OBVIOUS
<1>2. ASSUME NEW c \in Calls, CodeAction(c) PROVE FALSE
  <2>1. call[c].of \in Accounts /\ call[c].code \in Codes
    BY <1>2, CodeCalls DEF TypeOK
  <2>2. CASE CountWrong(c)
    BY <1>u, <2>1, <2>2 DEF CountWrong, TypeOK, Docs
  <2>3. CASE ~CountWrong(c)
    <3>1. \E n \in Codes \cup {None}, i \in Nat : Stores(call[c].of, n, i)
      BY <1>1, <1>2, <2>1, <2>3, ResetIn, CallParts
         DEF CodeAction, SaveLogin, ClearExpired, Void, Consume
    <3>2. QED BY <1>u, <2>1, <3>1, StoresOne
  <2>4. QED BY <2>2, <2>3
<1>3. ASSUME NEW c \in Calls, OpenSession(c) \/ Rotate(c) PROVE FALSE
  <2>1. SessionStep(c, now + SessionTTL) /\ now + SessionTTL \in Nat /\ now + SessionTTL > 0
    BY <1>3, Constants DEF OpenSession, Rotate, TypeOK
  <2>2. call[c].of \in Accounts
    BY <1>3, Constants DEF OpenSession, Rotate, CallsOK, At, OfUsers
  <2>3. HasSession(call[c].of, now + SessionTTL)
    BY <2>1 DEF SessionStep
  <2>4. CASE call[c].of = u
    BY <1>u, <2>1, <2>3, <2>4 DEF HasSession, TypeOK, Docs
  <2>5. CASE call[c].of # u
    BY <1>u, <2>1, <2>2, <2>3, <2>5, OneSession
  <2>6. QED BY <2>4, <2>5
<1>4. ASSUME NEW c \in Calls, EndSession(c)
      PROVE  /\ At(c, "over")
             /\ call[c].of = u
             /\ call[c].session # doc[u].session
             /\ call'[c] = Idle
  <2>1. At(c, "over") /\ HasSession(call[c].of, 0) /\ Goes(c, Idle)
    BY <1>4 DEF EndSession, SessionStep
  <2>2. call[c].of \in Accounts
    BY <2>1 DEF CallsOK, At
  <2>3. call[c].of = u
    <3>1. 0 \in Nat
      OBVIOUS
    <3>2. \A b \in Accounts \ {call[c].of} : doc'[b] = doc[b]
      BY <2>1, <2>2, <3>1, OneSession
    <3>3. QED BY <1>u, <3>2
  <2>4. call[c].session < now /\ call[c].session \in Nat /\ now \in Nat /\ doc[u].session \in Nat
    BY <1>u, <2>1, CallParts DEF JudgedRightly, TypeOK, Docs
  <2>5. call[c].session # doc[u].session
    BY <2>4
  <2>6. call'[c] = Idle
    BY <2>1, IdleHeld, OneCall
  <2>7. QED BY <2>1, <2>3, <2>5, <2>6
<1>5. ASSUME NEW c \in Calls, SaveAdmin(c) PROVE FALSE
  <2>1. call[c].of \in Admins /\ call[c].barred \in BOOLEAN /\ Bars(call[c].of, call[c].barred)
    BY <1>5, CallParts DEF SaveAdmin, CallsOK
  <2>2. doc'[u].session = doc[u].session
    BY <1>u, <2>1, OneBar, Constants
  <2>3. QED BY <2>2
<1>6. ASSUME NEW c \in Calls, Ask(c) PROVE FALSE
  <2>1. PICK v \in Users, b \in BOOLEAN : BlockUser(c, v, b)
    BY <1>1, <1>6 DEF Ask, RefreshToken, Protect, DeactivateAdmin, AdminLogin, VerifyOtp
  <2>2. Bars(v, b) /\ v \in Accounts
    BY <2>1, Constants DEF BlockUser
  <2>3. doc'[u].session = doc[u].session
    BY <1>u, <2>2, OneBar
  <2>4. QED BY <2>3
<1>7. ASSUME NEW v \in Users, Logout(v) PROVE FALSE
  <2>1. v # u /\ HasSession(v, 0) /\ v \in Accounts
    BY <1>7, Constants DEF Logout
  <2>2. doc'[u] = doc[u]
    <3>1. 0 \in Nat
      OBVIOUS
    <3>2. \A b \in Accounts \ {v} : doc'[b] = doc[b]
      BY <2>1, <3>1, OneSession
    <3>3. QED BY <1>u, <2>1, <3>2
  <2>3. QED BY <2>2
<1>8. ASSUME NEW v \in Users, NEW n \in Codes, SendOtp(v, n) PROVE FALSE
  BY <1>8, <1>u, StoresOne, Constants DEF SendOtp
<1>9. ASSUME NEW c \in Calls, Fill(c) \/ Evict(c) \/ CutShort(c) PROVE FALSE
  BY <1>1, <1>9 DEF Fill, Evict, CutShort
<1>10. ~Tick
  BY <1>1 DEF Tick
<1>11. PICK c \in Calls : EndSession(c)
  BY <1>2, <1>3, <1>5, <1>6, <1>7, <1>8, <1>9, <1>10 DEF Next, Work, CodeAction
<1>12. QED BY <1>4, <1>11

\* What could still be used is taken away by its use, by a logout, or by a call that
\* had read something older.
THEOREM TakenForACause == Spec => OnlyOverlapsTakeAway
<1>1. ASSUME IInv, [Next]_vars PROVE [TakesAway]_vars
  <2>1. CASE UNCHANGED vars
    BY <2>1
  <2>2. CASE Next
    BY <1>1, <2>2, TakenCode, TakenSession DEF TakesAway
  <2>3. QED BY <1>1, <2>1, <2>2
<1>2. Spec => [][TakesAway]_vars
  BY <1>1, Invariant, PTL DEF Spec
<1>3. QED BY <1>2 DEF TakesAway, OnlyOverlapsTakeAway
-----------------------------------------------------------------------------
(***************************************************************************)
(* SignIn implements Passcode.                                             *)
(***************************************************************************)

Saving(n) == \E c \in Calls : At(c, "save") /\ call[c].code = n

LEMMA PastOf ==
  /\ \A n : n \in Past <=> n \in issued /\ ~Saving(n) /\ \A a \in Accounts : doc[a].otp # n
  /\ \A n : Promised!Held(n) <=> \E a \in Accounts : doc[a].otp = n
BY DEF Past, Saving, Promised!Held, Holding

LEMMA PastOfNext ==
  \A n : n \in Past' <=> n \in issued' /\ ~Saving(n)' /\ \A a \in Accounts : doc'[a].otp # n
BY DEF Past, Saving, At

\* A step that gives a the code m, which was with nobody, or takes its code away,
\* makes the code it had a past one and no other.
LEMMA Replacing ==
  ASSUME IInv, NEW a \in Accounts, NEW m \in Codes \cup {None}, doc'[a].otp = m,
         \A b \in Accounts \ {a} : doc'[b].otp = doc[b].otp,
         m # None => m \notin Past /\ \A b \in Accounts : doc[b].otp # m,
         \A n : n \in issued' <=> n \in issued \/ (n = m /\ n # None),
         \A n \in issued \ {m} : Saving(n)' <=> Saving(n)
  PROVE  Promised!Replaces(a, m)
<1> USE DEF IInv
<1>1. Holding' = [Holding EXCEPT ![a] = m]
  BY DEF Holding
<1>2. ASSUME NEW n, n # m
      PROVE  n \in Past' <=> n \in Past \/ (n = doc[a].otp /\ n # None)
  <2>1. n \in issued' <=> n \in issued
    BY <1>2
  <2>2. CASE n \in issued /\ n = doc[a].otp
    <3>1. \A b \in Accounts : doc'[b].otp # n
      BY <1>2, <2>2, Constants DEF CodesApart, TypeOK
    <3>2. ~Saving(n)
      BY <2>2 DEF Unsaved, Saving
    <3>3. n \in Past'
      BY <1>2, <2>1, <2>2, <3>1, <3>2, PastOfNext
    <3>4. QED BY <2>2, <3>3, Constants DEF TypeOK
  <2>3. CASE n \in issued /\ n # doc[a].otp
    <3>1. (\A b \in Accounts : doc'[b].otp # n) <=> (\A b \in Accounts : doc[b].otp # n)
      BY <1>2, <2>3
    <3>2. QED BY <1>2, <2>1, <2>3, <3>1, PastOf, PastOfNext
  <2>4. CASE n \notin issued
    <3>1. n \notin Past /\ n \notin Past'
      BY <2>1, <2>4, PastOf, PastOfNext
    <3>2. n = doc[a].otp => n = None
      BY <2>4 DEF CodesApart
    <3>3. QED BY <3>1, <3>2
  <2>5. QED BY <2>2, <2>3, <2>4
<1>3. m \notin Past' /\ m \notin Past /\ (m # None => m # doc[a].otp)
  <2>1. None \notin issued
    BY Constants DEF TypeOK
  <2>2. m # None => m \notin Past'
    BY PastOfNext
  <2>3. m = None => m \notin Past /\ m \notin issued'
    BY <2>1, PastOf
  <2>4. QED BY <2>2, <2>3, PastOfNext
<1>4. Past' = Past \cup ({doc[a].otp} \ {None})
  BY <1>2, <1>3
<1>5. Holding[a] = doc[a].otp
  BY DEF Holding
<1>6. QED BY <1>1, <1>4, <1>5 DEF Promised!Replaces

\* Steps that leave the codes alone only let time and logins pass.
LEMMA QuietPass ==
  ASSUME IInv, QuietStep
  PROVE  Promised!Pass
<1> USE DEF IInv
<1>1. \A a \in Accounts : doc'[a].otp = doc[a].otp
  BY DEF QuietStep, SameCodes
<1>2. Holding' = Holding
  BY <1>1 DEF Holding
<1>3. Unexpired' \subseteq Unexpired
  <2>1. \A n \in Codes : expiry[n] \in Nat
    BY DEF TypeOK
  <2>2. expiry' = expiry /\ now \in Nat /\ now' \in Nat /\ now <= now'
    BY DEF QuietStep, codeVars
  <2>3. QED BY <2>1, <2>2 DEF Unexpired
<1>4. \A n : Saving(n)' => Saving(n)
  <2> SUFFICES ASSUME NEW c \in Calls, call'[c].at = "save" PROVE call'[c] = call[c]
    BY DEF Saving, At
  <2>1. QuietCall(c)
    BY DEF QuietStep
  <2>2. QED BY <2>1 DEF QuietCall, BegunRightly, Idle
<1>5. Past \subseteq Past' /\ \A n \in Past' : ~Promised!Held(n)
  <2>1. issued' = issued
    BY DEF QuietStep, codeVars
  <2>2. QED BY <1>1, <1>4, <2>1, PastOf, PastOfNext
<1>6. UNCHANGED <<wrong, accepted>>
  BY DEF QuietStep
<1>7. QED BY <1>2, <1>3, <1>5, <1>6 DEF Promised!Pass, Promised!Expire

LEMMA LoginPass ==
  ASSUME IInv, NEW c \in Calls, NEW a \in Admins, NEW n \in Codes, AdminLogin(c, a, n)
  PROVE  Promised!Pass
<1> USE DEF IInv
<1>1. /\ \A d \in Calls \ {c} : call'[d] = call[d]
      /\ call'[c].code = n /\ n \notin issued /\ issued' = issued \cup {n}
      /\ \A m \in Codes \ {n} : expiry'[m] = expiry[m]
      /\ UNCHANGED <<doc, now, wrong, accepted>>
  BY LoginCall DEF AdminLogin, Makes, history, TypeOK
<1>2. \A b \in Accounts : doc[b].otp # n
  BY <1>1, Constants DEF CodesApart
<1>3. Promised!Expire
  <2>1. Unexpired' \ Unexpired \subseteq {n}
    BY <1>1 DEF Unexpired
  <2>2. n \notin Past /\ ~Promised!Held(n)
    BY <1>1, <1>2, PastOf
  <2>3. QED BY <2>1, <2>2 DEF Promised!Expire
<1>4. Past \subseteq Past'
  <2> SUFFICES ASSUME NEW m \in Past PROVE m \in Past'
    OBVIOUS
  <2>1. m \in issued /\ m # n /\ ~Saving(m) /\ \A b \in Accounts : doc[b].otp # m
    BY <1>1, PastOf
  <2>2. ~Saving(m)'
    BY <1>1, <2>1 DEF Saving, At
  <2>3. QED BY <1>1, <2>1, <2>2, PastOfNext
<1>5. \A m \in Past' : ~Promised!Held(m)
  BY <1>1, PastOf, PastOfNext
<1>6. QED BY <1>1, <1>3, <1>4, <1>5 DEF Promised!Pass, Holding

\* The calls at "save" after a handler has worked on a code.
LEMMA SavingSame ==
  ASSUME IInv, NEW c \in Calls, CodeAction(c), NEW n, At(c, "save") => call[c].code # n
  PROVE  Saving(n)' <=> Saving(n)
<1>1. /\ \A d \in Calls \ {c} : call'[d] = call[d]
      /\ \/ call'[c] = Idle
         \/ At(c, "wrong") /\ call'[c] = [call[c] EXCEPT !.at = "void"]
         \/ At(c, "right") /\ call[c].of \in Users /\ call'[c] = [call[c] EXCEPT !.at = "open"]
  BY CodeCalls
<1>2. /\ Idle.at = "idle"
      /\ [call[c] EXCEPT !.at = "void"].at = "void"
      /\ [call[c] EXCEPT !.at = "open"].at = "open"
  BY VoidHeld DEF Idle, IInv
<1>3. call'[c].at \in {"idle", "void", "open"}
  BY <1>1, <1>2
<1>4. QED BY <1>1, <1>3 DEF Saving, At

LEMMA UnexpiredSame ==
  ASSUME IInv, NEW c \in Calls, CodeAction(c)
  PROVE  Unexpired' = Unexpired /\ issued' = issued
BY CodeCalls DEF Unexpired, codeVars

\* A handler that takes the code of an account away.
LEMMA Taking ==
  ASSUME IInv, NEW c \in Calls, CodeAction(c), ~At(c, "save"),
         NEW a \in Accounts, NEW i \in Nat, Stores(a, None, i)
  PROVE  Promised!Replaces(a, None)
<1>1. doc'[a].otp = None /\ \A b \in Accounts \ {a} : doc'[b] = doc[b]
  BY StoresOne DEF IInv
<1>2. \A n : Saving(n)' <=> Saving(n)
  BY SavingSame
<1>3. issued' = issued /\ None \in Codes \cup {None}
  BY UnexpiredSame
<1>4. None \notin issued
  BY Constants DEF IInv, TypeOK
<1>5. QED BY <1>1, <1>2, <1>3, <1>4, Replacing

LEMMA SendGives ==
  ASSUME IInv, NEW u \in Users, NEW n \in Codes, SendOtp(u, n)
  PROVE  Promised!Give(u, n)
<1> USE DEF IInv
<1>1. /\ n \notin issued /\ issued' = issued \cup {n} /\ n # None /\ u \in Accounts
      /\ doc'[u].otp = n /\ \A b \in Accounts \ {u} : doc'[b] = doc[b]
      /\ \A m \in Codes \ {n} : expiry'[m] = expiry[m]
      /\ UNCHANGED <<call, now, wrong, accepted>>
  BY StoresOne, Constants DEF SendOtp, Makes, TypeOK
<1>2. n \notin Past /\ ~Promised!Held(n) /\ \A b \in Accounts : doc[b].otp # n
  BY <1>1, PastOf DEF CodesApart
<1>3. Promised!Expire
  <2>1. Unexpired' \ Unexpired \subseteq {n}
    BY <1>1 DEF Unexpired
  <2>2. QED BY <1>2, <2>1 DEF Promised!Expire
<1>4. Promised!Replaces(u, n)
  <2>1. \A m : Saving(m)' <=> Saving(m)
    BY <1>1 DEF Saving, At
  <2>2. QED BY <1>1, <1>2, <2>1, Replacing
<1>5. QED BY <1>1, <1>2, <1>3, <1>4 DEF Promised!Give

LEMMA SaveGives ==
  ASSUME IInv, NEW c \in Calls, SaveLogin(c)
  PROVE  Promised!Give(call[c].of, call[c].code) /\ call[c].of \in Accounts /\ call[c].code \in Codes
<1> USE DEF IInv
<1> DEFINE a == call[c].of
           n == call[c].code
           i == Reset(a, call[c].attempts)
<1>1. CodeAction(c) /\ At(c, "save") /\ UNCHANGED <<wrong, accepted>> /\ Stores(a, n, i)
  BY DEF CodeAction, SaveLogin
<1>2. a \in Accounts /\ n \in issued /\ n \in Codes /\ n # None
  BY <1>1, CodeCalls, Constants DEF TypeOK
<1>3. i \in Nat
  BY <1>2, ResetIn, CallParts
<1> HIDE DEF i
<1>4. doc'[a].otp = n /\ \A b \in Accounts \ {a} : doc'[b] = doc[b]
  BY <1>1, <1>2, <1>3, StoresOne
<1>5. n \notin Past /\ ~Promised!Held(n) /\ \A b \in Accounts : doc[b].otp # n
  BY <1>1, PastOf DEF Unsaved, Saving
<1>6. Unexpired' = Unexpired /\ issued' = issued
  BY <1>1, UnexpiredSame
<1>7. Promised!Replaces(a, n)
  <2>1. \A m \in issued \ {n} : Saving(m)' <=> Saving(m)
    BY <1>1, SavingSame
  <2> HIDE DEF a, n
  <2>2. QED BY <1>2, <1>4, <1>5, <1>6, <2>1, Replacing
<1>8. QED BY <1>1, <1>2, <1>5, <1>6, <1>7 DEF Promised!Give, Promised!Expire

LEMMA CountGuesses ==
  ASSUME IInv, NEW c \in Calls, CountWrong(c)
  PROVE  [Promised!Next]_(Promised!vars)
<1> USE DEF IInv
<1> DEFINE a == call[c].of
           n == call[c].code
<1>1. CodeAction(c) /\ At(c, "wrong") /\ accepted' = accepted
  BY DEF CodeAction, CountWrong
<1>2. a \in Accounts /\ n \in issued /\ n \in Codes /\ n # None
  BY <1>1, CodeCalls, Constants DEF TypeOK
<1>3. \A b \in Accounts : doc'[b].otp = doc[b].otp
  BY <1>2 DEF CountWrong, TypeOK, Docs
<1>4. Holding' = Holding /\ Unexpired' = Unexpired /\ issued' = issued
  BY <1>1, <1>3, UnexpiredSame DEF Holding
<1>5. Past' = Past
  <2>1. \A m : Saving(m)' <=> Saving(m)
    BY <1>1, SavingSame DEF At
  <2>2. QED BY <1>3, <1>4, <2>1, PastOf, PastOfNext
<1>6. CASE Countable(c)
  <2>1. wrong' = [wrong EXCEPT ![n] = @ + 1] /\ Holding[a] = n /\ doc[a].attempts < MaxAttempts
    BY <1>2, <1>6 DEF CountWrong, Countable, Holding
  <2>2. wrong[n] <= doc[a].attempts /\ wrong[n] \in Nat /\ doc[a].attempts \in Nat
    BY <1>2, <1>6 DEF Countable, AttemptsCounted, TypeOK, Docs
  <2>3. wrong[n] < MaxAttempts
    BY <2>1, <2>2, Constants
  <2> HIDE DEF a, n
  <2>4. Promised!Guess(a)
    BY <1>1, <1>2, <1>4, <1>5, <2>1, <2>3 DEF Promised!Guess
  <2>5. QED BY <1>2, <2>4 DEF Promised!Next
<1>7. CASE ~Countable(c)
  <2>1. wrong' = wrong
    BY <1>7 DEF CountWrong
  <2>2. QED BY <1>1, <1>4, <1>5, <2>1 DEF Promised!vars
<1>8. QED BY <1>6, <1>7

LEMMA ConsumeSignsIn ==
  ASSUME IInv, NEW c \in Calls, Consume(c)
  PROVE  [Promised!Next]_(Promised!vars)
<1> USE DEF IInv
<1> DEFINE a == call[c].of
           n == call[c].code
<1>1. CodeAction(c) /\ At(c, "right") /\ wrong' = wrong
  BY DEF CodeAction, Consume
<1>2. a \in Accounts /\ n \in issued /\ n \in Codes /\ n # None
  BY <1>1, CodeCalls, Constants DEF TypeOK
<1>3. Unexpired' = Unexpired /\ issued' = issued /\ ~At(c, "save")
  BY <1>1, UnexpiredSame DEF At
<1>4. CASE Matches(c)
  <2>1. Stores(a, None, 0) /\ accepted' = [accepted EXCEPT ![n] = @ + 1]
    BY <1>4 DEF Consume
  <2>2. Promised!Replaces(a, None)
    BY <1>1, <1>2, <1>3, <2>1, Taking
  <2>3. Holding[a] = n /\ n \in Unexpired /\ accepted[n] = 0
    BY <1>2, <1>4 DEF Matches, Holding, Unexpired, CodesApart
  <2> HIDE DEF a, n
  <2>4. accepted' = [accepted EXCEPT ![n] = 1]
    BY <2>1, <2>3
  <2>5. Promised!SignIn(a)
    BY <1>1, <1>3, <2>2, <2>3, <2>4 DEF Promised!SignIn
  <2>6. QED BY <1>2, <2>5 DEF Promised!Next
<1>5. CASE ~Matches(c)
  <2>1. UNCHANGED <<doc, accepted>>
    BY <1>5 DEF Consume
  <2>2. Past' = Past
    <3>1. \A m : Saving(m)' <=> Saving(m)
      BY <1>1, <1>3, SavingSame
    <3>2. QED BY <1>3, <2>1, <3>1, PastOf, PastOfNext
  <2>3. QED BY <1>1, <1>3, <2>1, <2>2 DEF Promised!vars, Holding
<1>6. QED BY <1>4, <1>5

\* Every step gives a code out, takes one back, counts a guess, signs in, or lets
\* codes pass.
LEMMA PasscodeStep == IInv /\ [Next]_vars => [Promised!Next]_(Promised!vars)
<1> SUFFICES ASSUME IInv, [Next]_vars PROVE [Promised!Next]_(Promised!vars)
  OBVIOUS
<1>1. ASSUME NEW c \in Calls, CodeAction(c) PROVE [Promised!Next]_(Promised!vars)
  <2>1. CASE SaveLogin(c)
    BY <2>1, SaveGives DEF Promised!Next
  <2>2. CASE ClearExpired(c) \/ Void(c)
    <3>1. /\ call[c].of \in Accounts /\ call[c].attempts \in Nat /\ ~At(c, "save")
          /\ UNCHANGED <<wrong, accepted>>
      BY <1>1, <2>2, CodeCalls, CallParts DEF ClearExpired, Void, At, IInv
    <3>2. PICK i \in Nat : Stores(call[c].of, None, i)
      BY <2>2, <3>1, ResetIn DEF ClearExpired, Void, IInv
    <3>3. Promised!Replaces(call[c].of, None)
      BY <1>1, <3>1, <3>2, Taking
    <3>4. Promised!TakeBack(call[c].of)
      BY <1>1, <3>1, <3>3, UnexpiredSame DEF Promised!TakeBack
    <3>5. QED BY <3>1, <3>4 DEF Promised!Next
  <2>3. CASE CountWrong(c) \/ Consume(c)
    BY <2>3, CountGuesses, ConsumeSignsIn
  <2>4. QED BY <1>1, <2>1, <2>2, <2>3 DEF CodeAction
<1>2. ASSUME NEW u \in Users, NEW n \in Codes, SendOtp(u, n) PROVE Promised!Next
  BY <1>2, SendGives, Constants DEF Promised!Next
<1>3. ASSUME NEW c \in Calls, NEW a \in Admins, NEW n \in Codes, AdminLogin(c, a, n)
      PROVE  Promised!Next
  BY <1>3, LoginPass DEF Promised!Next
<1>4. CASE QuietStep
  BY <1>4, QuietPass DEF Promised!Next
<1>5. QED BY <1>1, <1>2, <1>3, <1>4, QuietOrCode DEF CodeStep

\* The handlers of users and admins implement the promise of module Passcode, for
\* any number of accounts, codes and calls.
THEOREM PasscodeImplemented == Spec => PasscodeKept
<1>1. ASSUME Init PROVE Promised!Init
  <2>1. Holding = [a \in Accounts |-> None]
    <3>1. \A a \in Accounts : doc[a] = NewDoc /\ NewDoc.otp = None
      BY <1>1 DEF Init, NewDoc
    <3>2. QED BY <3>1 DEF Holding
  <2>2. Past = {}
    BY <1>1, PastOf DEF Init
  <2>3. Unexpired = {}
    BY <1>1 DEF Init, Unexpired
  <2>4. QED BY <1>1, <2>1, <2>2, <2>3 DEF Init, Promised!Init
<1>2. IInv /\ [Next]_vars => [Promised!Next]_(Promised!vars)
  BY PasscodeStep
<1>3. QED BY <1>1, <1>2, Invariant, PTL DEF Spec, PasscodeKept, Promised!Spec

=============================================================================
