-------------------------------- MODULE SignIn --------------------------------
(***************************************************************************)
(* One-time codes, refresh tokens and the account that protect caches.     *)
(* Users sign in by SMS and get a session, admins by e-mail and get no     *)
(* more than an access token.  A handler's steps are its reads and writes. *)
(*                                                                         *)
(* A code stands for its salted hash, so no two are equal.  A session is   *)
(* the time at which it expires: the refresh tokens of one account are not *)
(* told apart, for what compare reads of them is common to them all.       *)
(***************************************************************************)
EXTENDS Naturals

CONSTANTS
  Users, Admins,
  Calls,        \* requests that the server has in hand
  Codes, None,
  CodeTTL, SessionTTL, CacheTTL,
  MaxAttempts,  \* MAX_OTP_VERIFY_ATTEMPTS
  MaxTime       \* bound of the clock

Accounts == Users \cup Admins

ASSUME NoneIsNone == None \notin Codes \cup Accounts
ASSUME UsersAreNotAdmins == Users \cap Admins = {}
ASSUME PositiveBounds == {CodeTTL, SessionTTL, CacheTTL, MaxAttempts} \subseteq Nat \ {0}

VARIABLES
  doc,       \* account -> its code, wrong attempts, session (0 for none) and block
  call,      \* call -> its next step, and what it read
  cache,     \* user -> the copy in Redis, which goes at its time
  now,
  issued,    \* codes made
  expiry,    \* code -> when it expires
  wrong,     \* code -> wrong submissions counted against it
  accepted,  \* code -> how often it signed somebody in
  left       \* accounts with a spent code that a call was cut short of taking away

codeVars == <<issued, expiry>>
history == <<wrong, accepted, left>>
vars == <<doc, call, cache, now, codeVars, history>>

Docs == [otp : Codes \cup {None}, attempts : Nat, session : Nat, barred : BOOLEAN]

Steps == {"idle", "save", "expired", "wrong", "right", "void", "open",
          "over", "rotate", "fill", "evict", "setActive"}

Held == [at : Steps, of : Accounts \cup {None}, code : Codes \cup {None},
         attempts : Nat, session : Nat, barred : BOOLEAN]

TypeOK ==
  /\ doc \in [Accounts -> Docs]
  /\ call \in [Calls -> Held]
  /\ cache \in [Users -> [barred : BOOLEAN, until : Nat, stray : BOOLEAN]]
  /\ now \in Nat
  /\ issued \subseteq Codes
  /\ expiry \in [Codes -> Nat]
  /\ wrong \in [Codes -> Nat]
  /\ accepted \in [Codes -> Nat]
  /\ left \subseteq Accounts

NewDoc == [otp |-> None, attempts |-> 0, session |-> 0, barred |-> FALSE]
NoCopy == [barred |-> FALSE, until |-> 0, stray |-> FALSE]
Idle == [at |-> "idle", of |-> None, code |-> None,
         attempts |-> 0, session |-> 0, barred |-> FALSE]

Init ==
  /\ doc = [a \in Accounts |-> NewDoc]
  /\ call = [c \in Calls |-> Idle]
  /\ cache = [u \in Users |-> NoCopy]
  /\ now = 0
  /\ issued = {}
  /\ expiry = [n \in Codes |-> 0]
  /\ wrong = [n \in Codes |-> 0]
  /\ accepted = [n \in Codes |-> 0]
  /\ left = {}

At(c, step) == call[c].at = step
Goes(c, held) == call' = [call EXCEPT ![c] = held]
Begins(c, held) == At(c, "idle") /\ Goes(c, held)

Makes(n) ==
  /\ n \notin issued
  /\ issued' = issued \cup {n}
  /\ expiry' = [expiry EXCEPT ![n] = now + CodeTTL]

\* What a handler is left with that has read the code of a.
Read(step, a) ==
  [Idle EXCEPT !.at = step, !.of = a, !.code = doc[a].otp, !.attempts = doc[a].attempts]

Expired(n) == expiry[n] < now

\* save() writes the attempts only if setting them to 0 changed what was read.
Reset(a, read) == IF read = 0 THEN doc[a].attempts ELSE 0

Stores(a, n, attempts) ==
  doc' = [doc EXCEPT ![a].otp = n, ![a].attempts = attempts]

\* What a call left undone is done once the attempts are 0 again.
Forgives(a, attempts) == left' = IF attempts = 0 THEN left \ {a} ELSE left

-----------------------------------------------------------------------------
(***************************************************************************)
(* One-time codes.                                                         *)
(***************************************************************************)

SendOtp(u, n) ==
  /\ Makes(n)
  /\ Stores(u, n, 0)
  /\ Forgives(u, 0)
  /\ UNCHANGED <<call, cache, now, wrong, accepted>>

AdminLogin(c, a, n) ==
  /\ ~doc[a].barred
  /\ Makes(n)
  /\ Begins(c, [Read("save", a) EXCEPT !.code = n])
  /\ UNCHANGED <<doc, cache, now, history>>

SaveLogin(c) ==
  LET a == call[c].of
      attempts == Reset(a, call[c].attempts)
  IN
  /\ At(c, "save")
  /\ Stores(a, call[c].code, attempts)
  /\ Forgives(a, attempts)
  /\ Goes(c, Idle)
  /\ UNCHANGED <<cache, now, codeVars, wrong, accepted>>

\* The input may be the code of the document read, or not.
VerifyOtp(c, a) ==
  /\ doc[a].otp # None
  /\ a \in Admins => ~doc[a].barred
  /\ \/ Expired(doc[a].otp) /\ Begins(c, Read("expired", a))
     \/ ~Expired(doc[a].otp) /\ \E step \in {"right", "wrong"} : Begins(c, Read(step, a))
  /\ UNCHANGED <<doc, cache, now, codeVars, history>>

ClearExpired(c) ==
  LET a == call[c].of
      attempts == Reset(a, call[c].attempts)
  IN
  /\ At(c, "expired")
  /\ Stores(a, None, attempts)
  /\ Forgives(a, attempts)
  /\ Goes(c, Idle)
  /\ UNCHANGED <<cache, now, codeVars, wrong, accepted>>

\* Mutant: the query does not limit the attempts.
HasCode(c) == doc[call[c].of].otp = call[c].code

Countable(c) ==
  /\ doc[call[c].of].otp = call[c].code
  /\ doc[call[c].of].attempts < MaxAttempts

\* Mutant: one attempt is taken for the last.
SpentEarly(attempts) == attempts + 1 >= MaxAttempts

\* Mutant: only a query that found nothing takes the code away.
SpentNever(attempts) == FALSE

Spent(attempts) == attempts >= MaxAttempts

CountWrong(c) ==
  LET a == call[c].of
      attempts == doc[a].attempts + 1
  IN
  /\ At(c, "wrong")
  /\ \/ /\ Countable(c)
        /\ doc' = [doc EXCEPT ![a].attempts = attempts]
        /\ wrong' = [wrong EXCEPT ![call[c].code] = @ + 1]
        /\ Goes(c, IF Spent(attempts) THEN [call[c] EXCEPT !.at = "void"] ELSE Idle)
     \/ /\ ~Countable(c)
        /\ Goes(c, [call[c] EXCEPT !.at = "void"])
        /\ UNCHANGED <<doc, wrong>>
  /\ UNCHANGED <<cache, now, codeVars, accepted, left>>

\* Whatever code the account has by now.
Void(c) ==
  /\ At(c, "void")
  /\ Stores(call[c].of, None, 0)
  /\ Forgives(call[c].of, 0)
  /\ Goes(c, Idle)
  /\ UNCHANGED <<cache, now, codeVars, wrong, accepted>>

\* Mutant: the code read is consumed whatever the document holds by then.
MatchesTime(c) == expiry[call[c].code] > now

Matches(c) ==
  /\ doc[call[c].of].otp = call[c].code
  /\ doc[call[c].of].attempts = call[c].attempts
  /\ expiry[call[c].code] > now

\* A user's session is opened by a second update.
Consume(c) ==
  LET a == call[c].of IN
  /\ At(c, "right")
  /\ \/ /\ Matches(c)
        /\ Stores(a, None, 0)
        /\ Forgives(a, 0)
        /\ accepted' = [accepted EXCEPT ![call[c].code] = @ + 1]
        /\ Goes(c, IF a \in Users THEN [call[c] EXCEPT !.at = "open"] ELSE Idle)
     \/ /\ ~Matches(c)
        /\ Goes(c, Idle)
        /\ UNCHANGED <<doc, accepted, left>>
  /\ UNCHANGED <<cache, now, codeVars, wrong>>

-----------------------------------------------------------------------------
(***************************************************************************)
(* Sessions.                                                               *)
(***************************************************************************)

HasSession(u, until) == doc' = [doc EXCEPT ![u].session = until]

SessionStep(c, until) ==
  /\ HasSession(call[c].of, until)
  /\ Goes(c, Idle)
  /\ UNCHANGED <<cache, now, codeVars, history>>

OpenSession(c) == At(c, "open") /\ SessionStep(c, now + SessionTTL)

RefreshToken(c, u) ==
  /\ doc[u].session # 0
  /\ Begins(c, [Idle EXCEPT !.at = IF doc[u].session < now THEN "over" ELSE "rotate",
                            !.of = u, !.session = doc[u].session])
  /\ UNCHANGED <<doc, cache, now, codeVars, history>>

EndSession(c) == At(c, "over") /\ SessionStep(c, 0)
Rotate(c) == At(c, "rotate") /\ SessionStep(c, now + SessionTTL)

-----------------------------------------------------------------------------
(***************************************************************************)
(* The cached account.                                                     *)
(***************************************************************************)

Cached(u) == now < cache[u].until

\* Whom protect lets in: on the copy while there is one.
Admitted(u) == IF Cached(u) THEN ~cache[u].barred ELSE ~doc[u].barred

Logout(u) ==
  /\ Admitted(u)
  /\ HasSession(u, 0)
  /\ UNCHANGED <<call, cache, now, codeVars, history>>

\* A request that finds no copy reads the account.
Protect(c, u) ==
  /\ ~Cached(u)
  /\ Begins(c, [Idle EXCEPT !.at = "fill", !.of = u, !.barred = doc[u].barred])
  /\ UNCHANGED <<doc, cache, now, codeVars, history>>

\* A copy is a stray if the account changed between its reading and its storing.
Fill(c) ==
  LET u == call[c].of IN
  /\ At(c, "fill")
  /\ cache' = [cache EXCEPT ![u] =
       [barred |-> call[c].barred, until |-> now + CacheTTL,
        stray |-> call[c].barred # doc[u].barred]]
  /\ Goes(c, Idle)
  /\ UNCHANGED <<doc, now, codeVars, history>>

Bars(a, b) == doc' = [doc EXCEPT ![a].barred = b]

\* Mutant: the copy is evicted first.
EvictFirst(c, u, b) ==
  /\ Begins(c, [Idle EXCEPT !.at = "setActive", !.of = u, !.barred = b])
  /\ cache' = [cache EXCEPT ![u] = NoCopy]
  /\ UNCHANGED <<doc, now, codeVars, history>>

\* Also without effect: the copy is evicted all the same.
BlockUser(c, u, b) ==
  /\ Bars(u, b)
  /\ Begins(c, [Idle EXCEPT !.at = "evict", !.of = u])
  /\ UNCHANGED <<cache, now, codeVars, history>>

Evict(c) ==
  /\ At(c, "evict")
  /\ cache' = [cache EXCEPT ![call[c].of] = NoCopy]
  /\ Goes(c, Idle)
  /\ UNCHANGED <<doc, now, codeVars, history>>

\* An admin's block is the opposite of isActive, and save() writes it if it changed.
DeactivateAdmin(c, a) ==
  /\ Begins(c, [Idle EXCEPT !.at = "setActive", !.of = a, !.barred = ~doc[a].barred])
  /\ UNCHANGED <<doc, cache, now, codeVars, history>>

SaveAdmin(c) ==
  /\ At(c, "setActive")
  /\ Bars(call[c].of, call[c].barred)
  /\ Goes(c, Idle)
  /\ UNCHANGED <<cache, now, codeVars, history>>

-----------------------------------------------------------------------------
\* The process dies, or MongoDB or Redis fails the call.
CutShort(c) ==
  LET a == call[c].of IN
  /\ ~At(c, "idle")
  /\ Goes(c, Idle)
  /\ left' = IF At(c, "void") THEN left \cup {a} ELSE left
  /\ cache' = IF At(c, "evict") THEN [cache EXCEPT ![a].stray = TRUE] ELSE cache
  /\ UNCHANGED <<doc, now, codeVars, wrong, accepted>>

Tick ==
  /\ now < MaxTime
  /\ now' = now + 1
  /\ UNCHANGED <<doc, call, cache, codeVars, history>>

Ask(c) ==
  \/ \E u \in Users : RefreshToken(c, u) \/ Protect(c, u) \/ \E b \in BOOLEAN : BlockUser(c, u, b)
  \/ \E a \in Admins : DeactivateAdmin(c, a) \/ \E n \in Codes : AdminLogin(c, a, n)
  \/ \E a \in Accounts : VerifyOtp(c, a)

Work(c) ==
  \/ SaveLogin(c) \/ ClearExpired(c) \/ CountWrong(c) \/ Void(c) \/ Consume(c)
  \/ OpenSession(c) \/ EndSession(c) \/ Rotate(c)
  \/ Fill(c) \/ Evict(c) \/ SaveAdmin(c)

Next ==
  \/ \E c \in Calls : Ask(c) \/ Work(c) \/ CutShort(c)
  \/ \E u \in Users : Logout(u) \/ \E n \in Codes : SendOtp(u, n)
  \/ Tick

Spec == Init /\ [][Next]_vars

-----------------------------------------------------------------------------
(***************************************************************************)
(* Properties.                                                             *)
(***************************************************************************)

\* However many submissions of a code are under way at once, one of them signs in
\* (the query of Consume); it holds for users and admins alike.
OneSignInPerCode == \A n \in Codes : accepted[n] <= 1

\* No order of submissions, expiries and new codes loses a wrong submission while
\* the code lives, and none counts more of them than MAX_OTP_VERIFY_ATTEMPTS.
AttemptsCounted ==
  /\ \A n \in Codes : wrong[n] <= MaxAttempts
  /\ \A a \in Accounts : doc[a].otp # None => wrong[doc[a].otp] <= doc[a].attempts

\* A code with no attempts left is about to be taken away by a call, unless the call
\* that was to do it was cut short.
SpentIsVoided ==
  \A a \in Accounts :
    doc[a].attempts >= MaxAttempts =>
      a \in left \/ \E c \in Calls : At(c, "void") /\ call[c].of = a

\* A code that could still be used goes when it signs somebody in, or by a call that
\* had read another code of the account; a session that could still be used ends
\* with a logout, or by a call that had read another session.
OnlyOverlapsTakeAway ==
  [][/\ \A a \in Accounts :
          (doc[a].otp # None /\ doc'[a].otp = None
             /\ expiry[doc[a].otp] >= now /\ doc[a].attempts < MaxAttempts) =>
            \/ accepted'[doc[a].otp] > accepted[doc[a].otp]
            \/ \E c \in Calls : /\ At(c, "expired") \/ At(c, "void")
                                /\ call[c].of = a
                                /\ call[c].code # doc[a].otp
                                /\ call'[c] = Idle
     /\ \A u \in Users :
          (doc[u].session # 0 /\ doc'[u].session = 0 /\ doc[u].session >= now) =>
            \/ Logout(u)
            \/ \E c \in Calls : /\ At(c, "over")
                                /\ call[c].of = u
                                /\ call[c].session # doc[u].session
                                /\ call'[c] = Idle]_vars

\* A copy that disagrees with the account about its block is about to be evicted,
\* or is a stray: stored after its account had changed, or spared by a failure.
OutdatedForACause ==
  \A u \in Users :
    (Cached(u) /\ cache[u].barred # doc[u].barred) =>
      cache[u].stray \/ \E c \in Calls : At(c, "evict") /\ call[c].of = u

\* Codes that were made, and are with no account and no login that will save them.
Past ==
  {n \in issued :
     /\ \A a \in Accounts : doc[a].otp # n
     /\ \A c \in Calls : At(c, "save") => call[c].code # n}

\* The code each account holds, and the codes that would still be accepted.
Holding == [a \in Accounts |-> doc[a].otp]
Unexpired == {n \in Codes : expiry[n] > now}

\* Users' and admins' handlers keep the promise of module Passcode: no order of
\* saves, submissions and cut-short calls gives a code twice, revives one, or signs
\* somebody in twice with one, or with one that was replaced or has expired.
Promised == INSTANCE Passcode WITH
  holds   <- Holding,
  past    <- Past,
  live    <- Unexpired,
  guesses <- wrong,
  signIns <- accepted

PasscodeKept == Promised!Spec

=============================================================================
