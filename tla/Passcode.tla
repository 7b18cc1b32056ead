------------------------------- MODULE Passcode -------------------------------
(***************************************************************************)
(* What the backend promises about the one-time codes it sends.  A code is *)
(* given to one account, once; it lives until it expires, and a code that  *)
(* was given out is never revived; it signs its account in while it lives  *)
(* and is held, and is gone then; and wrong guesses of it are counted, up  *)
(* to a limit, while it is held.                                           *)
(***************************************************************************)
EXTENDS Naturals

CONSTANTS Accounts, Codes, None, MaxAttempts

VARIABLES
  holds,    \* account -> the code it may sign in with, or None
  past,     \* codes that no account will hold any more
  live,     \* codes that have not expired
  guesses,  \* code -> wrong guesses counted
  signIns   \* code -> how often it signed somebody in

vars == <<holds, past, live, guesses, signIns>>

Init ==
  /\ holds = [a \in Accounts |-> None]
  /\ past = {}
  /\ live = {}
  /\ guesses = [n \in Codes |-> 0]
  /\ signIns = [n \in Codes |-> 0]

Held(n) == \E a \in Accounts : holds[a] = n

\* Codes expire at any time; only one that was not given out yet begins to live.
Expire == \A n \in live' \ live : n \notin past /\ ~Held(n)

\* A code is forgotten before anybody got it.
Pass ==
  /\ Expire
  /\ past \subseteq past'
  /\ \A n \in past' : ~Held(n)
  /\ UNCHANGED <<holds, guesses, signIns>>

\* What a holds from now on, instead of what it held.
Replaces(a, n) ==
  /\ holds' = [holds EXCEPT ![a] = n]
  /\ past' = past \cup ({holds[a]} \ {None})

Give(a, n) ==
  /\ n \notin past
  /\ ~Held(n)
  /\ Expire
  /\ Replaces(a, n)
  /\ UNCHANGED <<guesses, signIns>>

TakeBack(a) ==
  /\ Replaces(a, None)
  /\ UNCHANGED <<live, guesses, signIns>>

Guess(a) ==
  /\ holds[a] # None
  /\ guesses[holds[a]] < MaxAttempts
  /\ guesses' = [guesses EXCEPT ![holds[a]] = @ + 1]
  /\ UNCHANGED <<holds, past, live, signIns>>

SignIn(a) ==
  /\ holds[a] \in live
  /\ signIns[holds[a]] = 0
  /\ signIns' = [signIns EXCEPT ![holds[a]] = 1]
  /\ Replaces(a, None)
  /\ UNCHANGED <<live, guesses>>

Next ==
  \/ Pass
  \/ \E a \in Accounts :
       TakeBack(a) \/ Guess(a) \/ SignIn(a) \/ \E n \in Codes : Give(a, n)

Spec == Init /\ [][Next]_vars

=============================================================================
