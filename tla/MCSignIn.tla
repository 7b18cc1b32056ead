------------------------------- MODULE MCSignIn -------------------------------
(***************************************************************************)
(* An instance of SignIn for TLC: one user and one admin.                  *)
(***************************************************************************)
EXTENDS SignIn, TLC, FiniteSets

Untouched(a) ==
  /\ doc[a] = NewDoc
  /\ \A c \in Calls : call[c].of # a
  /\ a \in Users => cache[a] = NoCopy

\* Accounts share nothing: each behaviour is about one of them.
OneAtATime == \E a \in Accounts : \A b \in Accounts \ {a} : Untouched(b)

\* Blocks and copies meet codes and sessions in logout alone: where there are any,
\* one code is enough, and none is about to be judged.
BlocksApart ==
  \A u \in Users :
    (doc[u].barred \/ cache[u] # NoCopy) =>
      /\ Cardinality(issued) <= 1
      /\ doc[u].otp = None

MCSymmetry == Permutations(Calls) \cup Permutations(Codes)

=============================================================================
