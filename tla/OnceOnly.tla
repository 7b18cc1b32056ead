------------------------------ MODULE OnceOnly ------------------------------
(***************************************************************************)
(* What the idempotency guard promises to those who repeat a request: of   *)
(* the requests that bear one key at most one is carried out, none once    *)
(* any of them has had an answer, and whoever has an answer has the one    *)
(* that was given first, and true.  A request may have no answer at all.   *)
(***************************************************************************)
CONSTANTS Requests, Keys, None

VARIABLES
  keyOf,   \* request -> its key, or None
  bodyOf,  \* request -> what it asks for
  done,    \* requests that were carried out
  told,    \* request -> the answer it had
  kept     \* key -> the answer kept for repetitions, and what it was an answer to

asks == <<keyOf, bodyOf>>
vars == <<asks, done, told, kept>>

Answers == {"created", "refused", "error"}
NotKept == [body |-> None, answer |-> "nothing"]

Init ==
  /\ done = {}
  /\ told = [r \in Requests |-> "nothing"]
  /\ kept = [k \in Keys |-> NotKept]

\* The repetitions of r, itself among them.
Same(r) == {q \in Requests : q = r \/ (keyOf[q] = keyOf[r] /\ keyOf[r] # None)}

Unanswered(r) == \A q \in Same(r) : told[q] = "nothing"

CarryOut(r) ==
  /\ r \notin done
  /\ done' = done \cup {r}
  /\ Same(r) \cap done = {}
  /\ Unanswered(r)
  /\ UNCHANGED <<asks, told, kept>>

\* "error" promises nothing: the request may have been carried out or not.
Answer(r) ==
  /\ told[r] = "nothing"
  /\ told'[r] \in Answers
  /\ told' = [told EXCEPT ![r] = told'[r]]
  /\ Unanswered(r)
  /\ told'[r] = "created" => r \in done
  /\ told'[r] = "refused" => Same(r) \cap done = {}
  /\ UNCHANGED <<asks, done, kept>>

Keep(r) ==
  /\ keyOf[r] # None
  /\ told[r] \in Answers
  /\ kept[keyOf[r]] = NotKept
  /\ kept' = [kept EXCEPT ![keyOf[r]] = [body |-> bodyOf[r], answer |-> told[r]]]
  /\ UNCHANGED <<asks, done, told>>

Repeat(r) ==
  /\ keyOf[r] # None
  /\ told[r] = "nothing"
  /\ kept[keyOf[r]].body = bodyOf[r]
  /\ kept[keyOf[r]].answer \in Answers
  /\ told' = [told EXCEPT ![r] = kept[keyOf[r]].answer]
  /\ UNCHANGED <<asks, done, kept>>

Next ==
  \E r \in Requests :
    CarryOut(r) \/ Answer(r) \/ Keep(r) \/ Repeat(r)

Spec == Init /\ [][Next]_vars

=============================================================================
