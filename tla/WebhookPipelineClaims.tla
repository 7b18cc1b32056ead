------------------------ MODULE WebhookPipelineClaims ------------------------
(***************************************************************************)
(* What the repository says about the recovery of payments and the code    *)
(* does not keep.                                                          *)
(***************************************************************************)
EXTENDS WebhookPipeline

\* DOC-17: "Payment reconciliation and webhook queue retries cover
\* delayed/missed external events."  An event whose intake died is missed.
MissedEventsCovered ==
  \A p \in Payments : Unfinished(p) /\ place[p] = "free" ~> row[p] = "SUCCESS"

=============================================================================
