-------------------------- MODULE MCWebhookPipeline --------------------------
(***************************************************************************)
(* Instances of WebhookPipelineClaims for TLC.                             *)
(***************************************************************************)
EXTENDS WebhookPipelineClaims

\* Where no worker dies, nobody looks at the lock of a reconciliation that runs, and
\* its end gives the lock back: the TTL need not pass before.
LockOutlastsScan == recJob = "active" => recLock = "held"

=============================================================================
