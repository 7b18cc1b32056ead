------------------------------- MODULE MCRefund -------------------------------
(***************************************************************************)
(* Instances of Refund for TLC.                                            *)
(***************************************************************************)
EXTENDS Refund, TLC

CallSymmetry == Permutations(Requests) \cup Permutations(Cancels)

=============================================================================
