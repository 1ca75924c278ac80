----------------------------- MODULE MCSubmitTx -----------------------------
(* Instances of SubmitTx for TLC. *)
EXTENDS SubmitTx, TLC

CONSTANTS c1, c2, c3

=============================================================================
