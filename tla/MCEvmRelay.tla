----------------------------- MODULE MCEvmRelay -----------------------------
(* Instances of EvmRelay for TLC: two messages of one transaction, with one    *)
(* payload or one each.                                                       *)
EXTENDS EvmRelay

CONSTANTS m1, m2, t1, p1, p2

OneTx       == [m \in Msg |-> t1]
OnePayload  == [m \in Msg |-> p1]
PayloadEach == [m \in Msg |-> IF m = m1 THEN p1 ELSE p2]

=============================================================================
