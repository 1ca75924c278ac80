---------------------------- MODULE MCBtcExecute ----------------------------
(* Instances of BtcExecute for TLC: the third withdrawal repeats the burning   *)
(* transaction of the second.                                                 *)
EXTENDS BtcExecute, TLC

CONSTANTS m1, m2, m3, p1, p2, op

Repeating == [m \in Msg |-> IF m = m1 THEN p1 ELSE p2]

=============================================================================
