---------------------------- MODULE MCBtcIngress ----------------------------
(* Five messages: one of its own, one that repeats its transaction, one that   *)
(* repeats its payload, one above the stop height, one that does not parse.    *)
EXTENDS BtcIngress, TLC

CONSTANTS m1, again, twin, high, bad, k1, k2, k3, k4, p1, p2, p3

KeyOfMC == m1 :> k1 @@ again :> k1 @@ twin :> k2 @@ high :> k3 @@ bad :> k4
PayloadOfMC == m1 :> p1 @@ again :> p1 @@ twin :> p1 @@ high :> p2 @@ bad :> p3

=============================================================================
