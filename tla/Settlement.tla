----------------------------- MODULE Settlement -----------------------------
(***************************************************************************)
(* What the ingress of staking transactions promises, whatever the queue    *)
(* and the process go through: every message is settled at most once, as    *)
(* done or as dropped, the core is asked at most once about a transaction,  *)
(* and a message is done only after the core was asked about its own, or    *)
(* when it is one the relayer is told to leave out.                         *)
(***************************************************************************)
EXTENDS Naturals

CONSTANTS Msg, Key, KeyOf, LeftOut

VARIABLES
  fate,  \* of each message
  asked  \* how often the core was asked about each transaction

Init ==
  /\ fate = [m \in Msg |-> "open"]
  /\ asked = [k \in Key |-> 0]

Ask(k) ==
  /\ asked[k] = 0
  /\ asked' = [asked EXCEPT ![k] = 1]
  /\ UNCHANGED fate

Finish(m) ==
  /\ fate[m] = "open"
  /\ m \in LeftOut \/ asked[KeyOf[m]] > 0
  /\ fate' = [fate EXCEPT ![m] = "done"]
  /\ UNCHANGED asked

Drop(m) ==
  /\ fate[m] = "open"
  /\ m \notin LeftOut
  /\ fate' = [fate EXCEPT ![m] = "dropped"]
  /\ UNCHANGED asked

Next == (\E k \in Key : Ask(k)) \/ (\E m \in Msg : Finish(m) \/ Drop(m))

Spec == Init /\ [][Next]_<<fate, asked>>

=============================================================================
