----------------------------- MODULE ChainCall ------------------------------
(***************************************************************************)
(* What a handler takes a call of EvmClient for: one step that either has   *)
(* its effect on the chain and returns a receipt, or has none and returns   *)
(* nothing.  Once something between wallet and chain has failed, a call may *)
(* also return nothing for an effect that is there, or is still to come.    *)
(***************************************************************************)

CONSTANT Call

VARIABLES
  state,  \* of each call, to its caller
  effect, \* calls whose effect is on the chain
  lossy   \* whether something has failed

Init ==
  /\ state = [c \in Call |-> "idle"]
  /\ effect = {}
  /\ lossy = FALSE

Begin(c) ==
  /\ state[c] = "idle"
  /\ state' = [state EXCEPT ![c] = "open"]
  /\ UNCHANGED <<effect, lossy>>

TakeEffect(c) ==
  /\ state[c] = "open" \/ (lossy /\ state[c] = "failed")
  /\ c \notin effect
  /\ effect' = effect \cup {c}
  /\ UNCHANGED <<state, lossy>>

Succeed(c) ==
  /\ state[c] = "open"
  /\ c \in effect
  /\ state' = [state EXCEPT ![c] = "ok"]
  /\ UNCHANGED <<effect, lossy>>

Fail(c) ==
  /\ state[c] = "open"
  /\ c \notin effect \/ lossy
  /\ state' = [state EXCEPT ![c] = "failed"]
  /\ UNCHANGED <<effect, lossy>>

Disturb ==
  /\ lossy' = TRUE
  /\ UNCHANGED <<state, effect>>

Next == Disturb \/ \E c \in Call : Begin(c) \/ TakeEffect(c) \/ Succeed(c) \/ Fail(c)

Spec == Init /\ [][Next]_<<state, effect, lossy>>

=============================================================================
