------------------------------ MODULE SubmitTx ------------------------------
(***************************************************************************)
(* Concurrent transactions of one wallet: EvmClient.submitTx, which         *)
(* gatewayExecute and execute call from any number of handlers at once.     *)
(* Each attempt takes the number of pending transactions for its nonce,     *)
(* sends, waits without a limit for its receipt, and on any error sleeps    *)
(* and sends the same call again, up to MaxRetry attempts.  The node, its   *)
(* mempool and the contracts are environment.                               *)
(***************************************************************************)
EXTENDS Naturals, FiniteSets

CONSTANTS
  Call,      \* calls of submitTx
  Once,      \* those that revert when repeated: a dApp call consumes its approval
  Refused,   \* those the contract reverts in any case
  None,      \* no call
  MaxRetry,  \* env.MAX_RETRY
  MaxNonce,  \* bound on the nonces of the wallet
  MaxFaults  \* bound on environment faults

ASSUME SubmitAssumption ==
  /\ None \notin Call
  /\ Once \subseteq Call
  /\ Refused \subseteq Call
  /\ MaxRetry \in Nat \ {0}
  /\ MaxNonce \in Nat
  /\ MaxFaults \in Nat

VARIABLES
  pc,     \* progress of each call
  tries,  \* retryAttempt
  nonce,  \* nonce of its current attempt
  slot,   \* the call whose transaction holds a nonce, mined or in the mempool
  mined,  \* number of mined transactions: the next nonce to mine
  good,   \* mined nonces whose transaction did not revert
  effect, \* calls that took effect
  faults

vars == <<pc, tries, nonce, slot, mined, good, effect, faults>>
chainVars == <<slot, mined, good, effect>>

Nonce == 0 .. MaxNonce
Pcs == {"idle", "populate", "send", "wait", "sleep", "ok", "failed"}

Init ==
  /\ pc = [c \in Call |-> "idle"]
  /\ tries = [c \in Call |-> 0]
  /\ nonce = [c \in Call |-> 0]
  /\ slot = [n \in Nonce |-> None]
  /\ mined = 0
  /\ good = {}
  /\ effect = {}
  /\ faults = 0

Ok    == UNCHANGED faults
Fault == faults < MaxFaults /\ faults' = faults + 1
Goto(c, p) == pc' = [pc EXCEPT ![c] = p]

-----------------------------------------------------------------------------
(* submitTx                                                                *)

\* Wrong on purpose: one attempt too many.
EnterOften(c, k) ==
  /\ tries' = [tries EXCEPT ![c] = k]
  /\ Goto(c, IF k > MaxRetry THEN "failed" ELSE "populate")

\* Attempt k begins, unless there were enough.
Enter(c, k) ==
  /\ tries' = [tries EXCEPT ![c] = k]
  /\ Goto(c, IF k >= MaxRetry THEN "failed" ELSE "populate")

SubmitTx(c) ==
  /\ pc[c] = "idle"
  /\ Enter(c, 0)
  /\ Ok
  /\ UNCHANGED <<nonce, chainVars>>

\* The transaction count of the pending block: mined transactions and the run of
\* waiting ones behind them.
IsPendingCount(n) ==
  /\ n >= mined
  /\ slot[n] = None
  /\ \A k \in Nonce : mined <= k /\ k < n => slot[k] # None

\* Wrong on purpose: the count of mined transactions is taken.
PopulateLatest(c) ==
  /\ pc[c] = "populate"
  /\ mined \in Nonce
  /\ nonce' = [nonce EXCEPT ![c] = mined]
  /\ Goto(c, "send")
  /\ Ok
  /\ UNCHANGED <<tries, chainVars>>

Populate(c) ==
  /\ pc[c] = "populate"
  /\ \E n \in Nonce : IsPendingCount(n) /\ nonce' = [nonce EXCEPT ![c] = n]
  /\ Goto(c, "send")
  /\ Ok
  /\ UNCHANGED <<tries, chainVars>>

Holds(c, n) == slot' = [slot EXCEPT ![n] = c]

\* Another call may have taken the nonce since it was read.  The node then rejects
\* the transaction (nonce too low, replacement underpriced) or, when it pays enough
\* more and the other is not mined, lets it replace the other.
SendTransaction(c) ==
  /\ pc[c] = "send"
  /\ \/ /\ slot[nonce[c]] = None \/ (slot[nonce[c]] # c /\ nonce[c] >= mined)
        /\ Holds(c, nonce[c])
        /\ Goto(c, "wait")
     \/ /\ slot[nonce[c]] # None
        /\ Goto(c, "sleep")
        /\ UNCHANGED slot
  /\ Ok
  /\ UNCHANGED <<tries, nonce, mined, good, effect>>

\* The request fails, or its answer is lost.
SendFails(c) ==
  /\ pc[c] = "send"
  /\ \/ UNCHANGED slot
     \/ slot[nonce[c]] = None /\ Holds(c, nonce[c])
  /\ Goto(c, "sleep")
  /\ Fault
  /\ UNCHANGED <<tries, nonce, mined, good, effect>>

Receipt(c) == slot[nonce[c]] = c /\ nonce[c] \in good

\* Wrong on purpose: the receipt is dropped, and the call made again.
WaitForNothing(c) ==
  /\ pc[c] = "wait"
  /\ nonce[c] < mined
  /\ Goto(c, "sleep")
  /\ Ok
  /\ UNCHANGED <<tries, nonce, chainVars>>

\* Wrong on purpose: a replaced transaction is waited for.
WaitForOwn(c) ==
  /\ pc[c] = "wait"
  /\ nonce[c] < mined
  /\ slot[nonce[c]] = c
  /\ Goto(c, IF Receipt(c) THEN "ok" ELSE "sleep")
  /\ Ok
  /\ UNCHANGED <<tries, nonce, chainVars>>

\* Wrong on purpose: the wait times out.
WaitWithTimeout(c) ==
  /\ pc[c] = "wait"
  /\ Goto(c, IF nonce[c] < mined /\ Receipt(c) THEN "ok" ELSE "sleep")
  /\ Ok
  /\ UNCHANGED <<tries, nonce, chainVars>>

\* wait returns when the nonce is mined, and rejects when the transaction was
\* replaced or reverted.
Wait(c) ==
  /\ pc[c] = "wait"
  /\ nonce[c] < mined
  /\ Goto(c, IF Receipt(c) THEN "ok" ELSE "sleep")
  /\ Ok
  /\ UNCHANGED <<tries, nonce, chainVars>>

\* The request for the receipt fails.
WaitFails(c) ==
  /\ pc[c] = "wait"
  /\ Goto(c, "sleep")
  /\ Fault
  /\ UNCHANGED <<tries, nonce, chainVars>>

\* Every error is caught here: sleep, then the same transaction once more.
Retry(c) ==
  /\ pc[c] = "sleep"
  /\ Enter(c, tries[c] + 1)
  /\ Ok
  /\ UNCHANGED <<nonce, chainVars>>

-----------------------------------------------------------------------------
(* The chain                                                               *)

Reverts(c) == c \in Refused \cup (Once \cap effect)

Mine ==
  /\ mined \in Nonce
  /\ slot[mined] # None
  /\ mined' = mined + 1
  /\ IF Reverts(slot[mined])
       THEN UNCHANGED <<good, effect>>
       ELSE /\ good' = good \cup {mined}
            /\ effect' = effect \cup {slot[mined]}
  /\ Ok
  /\ UNCHANGED <<pc, tries, nonce, slot>>

\* The node drops a transaction from its mempool: the nonces above it wait until
\* another fills the gap.
Evict(n) ==
  /\ n >= mined
  /\ slot[n] # None
  /\ Holds(None, n)
  /\ Fault
  /\ UNCHANGED <<pc, tries, nonce, mined, good, effect>>

-----------------------------------------------------------------------------

Step(c) == Populate(c) \/ SendTransaction(c) \/ Wait(c) \/ Retry(c)

Next ==
  \/ \E c \in Call : SubmitTx(c) \/ Step(c) \/ SendFails(c) \/ WaitFails(c)
  \/ Mine
  \/ \E n \in Nonce : Evict(n)

Spec == Init /\ [][Next]_vars

\* Requests are answered, timers fire, blocks are mined; handlers need not call.
FairSpec == Spec /\ WF_vars(Mine) /\ \A c \in Call : WF_vars(Step(c))

-----------------------------------------------------------------------------
(* Properties                                                              *)

\* Every variable keeps its type; attempts and nonces stay within their bounds.
TypeOK ==
  /\ pc \in [Call -> Pcs]
  /\ tries \in [Call -> 0 .. MaxRetry]
  /\ nonce \in [Call -> Nonce]
  /\ slot \in [Nonce -> Call \cup {None}]
  /\ mined \in 0 .. MaxNonce + 1
  /\ good \subseteq Nonce
  /\ effect \subseteq Call
  /\ faults \in 0 .. MaxFaults

\* A call that gives up while nothing fails lost MaxRetry different nonces to other
\* calls of the wallet (EvmClient.ts 162-181): contention alone makes a handler write
\* FAILED only when more calls run at once than there are attempts.
Lost(c) == {n \in Nonce : slot[n] \notin {None, c}}
OnlyContentionFails ==
  faults = 0 => \A c \in Call \ Refused :
    pc[c] = "failed" => Cardinality(Lost(c)) >= MaxRetry

\* What the caller is told: a receipt is that of its own call, done; nothing is returned
\* only for a call that has no effect and will have none, unless something has failed
\* before (EvmClient.ts 157-183).  Retries after a reverted, rejected or replaced
\* transaction do not hide what an earlier attempt did.
State == [c \in Call |-> IF pc[c] \in {"idle", "ok", "failed"} THEN pc[c] ELSE "open"]
Abstract == INSTANCE ChainCall WITH state <- State, lossy <- faults > 0
ImplementsChainCall == Abstract!Spec

\* A call that ended is over, and a call that retries starts afresh: while nothing
\* fails, only the transaction a call waits for is in the mempool (EvmClient.ts
\* 168-181), so what the caller does next cannot race with its own earlier call.
NothingLeftBehind ==
  faults = 0 => \A n \in Nonce : n >= mined /\ slot[n] # None =>
    pc[slot[n]] = "wait" /\ nonce[slot[n]] = n

\* While nothing fails no call takes effect twice, however often it is sent again
\* (EvmClient.ts 173-181): an attempt is given up only when its transaction can no
\* longer be mined, or was mined and reverted.
OneEffect ==
  faults = 0 => \A c \in Call : Cardinality({n \in good : slot[n] = c}) <= 1

\* While nothing fails every call comes to an end, although it waits without a limit
\* behind the transactions of all the others.
EveryCallEnds ==
  \A c \in Call : pc[c] = "populate" ~> pc[c] \in {"ok", "failed"} \/ faults > 0

=============================================================================
