---------------------------- MODULE SignerClient ----------------------------
(***************************************************************************)
(* Concurrent broadcasts through the one account of the relayer             *)
(* (clients/AxelarClient/AxelarSignerClient.ts).  Confirmations, batch      *)
(* signatures and routings of all handlers go through broadcast, which      *)
(* retries a call, a bounded number of times, when the node reports an      *)
(* account sequence mismatch, and only then.  The node and the signing      *)
(* library are the environment.                                             *)
(***************************************************************************)
EXTENDS Naturals, FiniteSets

CONSTANTS
  Call,       \* broadcasts the handlers ask for
  MaxRetries, \* config.maxRetries
  MaxFaults   \* bound on errors other than a sequence mismatch

ASSUME SignerAssumption == MaxRetries \in Nat \ {0} /\ MaxFaults \in Nat

VARIABLES
  pc,       \* progress of each call
  retries,  \* its `retries' argument
  seq,      \* the account sequence it signed with
  mempool,  \* calls the node accepted and has not committed
  blocks,   \* how often each call was committed
  checkSeq, \* the next sequence the node accepts
  chainSeq, \* the sequence of the committed account, which queries return
  faults

vars == <<pc, retries, seq, mempool, blocks, checkSeq, chainSeq, faults>>

Pcs == {"idle", "query", "send", "wait", "sleep", "ok", "error"}

Init ==
  /\ pc = [c \in Call |-> "idle"]
  /\ retries = [c \in Call |-> 0]
  /\ seq = [c \in Call |-> 0]
  /\ mempool = {}
  /\ blocks = [c \in Call |-> 0]
  /\ checkSeq = 0
  /\ chainSeq = 0
  /\ faults = 0

Ok    == UNCHANGED faults
Fault == faults < MaxFaults /\ faults' = faults + 1

node == <<mempool, blocks, checkSeq, chainSeq>>

Broadcast(c) ==
  /\ pc[c] = "idle"
  /\ pc' = [pc EXCEPT ![c] = "query"]
  /\ Ok
  /\ UNCHANGED <<retries, seq, node>>

\* signThenBroadcast reads the committed account before it signs.
Sign(c) ==
  /\ pc[c] = "query"
  /\ pc' = [pc EXCEPT ![c] = "send"]
  /\ seq' = [seq EXCEPT ![c] = chainSeq]
  /\ Ok
  /\ UNCHANGED <<retries, node>>

Accept(c) ==
  /\ mempool' = mempool \cup {c}
  /\ checkSeq' = checkSeq + 1
  /\ UNCHANGED <<blocks, chainSeq>>

Accepted(c) ==
  /\ pc[c] = "send"
  /\ seq[c] = checkSeq
  /\ Accept(c)
  /\ pc' = [pc EXCEPT ![c] = "wait"]
  /\ Ok
  /\ UNCHANGED <<retries, seq>>

\* Wrong on purpose: a refused call is waited for like an accepted one.
MismatchIgnored(c) ==
  /\ pc[c] = "send"
  /\ seq[c] # checkSeq
  /\ pc' = [pc EXCEPT ![c] = "wait"]
  /\ Ok
  /\ UNCHANGED <<retries, seq, node>>

Mismatch(c) ==
  /\ pc[c] = "send"
  /\ seq[c] # checkSeq
  /\ pc' = [pc EXCEPT ![c] = "sleep"]
  /\ Ok
  /\ UNCHANGED <<retries, seq, node>>

\* Wrong on purpose: one attempt too many, and one too few.
RetryAfter(c, limit) ==
  /\ pc[c] = "sleep"
  /\ retries' = [retries EXCEPT ![c] = @ + 1]
  /\ pc' = [pc EXCEPT ![c] = IF retries[c] + 1 >= limit THEN "error" ELSE "query"]
  /\ Ok
  /\ UNCHANGED <<seq, node>>
RetryOften(c) == RetryAfter(c, MaxRetries + 1)
RetrySeldom(c) == RetryAfter(c, MaxRetries - 1)

\* After the delay broadcast calls itself with one more retry; at the limit it
\* throws 'Max retries exceeded' before it sends anything.
Retry(c) ==
  /\ pc[c] = "sleep"
  /\ retries' = [retries EXCEPT ![c] = @ + 1]
  /\ pc' = [pc EXCEPT ![c] = IF retries[c] + 1 >= MaxRetries THEN "error" ELSE "query"]
  /\ Ok
  /\ UNCHANGED <<seq, node>>

\* Wrong on purpose: every error is retried.
RetryAnyError(c) ==
  /\ pc[c] \in {"query", "send", "wait"}
  /\ pc' = [pc EXCEPT ![c] = "sleep"]
  /\ \/ UNCHANGED node
     \/ pc[c] = "send" /\ seq[c] = checkSeq /\ Accept(c)
  /\ Fault
  /\ UNCHANGED <<retries, seq>>

\* Any other error is passed on, also when the node had accepted the call and only
\* the answer was lost or came too late.
OtherError(c) ==
  /\ pc[c] \in {"query", "send", "wait"}
  /\ pc' = [pc EXCEPT ![c] = "error"]
  /\ \/ UNCHANGED node
     \/ pc[c] = "send" /\ seq[c] = checkSeq /\ Accept(c)
  /\ Fault
  /\ UNCHANGED <<retries, seq>>

Delivered(c) ==
  /\ pc[c] = "wait"
  /\ blocks[c] > 0
  /\ pc' = [pc EXCEPT ![c] = "ok"]
  /\ Ok
  /\ UNCHANGED <<retries, seq, node>>

\* The node commits a block with everything it had accepted.
Commit ==
  /\ mempool # {}
  /\ mempool' = {}
  /\ blocks' = [c \in Call |-> IF c \in mempool THEN blocks[c] + 1 ELSE blocks[c]]
  /\ chainSeq' = checkSeq
  /\ Ok
  /\ UNCHANGED <<pc, retries, seq, checkSeq>>

Step(c) ==
  \/ Sign(c) \/ Accepted(c) \/ Mismatch(c) \/ Retry(c) \/ Delivered(c)

Next ==
  \/ \E c \in Call : Broadcast(c) \/ Step(c) \/ OtherError(c)
  \/ Commit

Spec == Init /\ [][Next]_vars

\* Timers fire and promises resume; the core commits blocks.
Fairness == WF_vars(Commit) /\ \A c \in Call : WF_vars(Step(c))

FairSpec == Spec /\ Fairness

-----------------------------------------------------------------------------

\* Every variable keeps its type: the statuses are values of the Status enumeration,
\* the counters stay within their bounds, handlers are at a point of their code.
TypeOK ==
  /\ pc \in [Call -> Pcs]
  /\ retries \in [Call -> 0..MaxRetries]
  /\ seq \in [Call -> Nat]
  /\ mempool \subseteq Call
  /\ blocks \in [Call -> Nat]
  /\ checkSeq \in Nat
  /\ chainSeq \in Nat
  /\ faults \in 0..MaxFaults

\* However often a call is retried, the core executes it at most once, and exactly
\* once when broadcast returns: only an error that proves the call was not taken
\* is retried (AxelarSignerClient.ts 89-97).
ExecutedOnce ==
  \A c \in Call :
    /\ blocks[c] + (IF c \in mempool THEN 1 ELSE 0) <= 1
    /\ pc[c] = "ok" => blocks[c] = 1

\* A call that is still being tried, or gave up on its retries, is not on its way
\* to the core: without another error, a failed broadcast had no effect.
FailureIsClean ==
  \A c \in Call :
    /\ pc[c] \in {"idle", "query", "send", "sleep"} => c \notin mempool /\ blocks[c] = 0
    /\ pc[c] = "error" /\ faults = 0 => c \notin mempool /\ blocks[c] = 0

\* Without other errors a call fails only after MaxRetries attempts, and only
\* against another call of the same account that the core did take.
OnlyContentionFails ==
  faults = 0 => \A c \in Call : pc[c] = "error" =>
    /\ retries[c] = MaxRetries
    /\ \E d \in Call \ {c} : d \in mempool \/ blocks[d] > 0

\* Every broadcast returns or throws.
EveryCallEnds == \A c \in Call : pc[c] = "query" ~> pc[c] \in {"ok", "error"}

=============================================================================
