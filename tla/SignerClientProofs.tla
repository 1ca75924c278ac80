------------------------- MODULE SignerClientProofs -------------------------
(***************************************************************************)
(* Retries never execute a call twice, for any number of concurrent calls,  *)
(* any retry limit and any number of other errors.                          *)
(***************************************************************************)
EXTENDS SignerClient, TLAPS

\* A call that may still be sent has attempts left.
NotExhausted ==
  \A c \in Call : pc[c] \in {"idle", "query", "send", "sleep"} => retries[c] < MaxRetries

\* Types and attempts left go together: a retry stays within its bound only because
\* a call that may be retried has an attempt left.
LEMMA TypeInvariant == Spec => [](TypeOK /\ NotExhausted)
<1>. USE SignerAssumption DEF TypeOK, Pcs, NotExhausted, node
<1>1. Init => TypeOK /\ NotExhausted
  BY DEF Init
<1>2. TypeOK /\ NotExhausted /\ [Next]_vars => (TypeOK /\ NotExhausted)'
  <2>. SUFFICES ASSUME TypeOK, NotExhausted, [Next]_vars PROVE (TypeOK /\ NotExhausted)'
    OBVIOUS
  <2>. USE DEF Ok, Fault, Accept
  <2>1. ASSUME NEW c \in Call, Broadcast(c) PROVE (TypeOK /\ NotExhausted)'
    BY <2>1 DEF Broadcast
  <2>2. ASSUME NEW c \in Call, Sign(c) PROVE (TypeOK /\ NotExhausted)'
    BY <2>2 DEF Sign
  <2>3. ASSUME NEW c \in Call, Accepted(c) PROVE (TypeOK /\ NotExhausted)'
    BY <2>3 DEF Accepted
  <2>4. ASSUME NEW c \in Call, Mismatch(c) PROVE (TypeOK /\ NotExhausted)'
    BY <2>4 DEF Mismatch
  <2>5. ASSUME NEW c \in Call, Retry(c) PROVE (TypeOK /\ NotExhausted)'
    BY <2>5 DEF Retry
  <2>6. ASSUME NEW c \in Call, OtherError(c) PROVE (TypeOK /\ NotExhausted)'
    BY <2>6 DEF OtherError
  <2>7. ASSUME NEW c \in Call, Delivered(c) PROVE (TypeOK /\ NotExhausted)'
    BY <2>7 DEF Delivered
  <2>8. CASE Commit
    BY <2>8 DEF Commit
  <2>9. CASE UNCHANGED vars
    BY <2>9 DEF vars
  <2>. QED
    BY <2>1, <2>2, <2>3, <2>4, <2>5, <2>6, <2>7, <2>8, <2>9 DEF Next, Step
<1>. QED
  BY <1>1, <1>2, PTL DEF Spec

\* Every variable keeps its type; in particular no call is retried more than
\* MaxRetries times.
THEOREM TypeCorrect == Spec => []TypeOK
BY TypeInvariant, PTL

-----------------------------------------------------------------------------
(* A call is with the core (accepted or committed) at most once, and not at    *)
(* all while broadcast may still send it.                                      *)

Unsent == {"idle", "query", "send", "sleep"}

OnceInv ==
  \A c \in Call :
    /\ pc[c] \in Unsent => c \notin mempool /\ blocks[c] = 0
    /\ c \in mempool => blocks[c] = 0
    /\ blocks[c] <= 1
    /\ pc[c] = "ok" => blocks[c] = 1
    /\ pc[c] = "error" /\ faults = 0 => c \notin mempool /\ blocks[c] = 0

\* A call is at most once at the core, and not at all while it is still tried.
LEMMA OnceInvariant == Spec => []OnceInv
<1>. USE SignerAssumption DEF TypeOK, OnceInv, Unsent, node
<1>1. Init => OnceInv
  BY DEF Init
<1>2. TypeOK /\ OnceInv /\ [Next]_vars => OnceInv'
  <2>. SUFFICES ASSUME TypeOK, OnceInv, [Next]_vars PROVE OnceInv'
    OBVIOUS
  <2>. USE DEF Ok, Fault, Accept
  <2>1. ASSUME NEW c \in Call, Broadcast(c) PROVE OnceInv'
    BY <2>1 DEF Broadcast
  <2>2. ASSUME NEW c \in Call, Sign(c) PROVE OnceInv'
    BY <2>2 DEF Sign
  <2>3. ASSUME NEW c \in Call, Accepted(c) PROVE OnceInv'
    BY <2>3 DEF Accepted
  <2>4. ASSUME NEW c \in Call, Mismatch(c) PROVE OnceInv'
    BY <2>4 DEF Mismatch
  <2>5. ASSUME NEW c \in Call, Retry(c) PROVE OnceInv'
    BY <2>5 DEF Retry
  <2>6. ASSUME NEW c \in Call, OtherError(c) PROVE OnceInv'
    BY <2>6 DEF OtherError
  <2>7. ASSUME NEW c \in Call, Delivered(c) PROVE OnceInv'
    BY <2>7 DEF Delivered
  <2>8. CASE Commit
    BY <2>8 DEF Commit
  <2>9. CASE UNCHANGED vars
    BY <2>9 DEF vars
  <2>. QED
    BY <2>1, <2>2, <2>3, <2>4, <2>5, <2>6, <2>7, <2>8, <2>9 DEF Next, Step
<1>. QED
  BY <1>1, <1>2, TypeCorrect, PTL DEF Spec

\* The core executes a broadcast at most once, and once when it returned.
THEOREM NoDoubleExecution == Spec => []ExecutedOnce
<1>1. TypeOK /\ OnceInv => ExecutedOnce
  BY DEF TypeOK, OnceInv, ExecutedOnce
<1>. QED
  BY <1>1, TypeCorrect, OnceInvariant, PTL

\* A call still being tried, or failed without another error, had no effect.
THEOREM CleanFailure == Spec => []FailureIsClean
<1>1. OnceInv => FailureIsClean
  BY DEF OnceInv, FailureIsClean, Unsent
<1>. QED
  BY <1>1, OnceInvariant, PTL

-----------------------------------------------------------------------------
(* Without another error a call meets a mismatch only behind a call that the   *)
(* core took: the node counts what it accepted and never forgets it.           *)

\* The account's committed sequence, and what calls signed with, are not ahead of
\* the node, which counts from 0 up only by accepting a call.
SequenceBehind ==
  /\ chainSeq <= checkSeq
  /\ \A c \in Call : seq[c] <= chainSeq
  /\ checkSeq > 0 => \E d \in Call : d \in mempool \/ blocks[d] > 0

\* A call that has met a mismatch met it at a node that had accepted some call;
\* without other errors only the retries end in an error.
MetMismatch ==
  /\ \A c \in Call : pc[c] = "sleep" => checkSeq > 0
  /\ faults = 0 => \A c \in Call : pc[c] = "error" => retries[c] = MaxRetries /\ checkSeq > 0

\* Each step keeps what the node has counted.
LEMMA ContentionStep ==
  TypeOK /\ NotExhausted /\ SequenceBehind /\ MetMismatch /\ [Next]_vars
    => (SequenceBehind /\ MetMismatch)'
<1>. SUFFICES ASSUME TypeOK, NotExhausted, SequenceBehind, MetMismatch, [Next]_vars
              PROVE  (SequenceBehind /\ MetMismatch)'
  OBVIOUS
<1>. USE SignerAssumption DEF TypeOK, SequenceBehind, MetMismatch, node, Ok, Accept
<1>1. ASSUME NEW c \in Call, Broadcast(c) PROVE (SequenceBehind /\ MetMismatch)'
  BY <1>1 DEF Broadcast
<1>2. ASSUME NEW c \in Call, Sign(c) PROVE (SequenceBehind /\ MetMismatch)'
  BY <1>2 DEF Sign
<1>3. ASSUME NEW c \in Call, Accepted(c) PROVE (SequenceBehind /\ MetMismatch)'
  BY <1>3 DEF Accepted
<1>4. ASSUME NEW c \in Call, Mismatch(c) PROVE (SequenceBehind /\ MetMismatch)'
  <2>1. checkSeq > 0
    BY <1>4 DEF Mismatch
  <2>. QED
    BY <1>4, <2>1 DEF Mismatch
<1>5. ASSUME NEW c \in Call, Retry(c) PROVE (SequenceBehind /\ MetMismatch)'
  <2>1. retries[c] + 1 >= MaxRetries => retries[c] + 1 = MaxRetries
    BY <1>5 DEF Retry, NotExhausted
  <2>. QED
    BY <1>5, <2>1 DEF Retry
<1>6. ASSUME NEW c \in Call, OtherError(c) PROVE (SequenceBehind /\ MetMismatch)'
  <2>1. faults' # 0
    BY <1>6 DEF OtherError, Fault
  <2>2. SequenceBehind'
    BY <1>6 DEF OtherError
  <2>3. MetMismatch'
    BY <1>6, <2>1 DEF OtherError
  <2>. QED
    BY <2>2, <2>3
<1>7. ASSUME NEW c \in Call, Delivered(c) PROVE (SequenceBehind /\ MetMismatch)'
  BY <1>7 DEF Delivered
<1>8. CASE Commit
  BY <1>8 DEF Commit
<1>9. CASE UNCHANGED vars
  BY <1>9 DEF vars
<1>. QED
  BY <1>1, <1>2, <1>3, <1>4, <1>5, <1>6, <1>7, <1>8, <1>9 DEF Next, Step

\* A broadcast that throws without another error used up its retries, behind a call
\* of the same account that the core took (AxelarSignerClient.ts 89-97).
THEOREM ContentionOnly == Spec => []OnlyContentionFails
<1>1. Init => SequenceBehind /\ MetMismatch
  BY DEF Init, SequenceBehind, MetMismatch
<1>2. TypeOK /\ OnceInv /\ SequenceBehind /\ MetMismatch => OnlyContentionFails
  BY DEF TypeOK, OnceInv, SequenceBehind, MetMismatch, OnlyContentionFails
<1>. QED
  BY <1>1, <1>2, ContentionStep, TypeCorrect, OnceInvariant, TypeInvariant, PTL DEF Spec

=============================================================================
