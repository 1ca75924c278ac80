--------------------------- MODULE SubmitTxProofs ---------------------------
(***************************************************************************)
(* What SubmitTx keeps for any number of calls, attempts and faults.        *)
(***************************************************************************)
EXTENDS SubmitTx, FiniteSetTheorems, TLAPS

\* A call that is not over has an attempt left: so the attempts stay within MaxRetry.
AttemptLeft ==
  \A c \in Call : pc[c] \in {"populate", "send", "wait", "sleep"} => tries[c] < MaxRetry

\* Nothing happens any more to a mined nonce, and one in `good' has its call's effect.
MinedStays ==
  /\ \A n \in Nonce : n < mined => slot[n] # None
  /\ \A n \in good : n < mined /\ slot[n] \in effect

\* An effect is that of a mined nonce; a receipt is one of an effect; who never called
\* has no transaction.
Earned ==
  /\ \A c \in effect : \E n \in good : slot[n] = c
  /\ \A c \in Call : pc[c] = "ok" => c \in effect
  /\ \A n \in Nonce : slot[n] # None => pc[slot[n]] # "idle"

\* Without faults a call knows of its effect: it waits at that nonce, or has its receipt.
EffectKnown ==
  faults = 0 => \A n \in good : pc[slot[n]] \in {"wait", "ok"} /\ nonce[slot[n]] = n

IInv == AttemptLeft /\ MinedStays /\ Earned /\ EffectKnown /\ NothingLeftBehind

LEMMA InitInv == Init => TypeOK /\ IInv
  BY SubmitAssumption DEF Init, TypeOK, IInv, AttemptLeft, MinedStays, Earned,
     EffectKnown, NothingLeftBehind, Nonce, Pcs

\* What becomes of the type under each action.
LEMMA TypeStep == TypeOK /\ IInv /\ [Next]_vars => TypeOK'
<1>. SUFFICES ASSUME TypeOK, IInv, [Next]_vars PROVE TypeOK'
  OBVIOUS
<1>. USE SubmitAssumption DEF TypeOK
<1>1. ASSUME NEW c \in Call, SubmitTx(c) PROVE TypeOK'
  BY <1>1 DEF SubmitTx, Enter, Goto, Ok, chainVars, Pcs
<1>2. ASSUME NEW c \in Call, Populate(c) PROVE TypeOK'
  BY <1>2 DEF Populate, Goto, Ok, chainVars, Pcs
<1>3. ASSUME NEW c \in Call, SendTransaction(c) PROVE TypeOK'
  BY <1>3 DEF SendTransaction, Holds, Goto, Ok, Pcs
<1>4. ASSUME NEW c \in Call, SendFails(c) PROVE TypeOK'
  BY <1>4 DEF SendFails, Holds, Goto, Fault, Pcs
<1>5. ASSUME NEW c \in Call, Wait(c) PROVE TypeOK'
  BY <1>5 DEF Wait, Goto, Ok, chainVars, Pcs
<1>6. ASSUME NEW c \in Call, WaitFails(c) PROVE TypeOK'
  BY <1>6 DEF WaitFails, Goto, Fault, chainVars, Pcs
<1>7. ASSUME NEW c \in Call, Retry(c) PROVE TypeOK'
  <2>1. tries[c] < MaxRetry
    BY <1>7 DEF Retry, IInv, AttemptLeft
  <2>. QED
    BY <1>7, <2>1 DEF Retry, Enter, Goto, Ok, chainVars, Pcs
<1>8. CASE Mine
  <2>1. mined \in Nonce /\ slot[mined] \in Call
    BY <1>8 DEF Mine
  <2>2. mined' \in 0 .. MaxNonce + 1
    BY <1>8, <2>1 DEF Mine, Nonce
  <2>3. good' \subseteq Nonce /\ effect' \subseteq Call
    BY <1>8, <2>1 DEF Mine
  <2>. QED
    BY <1>8, <2>2, <2>3 DEF Mine, Ok
<1>9. ASSUME NEW n \in Nonce, Evict(n) PROVE TypeOK'
  BY <1>9 DEF Evict, Holds, Fault
<1>10. CASE UNCHANGED vars
  BY <1>10 DEF vars
<1>. QED
  BY <1>1, <1>2, <1>3, <1>4, <1>5, <1>6, <1>7, <1>8, <1>9, <1>10 DEF Next, Step

\* Attempts, nonces and chain keep their relations under each action.
LEMMA InvStep == TypeOK /\ IInv /\ [Next]_vars => IInv'
<1>. SUFFICES ASSUME TypeOK, IInv, [Next]_vars PROVE IInv'
  OBVIOUS
<1>. USE SubmitAssumption DEF TypeOK, IInv
<1>1. ASSUME NEW c \in Call, SubmitTx(c) PROVE IInv'
  BY <1>1 DEF SubmitTx, Enter, Goto, Ok, chainVars, AttemptLeft, MinedStays, Earned,
     EffectKnown, NothingLeftBehind
<1>2. ASSUME NEW c \in Call, Populate(c) PROVE IInv'
  BY <1>2 DEF Populate, Goto, Ok, chainVars, AttemptLeft, MinedStays, Earned,
     EffectKnown, NothingLeftBehind
<1>3. ASSUME NEW c \in Call, SendTransaction(c) PROVE IInv'
  <2>1. CASE /\ slot[nonce[c]] = None \/ (slot[nonce[c]] # c /\ nonce[c] >= mined)
             /\ Holds(c, nonce[c])
             /\ Goto(c, "wait")
    <3>1. nonce[c] \in Nonce /\ nonce[c] >= mined
      BY <2>1 DEF MinedStays, Nonce
    <3>2. \A n \in Nonce : n < mined => slot'[n] = slot[n]
      BY <2>1, <3>1 DEF Holds, Nonce
    <3>3. AttemptLeft'
      BY <1>3, <2>1 DEF SendTransaction, Goto, AttemptLeft
    <3>4. MinedStays'
      BY <1>3, <3>2 DEF SendTransaction, MinedStays
    <3>5. Earned'
      BY <1>3, <2>1, <3>2 DEF SendTransaction, Goto, Holds, MinedStays, Earned
    <3>6. EffectKnown'
      BY <1>3, <2>1, <3>2 DEF SendTransaction, Goto, MinedStays, EffectKnown, Ok
    <3>7. NothingLeftBehind'
      BY <1>3, <2>1 DEF SendTransaction, Goto, Holds, Ok, NothingLeftBehind
    <3>. QED
      BY <3>3, <3>4, <3>5, <3>6, <3>7
  <2>2. CASE Goto(c, "sleep") /\ UNCHANGED slot
    BY <1>3, <2>2 DEF SendTransaction, Goto, Ok, AttemptLeft, MinedStays, Earned,
       EffectKnown, NothingLeftBehind
  <2>. QED
    BY <1>3, <2>1, <2>2 DEF SendTransaction
<1>4. ASSUME NEW c \in Call, SendFails(c) PROVE IInv'
  <2>1. faults' # 0
    BY <1>4 DEF SendFails, Fault
  <2>2. EffectKnown' /\ NothingLeftBehind'
    BY <2>1 DEF EffectKnown, NothingLeftBehind
  <2>3. AttemptLeft' /\ MinedStays' /\ Earned'
    BY <1>4 DEF SendFails, Goto, Holds, AttemptLeft, MinedStays, Earned
  <2>. QED
    BY <2>2, <2>3
<1>5. ASSUME NEW c \in Call, Wait(c) PROVE IInv'
  <2>1. AttemptLeft' /\ MinedStays'
    BY <1>5 DEF Wait, Goto, chainVars, AttemptLeft, MinedStays
  <2>2. Earned'
    BY <1>5 DEF Wait, Receipt, Goto, chainVars, MinedStays, Earned
  <2>3. EffectKnown'
    <3>. SUFFICES ASSUME faults = 0, NEW n \in good
                  PROVE pc'[slot[n]] \in {"wait", "ok"} /\ nonce[slot[n]] = n
      BY <1>5 DEF Wait, Ok, chainVars, EffectKnown
    <3>1. slot[n] \in Call /\ pc[slot[n]] \in {"wait", "ok"} /\ nonce[slot[n]] = n
      BY DEF EffectKnown, MinedStays
    <3>2. CASE slot[n] = c
      BY <1>5, <3>1, <3>2 DEF Wait, Receipt, Goto
    <3>3. CASE slot[n] # c
      BY <1>5, <3>1, <3>3 DEF Wait, Goto
    <3>. QED
      BY <3>2, <3>3
  <2>4. NothingLeftBehind'
    BY <1>5 DEF Wait, Goto, Ok, chainVars, NothingLeftBehind, Nonce
  <2>. QED
    BY <2>1, <2>2, <2>3, <2>4
<1>6. ASSUME NEW c \in Call, WaitFails(c) PROVE IInv'
  <2>1. faults' # 0
    BY <1>6 DEF WaitFails, Fault
  <2>. QED
    BY <1>6, <2>1 DEF WaitFails, Goto, chainVars, AttemptLeft, MinedStays, Earned,
       EffectKnown, NothingLeftBehind
<1>7. ASSUME NEW c \in Call, Retry(c) PROVE IInv'
  BY <1>7 DEF Retry, Enter, Goto, Ok, chainVars, AttemptLeft, MinedStays, Earned,
     EffectKnown, NothingLeftBehind
<1>8. CASE Mine
  <2>1. mined \in Nonce /\ slot[mined] \in Call
    BY <1>8 DEF Mine
  <2>2. /\ AttemptLeft'
        /\ \A n \in Nonce : n < mined' <=> n < mined \/ n = mined
    BY <1>8, <2>1 DEF Mine, AttemptLeft, Nonce
  <2>3. CASE UNCHANGED <<good, effect>>
    <3>1. MinedStays' /\ Earned' /\ EffectKnown'
      BY <1>8, <2>1, <2>2, <2>3 DEF Mine, Ok, MinedStays, Earned, EffectKnown
    <3>2. NothingLeftBehind'
      BY <1>8, <2>1 DEF Mine, Ok, NothingLeftBehind, Nonce
    <3>. QED
      BY <2>2, <3>1, <3>2
  <2>4. CASE good' = good \cup {mined} /\ effect' = effect \cup {slot[mined]}
    <3>1. MinedStays'
      BY <1>8, <2>1, <2>2, <2>4 DEF Mine, MinedStays
    <3>2. Earned'
      BY <1>8, <2>1, <2>4 DEF Mine, Earned
    <3>3. EffectKnown'
      BY <1>8, <2>1, <2>4 DEF Mine, Ok, EffectKnown, NothingLeftBehind, Nonce
    <3>4. NothingLeftBehind'
      BY <1>8, <2>1 DEF Mine, Ok, NothingLeftBehind, Nonce
    <3>. QED
      BY <2>2, <3>1, <3>2, <3>3, <3>4
  <2>. QED
    BY <1>8, <2>3, <2>4 DEF Mine
<1>9. ASSUME NEW n \in Nonce, Evict(n) PROVE IInv'
  <2>1. faults' # 0
    BY <1>9 DEF Evict, Fault
  <2>2. \A k \in Nonce : k < mined => slot'[k] = slot[k]
    BY <1>9 DEF Evict, Holds, Nonce
  <2>. QED
    BY <1>9, <2>1, <2>2 DEF Evict, Holds, AttemptLeft, MinedStays, Earned,
       EffectKnown, NothingLeftBehind
<1>10. CASE UNCHANGED vars
  BY <1>10 DEF vars, AttemptLeft, MinedStays, Earned, EffectKnown, NothingLeftBehind
<1>. QED
  BY <1>1, <1>2, <1>3, <1>4, <1>5, <1>6, <1>7, <1>8, <1>9, <1>10 DEF Next, Step

LEMMA Invariant == Spec => [](TypeOK /\ IInv)
<1>. QED
  BY InitInv, TypeStep, InvStep, PTL DEF Spec

\* Every variable keeps its type, attempts stay within MaxRetry (EvmClient.ts 162).
THEOREM TypeCorrect == Spec => []TypeOK
<1>. QED
  BY Invariant, PTL

\* While nothing fails, no transaction of the wallet is in the mempool but those some
\* call waits for (EvmClient.ts 168-181).
THEOREM NothingIsLeftBehind == Spec => []NothingLeftBehind
<1>1. IInv => NothingLeftBehind
  BY DEF IInv
<1>. QED
  BY <1>1, Invariant, PTL

\* While nothing fails, sending a call again never makes it take effect twice
\* (EvmClient.ts 173-181).
THEOREM NoSecondEffect == Spec => []OneEffect
<1>1. ASSUME TypeOK, IInv PROVE OneEffect
  <2>. SUFFICES ASSUME faults = 0, NEW c \in Call
                PROVE Cardinality({n \in good : slot[n] = c}) <= 1
    BY DEF OneEffect
  <2>1. {n \in good : slot[n] = c} \subseteq {nonce[c]}
    BY <1>1 DEF IInv, EffectKnown
  <2>2. IsFiniteSet({nonce[c]}) /\ Cardinality({nonce[c]}) = 1
    BY FS_Singleton
  <2>3. Cardinality({n \in good : slot[n] = c}) <= Cardinality({nonce[c]})
    BY <2>1, <2>2, FS_Subset
  <2>. QED
    BY <2>2, <2>3
<1>. QED
  BY <1>1, Invariant, PTL

\* To its caller a call of EvmClient is one step of the chain, of which a fault, and
\* nothing else, can hide the effect or delay it until after the call has returned.
THEOREM Implements == Spec => ImplementsChainCall
<1>1. Init => Abstract!Init
  BY DEF Init, Abstract!Init, State
<1>2. TypeOK /\ IInv /\ [Next]_vars => [Abstract!Next]_<<State, effect, faults > 0>>
  <2>. DEFINE Lossy == faults > 0
  <2>. SUFFICES ASSUME TypeOK, IInv, [Next]_vars
                PROVE [Abstract!Next]_<<State, effect, Lossy>>
    OBVIOUS
  <2>. USE SubmitAssumption DEF TypeOK, Pcs
  <2>1. ASSUME NEW c \in Call, SubmitTx(c) PROVE Abstract!Begin(c)
    <3>1. ~(0 >= MaxRetry)
      OBVIOUS
    <3>2. pc' = [pc EXCEPT ![c] = "populate"]
      BY <2>1, <3>1 DEF SubmitTx, Enter, Goto
    <3>. QED
      BY <2>1, <3>2 DEF SubmitTx, Ok, chainVars, Abstract!Begin, State
  <2>2. ASSUME NEW c \in Call, Populate(c) \/ SendTransaction(c)
        PROVE UNCHANGED <<State, effect, Lossy>>
    BY <2>2 DEF Populate, SendTransaction, Goto, Ok, chainVars, State
  <2>8. ASSUME NEW c \in Call, SendFails(c) \/ WaitFails(c) PROVE Abstract!Disturb
    <3>1. UNCHANGED <<State, effect>>
      BY <2>8 DEF SendFails, WaitFails, Goto, chainVars, State
    <3>2. Lossy' = TRUE
      BY <2>8 DEF SendFails, WaitFails, Fault
    <3>. QED
      BY <3>1, <3>2 DEF Abstract!Disturb
  <2>3. ASSUME NEW c \in Call, Wait(c)
        PROVE Abstract!Succeed(c) \/ UNCHANGED <<State, effect, Lossy>>
    <3>1. CASE Receipt(c)
      <4>1. c \in effect
        BY <2>3, <3>1 DEF Receipt, IInv, MinedStays
      <4>. QED
        BY <2>3, <3>1, <4>1 DEF Wait, Goto, Ok, chainVars, Abstract!Succeed, State
    <3>2. CASE ~Receipt(c)
      BY <2>3, <3>2 DEF Wait, Goto, Ok, chainVars, State
    <3>. QED
      BY <3>1, <3>2
  <2>4. ASSUME NEW c \in Call, Retry(c)
        PROVE Abstract!Fail(c) \/ UNCHANGED <<State, effect, Lossy>>
    <3>1. CASE tries[c] + 1 >= MaxRetry
      <4>1. c \notin effect \/ Lossy
        <5>. SUFFICES ASSUME c \in effect, faults = 0 PROVE FALSE
          OBVIOUS
        <5>1. PICK n \in good : slot[n] = c
          BY DEF IInv, Earned
        <5>. QED
          BY <2>4, <5>1 DEF Retry, IInv, EffectKnown
      <4>. QED
        BY <2>4, <3>1, <4>1 DEF Retry, Enter, Goto, Ok, chainVars, Abstract!Fail, State
    <3>2. CASE ~(tries[c] + 1 >= MaxRetry)
      BY <2>4, <3>2 DEF Retry, Enter, Goto, Ok, chainVars, State
    <3>. QED
      BY <3>1, <3>2
  <2>5. CASE Mine
    <3>. DEFINE c == slot[mined]
    <3>1. mined \in Nonce /\ c \in Call /\ UNCHANGED <<State, Lossy>>
      BY <2>5 DEF Mine, Ok, State
    <3>2. CASE effect' = effect
      BY <3>1, <3>2
    <3>3. CASE effect' # effect
      <4>1. effect' = effect \cup {c} /\ c \notin effect
        BY <2>5, <3>3 DEF Mine
      <4>2. pc[c] \notin {"idle", "ok"}
        BY <3>1, <4>1 DEF IInv, Earned
      <4>3. pc[c] = "failed" => Lossy
        BY <2>5, <3>1 DEF Mine, IInv, NothingLeftBehind, Nonce
      <4>4. State[c] = "open" \/ (Lossy /\ State[c] = "failed")
        BY <3>1, <4>2, <4>3 DEF State
      <4>5. Abstract!TakeEffect(c)
        BY <3>1, <4>1, <4>4 DEF Abstract!TakeEffect
      <4>. QED
        BY <3>1, <4>5 DEF Abstract!Next
    <3>. QED
      BY <3>2, <3>3
  <2>6. ASSUME NEW n \in Nonce, Evict(n) PROVE Abstract!Disturb
    <3>1. UNCHANGED <<State, effect>> /\ Lossy' = TRUE
      BY <2>6 DEF Evict, Fault, State
    <3>. QED
      BY <3>1 DEF Abstract!Disturb
  <2>7. CASE UNCHANGED vars
    BY <2>7 DEF vars, State
  <2>. QED
    BY <2>1, <2>2, <2>3, <2>4, <2>5, <2>6, <2>7, <2>8 DEF Next, Step, Abstract!Next
<1>. QED
  BY <1>1, <1>2, Invariant, PTL DEF Spec, ImplementsChainCall, Abstract!Spec

-----------------------------------------------------------------------------
(* Why contention is the only way to fail: without faults each attempt given   *)
(* up has lost a nonce of its own to another call.                             *)

\* The nonces of a wallet are taken without gaps, and the count a call has read stays
\* at most one ahead of them.
NoGaps ==
  faults = 0 =>
    /\ \A n, k \in Nonce : k < n /\ slot[n] # None => slot[k] # None
    /\ \A c \in Call : pc[c] = "send" => \A k \in Nonce : k < nonce[c] => slot[k] # None

\* What was mined without effect is refused by the contract, or done already.
RevertExplained ==
  \A n \in Nonce : n < mined /\ n \notin good => slot[n] \in Refused \cup (Once \cap effect)

FailedAtLimit == \A c \in Call : pc[c] = "failed" => tries[c] >= MaxRetry

Chained == NoGaps /\ RevertExplained /\ FailedAtLimit

\* The nonces below this one are those the attempts given up were made with ...
Beyond(c) == IF pc[c] \in {"send", "wait"} THEN nonce[c] ELSE nonce[c] + 1
\* ... and this is their number.
GivenUp(c) == IF pc[c] = "sleep" THEN tries[c] + 1 ELSE tries[c]

LostSoFar(c) == {n \in Lost(c) : n < Beyond(c)}

EachAttemptLost ==
  faults = 0 => \A c \in Call \ Refused :
    pc[c] # "idle" => Cardinality(LostSoFar(c)) >= GivenUp(c)

\* A larger set of nonces has more of them.
LEMMA NonceCount ==
  ASSUME NEW S \in SUBSET Nonce, NEW T \in SUBSET Nonce, S \subseteq T
  PROVE  /\ Cardinality(S) \in Nat /\ Cardinality(T) \in Nat
         /\ Cardinality(S) <= Cardinality(T)
         /\ S # T => Cardinality(S) + 1 <= Cardinality(T)
<1>0. 0 \in Int /\ MaxNonce \in Int
  BY SubmitAssumption
<1>1. IsFiniteSet(Nonce)
  BY <1>0, FS_Interval DEF Nonce
<1>2. IsFiniteSet(S) /\ IsFiniteSet(T) /\ Cardinality(S) <= Cardinality(T)
  BY <1>1, FS_Subset
<1>3. Cardinality(S) \in Nat /\ Cardinality(T) \in Nat
  BY <1>2, FS_CardinalityType
<1>4. Cardinality(T) = Cardinality(S) => S = T
  BY <1>2, FS_Subset
<1>. QED
  BY <1>2, <1>3, <1>4

\* No step that is no fault leaves a gap, or mines in vain what has its effect to come.
LEMMA ChainedStep == TypeOK /\ IInv /\ Chained /\ [Next]_vars => Chained'
<1>. SUFFICES ASSUME TypeOK, IInv, Chained, [Next]_vars PROVE Chained'
  OBVIOUS
<1>. USE SubmitAssumption DEF TypeOK, Chained, FailedAtLimit
<1>0. Fault => faults' # 0
  BY DEF Fault
<1>1. ASSUME NEW c \in Call, SubmitTx(c) \/ Retry(c) PROVE Chained'
  BY <1>1 DEF SubmitTx, Retry, Enter, Goto, Ok, chainVars, NoGaps, RevertExplained
<1>2. ASSUME NEW c \in Call, Populate(c) PROVE Chained'
  <2>1. PICK n \in Nonce : IsPendingCount(n) /\ nonce' = [nonce EXCEPT ![c] = n]
    BY <1>2 DEF Populate
  <2>2. \A k \in Nonce : k < n => slot[k] # None
    BY <2>1 DEF IsPendingCount, IInv, MinedStays, Nonce
  <2>3. NoGaps'
    BY <1>2, <2>1, <2>2 DEF Populate, Goto, Ok, chainVars, NoGaps
  <2>. QED
    BY <1>2, <2>3 DEF Populate, Goto, chainVars, RevertExplained
<1>3. ASSUME NEW c \in Call, SendTransaction(c) PROVE Chained'
  <2>1. CASE Holds(c, nonce[c]) /\ Goto(c, "wait")
             /\ (slot[nonce[c]] = None \/ (slot[nonce[c]] # c /\ nonce[c] >= mined))
    <3>1. \A k \in Nonce : slot[k] # None => slot'[k] # None
      BY <2>1 DEF Holds
    <3>2. \A k \in Nonce : k < mined => slot'[k] = slot[k]
      BY <2>1 DEF Holds, IInv, MinedStays, Nonce
    <3>3. NoGaps'
      BY <1>3, <2>1, <3>1 DEF SendTransaction, Holds, Goto, Ok, NoGaps
    <3>4. RevertExplained'
      BY <1>3, <3>2 DEF SendTransaction, RevertExplained
    <3>. QED
      BY <1>3, <2>1, <3>3, <3>4 DEF SendTransaction, Goto
  <2>2. CASE Goto(c, "sleep") /\ UNCHANGED slot
    BY <1>3, <2>2 DEF SendTransaction, Goto, Ok, NoGaps, RevertExplained
  <2>. QED
    BY <1>3, <2>1, <2>2 DEF SendTransaction
<1>4. ASSUME NEW c \in Call, SendFails(c) PROVE Chained'
  <2>1. \A k \in Nonce : k < mined => slot'[k] = slot[k]
    BY <1>4 DEF SendFails, Holds, IInv, MinedStays
  <2>2. NoGaps' /\ RevertExplained'
    BY <1>0, <1>4, <2>1 DEF SendFails, NoGaps, RevertExplained
  <2>. QED
    BY <1>4, <2>2 DEF SendFails, Goto
<1>5. ASSUME NEW c \in Call, Wait(c) PROVE Chained'
  BY <1>5 DEF Wait, Goto, Ok, chainVars, NoGaps, RevertExplained
<1>6. ASSUME NEW c \in Call, WaitFails(c) PROVE Chained'
  BY <1>0, <1>6 DEF WaitFails, Goto, chainVars, NoGaps, RevertExplained
<1>7. CASE Mine
  <2>1. NoGaps'
    BY <1>7 DEF Mine, Ok, NoGaps
  <2>2. \A n \in Nonce : n < mined' <=> n < mined \/ n = mined
    BY <1>7 DEF Mine, Nonce
  <2>3. RevertExplained'
    BY <1>7, <2>2 DEF Mine, Reverts, RevertExplained
  <2>. QED
    BY <1>7, <2>1, <2>3 DEF Mine
<1>8. ASSUME NEW n \in Nonce, Evict(n) PROVE Chained'
  <2>1. \A k \in Nonce : k < mined => slot'[k] = slot[k]
    BY <1>8 DEF Evict, Holds, Nonce
  <2>. QED
    BY <1>0, <1>8, <2>1 DEF Evict, NoGaps, RevertExplained
<1>9. CASE UNCHANGED vars
  BY <1>9 DEF vars, NoGaps, RevertExplained
<1>. QED
  BY <1>1, <1>2, <1>3, <1>4, <1>5, <1>6, <1>7, <1>8, <1>9 DEF Next, Step

\* Without faults the transaction of a call that is not refused, at a nonce it holds,
\* is the one it waits for or has its receipt for.
LEMMA HeldIsAwaited ==
  ASSUME TypeOK, IInv, Chained, faults = 0, NEW c \in Call \ Refused,
         NEW n \in Nonce, slot[n] = c
  PROVE  /\ pc[c] \in {"wait", "ok"}
         /\ n < mined => nonce[c] \in good
<1>. USE SubmitAssumption DEF TypeOK, IInv
<1>1. CASE n >= mined
  BY <1>1 DEF NothingLeftBehind, Nonce
<1>2. CASE n \in good
  BY <1>2 DEF EffectKnown
<1>3. CASE n < mined /\ n \notin good
  <2>1. c \in effect
    BY <1>3 DEF Chained, RevertExplained
  <2>2. PICK g \in good : slot[g] = c
    BY <2>1 DEF Earned
  <2>. QED
    BY <2>2 DEF EffectKnown
<1>. QED
  BY <1>1, <1>2, <1>3 DEF Nonce

\* An attempt is given up only with its nonce lost, and a nonce once lost stays so.
LEMMA LostStep ==
  TypeOK /\ IInv /\ Chained /\ EachAttemptLost /\ [Next]_vars => EachAttemptLost'
<1>. SUFFICES ASSUME TypeOK, IInv, Chained, EachAttemptLost, [Next]_vars, faults' = 0,
                     NEW c \in Call \ Refused, pc'[c] # "idle"
              PROVE  Cardinality(LostSoFar(c)') >= GivenUp(c)'
  BY DEF EachAttemptLost, LostSoFar, Lost, Beyond, GivenUp
<1>. USE SubmitAssumption DEF TypeOK
<1>0. Fault => faults' # 0
  BY DEF Fault
<1>1. /\ LostSoFar(c) \in SUBSET Nonce /\ LostSoFar(c)' \in SUBSET Nonce
      /\ GivenUp(c) \in Nat
  BY DEF LostSoFar, Lost, GivenUp
<1>2. ASSUME faults = 0, pc[c] # "idle", LostSoFar(c) \subseteq LostSoFar(c)',
             GivenUp(c)' = GivenUp(c)
      PROVE  Cardinality(LostSoFar(c)') >= GivenUp(c)'
  <2>1. Cardinality(LostSoFar(c)) >= GivenUp(c)
    BY <1>2 DEF EachAttemptLost
  <2>. QED
    BY <1>1, <1>2, <2>1, NonceCount
<1>3. ASSUME NEW d \in Call, SubmitTx(d) PROVE Cardinality(LostSoFar(c)') >= GivenUp(c)'
  <2>1. CASE d = c
    <3>1. GivenUp(c)' = 0
      BY <1>3, <2>1 DEF SubmitTx, Enter, Goto, GivenUp
    <3>. QED
      BY <1>1, <3>1, NonceCount
  <2>2. CASE d # c
    BY <1>2, <1>3, <2>2
       DEF SubmitTx, Enter, Goto, Ok, chainVars, LostSoFar, Lost, Beyond, GivenUp
  <2>. QED
    BY <2>1, <2>2
<1>4. ASSUME NEW d \in Call, Populate(d) PROVE Cardinality(LostSoFar(c)') >= GivenUp(c)'
  <2>1. CASE d = c
    <3>1. PICK n \in Nonce : IsPendingCount(n) /\ nonce' = [nonce EXCEPT ![c] = n]
      BY <1>4, <2>1 DEF Populate
    <3>2. \A k \in Lost(c) : k < n
      BY <1>4, <3>1 DEF Populate, Ok, IsPendingCount, Chained, NoGaps, Lost, Nonce
    <3>3. LostSoFar(c) \subseteq LostSoFar(c)'
      BY <1>4, <2>1, <3>1, <3>2 DEF Populate, Goto, chainVars, LostSoFar, Lost, Beyond
    <3>. QED
      BY <1>2, <1>4, <2>1, <3>3 DEF Populate, Goto, Ok, GivenUp
  <2>2. CASE d # c
    BY <1>2, <1>4, <2>2 DEF Populate, Goto, Ok, chainVars, LostSoFar, Lost, Beyond, GivenUp
  <2>. QED
    BY <2>1, <2>2
<1>5. ASSUME faults = 0, pc[c] \in {"send", "wait"}, pc'[c] = "sleep",
             UNCHANGED <<slot, nonce, tries>>, slot[nonce[c]] \notin {None, c}
      PROVE  Cardinality(LostSoFar(c)') >= GivenUp(c)'
  <2>1. LostSoFar(c) \subseteq LostSoFar(c)' /\ nonce[c] \in LostSoFar(c)' \ LostSoFar(c)
    BY <1>5 DEF LostSoFar, Lost, Beyond, Nonce
  <2>2. Cardinality(LostSoFar(c)) >= GivenUp(c) /\ GivenUp(c)' = GivenUp(c) + 1
    BY <1>5 DEF EachAttemptLost, GivenUp
  <2>3. /\ Cardinality(LostSoFar(c)) \in Nat /\ Cardinality(LostSoFar(c)') \in Nat
        /\ Cardinality(LostSoFar(c)) + 1 <= Cardinality(LostSoFar(c)')
    BY <1>1, <2>1, NonceCount
  <2>. QED
    BY <1>1, <2>2, <2>3
<1>6. ASSUME NEW d \in Call, SendTransaction(d)
      PROVE  Cardinality(LostSoFar(c)') >= GivenUp(c)'
  <2>0. faults = 0
    BY <1>6 DEF SendTransaction, Ok
  <2>1. CASE Holds(d, nonce[d]) /\ Goto(d, "wait")
    <3>1. d # None
      OBVIOUS
    <3>2. \A n \in Lost(c) : n < Beyond(c) => slot'[n] \notin {None, c}
      BY <1>6, <2>1, <3>1 DEF SendTransaction, Holds, Lost, Beyond, Nonce
    <3>3. Beyond(c)' = Beyond(c)
      BY <1>6, <2>1 DEF SendTransaction, Goto, Beyond
    <3>4. LostSoFar(c) \subseteq LostSoFar(c)'
      BY <3>2, <3>3 DEF LostSoFar, Lost
    <3>. QED
      BY <1>2, <1>6, <2>0, <2>1, <3>4 DEF SendTransaction, Goto, GivenUp
  <2>2. CASE d = c /\ Goto(d, "sleep") /\ UNCHANGED slot /\ slot[nonce[d]] # None
    <3>1. slot[nonce[c]] # c
      BY <1>6, <2>0, <2>2, HeldIsAwaited DEF SendTransaction
    <3>. QED
      BY <1>5, <1>6, <2>0, <2>2, <3>1 DEF SendTransaction, Goto
  <2>3. CASE d # c /\ Goto(d, "sleep") /\ UNCHANGED slot
    BY <1>2, <1>6, <2>0, <2>3 DEF SendTransaction, Goto, LostSoFar, Lost, Beyond, GivenUp
  <2>. QED
    BY <1>6, <2>1, <2>2, <2>3 DEF SendTransaction
<1>7. ASSUME NEW d \in Call, Wait(d) PROVE Cardinality(LostSoFar(c)') >= GivenUp(c)'
  <2>0. faults = 0
    BY <1>7 DEF Wait, Ok
  <2>1. CASE d = c /\ ~Receipt(c)
    <3>1. slot[nonce[c]] # None
      BY <1>7, <2>1 DEF Wait, IInv, MinedStays
    <3>2. slot[nonce[c]] # c
      BY <1>7, <2>0, <2>1, HeldIsAwaited DEF Wait, Receipt
    <3>. QED
      BY <1>5, <1>7, <2>0, <2>1, <3>1, <3>2 DEF Wait, Goto, chainVars
  <2>2. CASE d # c \/ Receipt(c)
    <3>1. LostSoFar(c) \subseteq LostSoFar(c)'
      BY <1>7, <2>2 DEF Wait, Goto, chainVars, LostSoFar, Lost, Beyond, Nonce
    <3>. QED
      BY <1>2, <1>7, <2>0, <2>2, <3>1 DEF Wait, Goto, GivenUp
  <2>. QED
    BY <2>1, <2>2
<1>8. ASSUME NEW d \in Call, Retry(d) PROVE Cardinality(LostSoFar(c)') >= GivenUp(c)'
  <2>1. LostSoFar(c) \subseteq LostSoFar(c)'
    BY <1>8 DEF Retry, Enter, Goto, chainVars, LostSoFar, Lost, Beyond
  <2>. QED
    BY <1>2, <1>8, <2>1 DEF Retry, Enter, Goto, Ok, GivenUp
<1>9. ASSUME NEW d \in Call, SendFails(d) \/ WaitFails(d) PROVE FALSE
  BY <1>0, <1>9 DEF SendFails, WaitFails
<1>10. ASSUME NEW n \in Nonce, Evict(n) PROVE FALSE
  BY <1>0, <1>10 DEF Evict
<1>11. CASE Mine
  BY <1>2, <1>11 DEF Mine, Ok, LostSoFar, Lost, Beyond, GivenUp
<1>12. CASE UNCHANGED vars
  BY <1>2, <1>12 DEF vars, LostSoFar, Lost, Beyond, GivenUp
<1>. QED
  BY <1>3, <1>4, <1>6, <1>7, <1>8, <1>9, <1>10, <1>11, <1>12 DEF Next, Step

\* While nothing fails a call that the contract does not refuse fails only by losing
\* MaxRetry different nonces to other calls of the wallet (EvmClient.ts 162-181).
THEOREM ContentionOnly == Spec => []OnlyContentionFails
<1>1. Init => Chained /\ EachAttemptLost
  BY DEF Init, Chained, NoGaps, RevertExplained, FailedAtLimit, EachAttemptLost, Nonce
<1>2. TypeOK /\ Chained /\ EachAttemptLost => OnlyContentionFails
  <2>. SUFFICES ASSUME TypeOK, Chained, EachAttemptLost, faults = 0,
                       NEW c \in Call \ Refused, pc[c] = "failed"
                PROVE  Cardinality(Lost(c)) >= MaxRetry
    BY DEF OnlyContentionFails
  <2>1. Cardinality(LostSoFar(c)) >= MaxRetry
    <3>1. tries[c] >= MaxRetry /\ Cardinality(LostSoFar(c)) >= tries[c]
      BY DEF Chained, FailedAtLimit, EachAttemptLost, GivenUp
    <3>2. Cardinality(LostSoFar(c)) \in Nat
      BY NonceCount DEF LostSoFar, Lost
    <3>. QED
      BY <3>1, <3>2, SubmitAssumption DEF TypeOK
  <2>2. /\ Cardinality(LostSoFar(c)) \in Nat /\ Cardinality(Lost(c)) \in Nat
        /\ Cardinality(LostSoFar(c)) <= Cardinality(Lost(c))
    <3>1. LostSoFar(c) \in SUBSET Nonce /\ Lost(c) \in SUBSET Nonce
          /\ LostSoFar(c) \subseteq Lost(c)
      BY DEF LostSoFar, Lost
    <3>. QED
      BY <3>1, NonceCount
  <2>. QED
    BY <2>1, <2>2, SubmitAssumption
<1>. QED
  BY <1>1, <1>2, ChainedStep, LostStep, Invariant, PTL DEF Spec

=============================================================================
