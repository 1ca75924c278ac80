-------------------------- MODULE BtcIngressProofs --------------------------
(***************************************************************************)
(* BtcIngress for any queue, any assignment of transactions and payloads    *)
(* and any number of crashes: its invariants, and that it implements        *)
(* Settlement.                                                              *)
(***************************************************************************)
EXTENDS BtcIngress, TLAPS

\* Every variable keeps its type.
THEOREM TypeCorrect == Spec => []TypeOK
<1>. USE IngressAssumption DEF TypeOK, Places, Pcs
<1>1. Init => TypeOK
  BY DEF Init
<1>2. TypeOK /\ [Next]_vars => TypeOK'
  <2>. SUFFICES ASSUME TypeOK, [Next]_vars PROVE TypeOK'
    OBVIOUS
  <2>. USE DEF Ok, Fault, Settle, coreVars
  <2>1. ASSUME NEW m \in Msg, HandleMessage(m) PROVE TypeOK'
    BY <2>1 DEF HandleMessage, Parses
  <2>2. ASSUME NEW m \in Msg, Connect(m) PROVE TypeOK'
    BY <2>2 DEF Connect
  <2>3. ASSUME NEW m \in Msg, CreateBtcCallContractEvent(m) PROVE TypeOK'
    BY <2>3 DEF CreateBtcCallContractEvent
  <2>4. ASSUME NEW m \in Msg, ConfirmEvmTx(m) PROVE TypeOK'
    BY <2>4 DEF ConfirmEvmTx
  <2>5. ASSUME NEW m \in Msg, AckAnswered(m) PROVE TypeOK'
    BY <2>5 DEF AckAnswered
  <2>6. ASSUME NEW m \in Msg, HandlerFails(m) PROVE TypeOK'
    BY <2>6 DEF HandlerFails
  <2>7. ASSUME NEW m \in Msg, Disconnect(m) PROVE TypeOK'
    BY <2>7 DEF Disconnect
  <2>8. ASSUME NEW k \in Key, CoreConfirms(k) \/ CoreRefuses(k) PROVE TypeOK'
    BY <2>8 DEF CoreConfirms, CoreRefuses, Unanswered
  <2>9. CASE Crash
    BY <2>9 DEF Crash
  <2>10. CASE UNCHANGED vars
    BY <2>10 DEF vars
  <2>. QED
    BY <2>1, <2>2, <2>3, <2>4, <2>5, <2>6, <2>7, <2>8, <2>9, <2>10 DEF Next, Handler
<1>. QED
  BY <1>1, <1>2, PTL DEF Spec

-----------------------------------------------------------------------------
(* The inductive invariant.  The unique row is what makes redelivery harmless: *)
(* a handler reaches its confirm request only through a row of its own, no two  *)
(* rows share a transaction, and each transaction asked about is that of a row  *)
(* whose handler is past the request.                                          *)

Working  == {"connect", "create", "confirm", "answer"}

WorksOnUnacked ==
  \A m \in Msg : pc[m] \in Working => place[m] = "unacked" /\ m \notin TooHigh
RowBeforeConfirm ==
  \A m \in Msg : pc[m] \in {"confirm", "answer"} => m \in rows
AskedBeforeAnswer ==
  \A m \in Msg : pc[m] = "answer" => asked[KeyOf[m]] > 0
RowsDistinct ==
  \A r, m \in rows : KeyOf[r] = KeyOf[m] => r = m
AskedHasRow ==
  \A k \in Key : asked[k] > 0 => \E r \in rows : KeyOf[r] = k /\ pc[r] # "confirm"
AnsweredWasAsked == \A k \in confirmed \cup refused : asked[k] > 0

IngressInv ==
  /\ WorksOnUnacked
  /\ RowBeforeConfirm
  /\ AskedBeforeAnswer
  /\ RowsDistinct
  /\ AskedHasRow
  /\ AnsweredWasAsked
  /\ AckedIsDone

\* At the start nothing is asked, recorded or settled.
LEMMA IngressInvInit == Init => IngressInv
  BY DEF Init, IngressInv, WorksOnUnacked, RowBeforeConfirm, AskedBeforeAnswer,
         RowsDistinct, AskedHasRow, AnsweredWasAsked, AckedIsDone, Answered, Working

\* Every step of the consumer, the broker and the core keeps the invariant.
LEMMA IngressInvNext == TypeOK /\ IngressInv /\ [Next]_vars => IngressInv'
<1>. SUFFICES ASSUME TypeOK, IngressInv, [Next]_vars PROVE IngressInv'
  OBVIOUS
<1>. USE IngressAssumption
     DEF TypeOK, Ok, Settle, Working, IngressInv, WorksOnUnacked, RowBeforeConfirm,
         AskedBeforeAnswer, RowsDistinct, AskedHasRow, AnsweredWasAsked, AckedIsDone,
         Answered, coreVars
<1>1. ASSUME NEW m \in Msg, HandleMessage(m) PROVE IngressInv'
  BY <1>1 DEF HandleMessage, Parses
<1>2. ASSUME NEW m \in Msg, Connect(m) PROVE IngressInv'
  BY <1>2 DEF Connect
<1>3. ASSUME NEW m \in Msg, CreateBtcCallContractEvent(m) PROVE IngressInv'
  <2>1. CASE ~Creatable(m)
    BY <1>3, <2>1 DEF CreateBtcCallContractEvent
  <2>2. CASE Creatable(m)
    <3>1. m \notin rows
      BY <2>2 DEF Creatable, Clashes
    <3>2. /\ rows' = rows \cup {m}
          /\ pc' = [pc EXCEPT ![m] = "confirm"]
          /\ UNCHANGED <<place, asked, confirmed, refused>>
      BY <1>3, <2>2 DEF CreateBtcCallContractEvent
    <3>3. RowsDistinct'
      BY <2>2, <3>2 DEF Creatable, Clashes
    <3>4. AskedHasRow'
      BY <3>1, <3>2
    <3>5. WorksOnUnacked' /\ RowBeforeConfirm' /\ AskedBeforeAnswer'
      BY <1>3, <3>2 DEF CreateBtcCallContractEvent
    <3>. QED
      BY <3>2, <3>3, <3>4, <3>5
  <2>. QED
    BY <2>1, <2>2
<1>4. ASSUME NEW m \in Msg, ConfirmEvmTx(m) PROVE IngressInv'
  BY <1>4 DEF ConfirmEvmTx
<1>5. ASSUME NEW m \in Msg, AckAnswered(m) PROVE IngressInv'
  BY <1>5 DEF AckAnswered
<1>6. ASSUME NEW m \in Msg, HandlerFails(m) PROVE IngressInv'
  <2>1. CASE UNCHANGED rows
    BY <1>6, <2>1 DEF HandlerFails
  <2>2. CASE pc[m] = "create" /\ Creatable(m) /\ rows' = rows \cup {m}
    <3>1. m \notin rows /\ RowsDistinct'
      BY <2>2 DEF Creatable, Clashes
    <3>2. AskedHasRow'
      BY <1>6, <2>2, <3>1 DEF HandlerFails
    <3>3. WorksOnUnacked' /\ RowBeforeConfirm' /\ AskedBeforeAnswer' /\ AckedIsDone'
      BY <1>6, <2>2 DEF HandlerFails
    <3>. QED
      BY <1>6, <3>1, <3>2, <3>3 DEF HandlerFails
  <2>. QED
    BY <1>6, <2>1, <2>2 DEF HandlerFails
<1>7. ASSUME NEW m \in Msg, Disconnect(m) PROVE IngressInv'
  BY <1>7 DEF Disconnect
<1>8. ASSUME NEW k \in Key, CoreConfirms(k) \/ CoreRefuses(k) PROVE IngressInv'
  BY <1>8 DEF CoreConfirms, CoreRefuses, Unanswered
<1>9. CASE Crash
  BY <1>9 DEF Crash
<1>10. CASE UNCHANGED vars
  BY <1>10 DEF vars
<1>. QED
  BY <1>1, <1>2, <1>3, <1>4, <1>5, <1>6, <1>7, <1>8, <1>9, <1>10 DEF Next, Handler

\* The ingress invariant holds of every behaviour.
LEMMA IngressInvariant == Spec => []IngressInv
  BY IngressInvInit, IngressInvNext, TypeCorrect, PTL DEF Spec

\* An acknowledged message has its row and the core's answer, whichever it was, however
\* often the process died and the broker redelivered.
THEOREM AckIsSafe == Spec => []AckedIsDone
<1>1. IngressInv => AckedIsDone
  BY DEF IngressInv
<1>. QED
  BY <1>1, IngressInvariant, PTL

\* The core has confirmed only transactions that have a row.
THEOREM RecordedFirst == Spec => []ConfirmedIsRecorded
<1>1. TypeOK /\ IngressInv => ConfirmedIsRecorded
  BY DEF TypeOK, IngressInv, AskedHasRow, AnsweredWasAsked, ConfirmedIsRecorded
<1>. QED
  BY <1>1, TypeCorrect, IngressInvariant, PTL

-----------------------------------------------------------------------------
(* Without a failure a row belongs to a message that is still confirmed or was *)
(* acknowledged: so what is dead-lettered or redelivered has none.             *)

RowsAreKept ==
  faults = 0 => \A m \in rows : pc[m] \in {"confirm", "answer"} \/ place[m] = "acked"

\* Every step that is no failure leaves each row with its message.
LEMMA DeadStep ==
  TypeOK /\ IngressInv /\ RowsAreKept /\ DeadIsExplained /\ [Next]_vars
    => (RowsAreKept /\ DeadIsExplained)'
<1>. SUFFICES ASSUME TypeOK, IngressInv, RowsAreKept, DeadIsExplained, [Next]_vars,
                     faults' = 0
              PROVE  (RowsAreKept /\ DeadIsExplained)'
  BY DEF RowsAreKept, DeadIsExplained
<1>0. Fault => faults' # 0
  BY IngressAssumption DEF TypeOK, Fault
<1>. USE IngressAssumption
     DEF TypeOK, Ok, Settle, IngressInv, WorksOnUnacked, Working, RowsAreKept,
         DeadIsExplained, coreVars
<1>1. ASSUME NEW m \in Msg, HandleMessage(m) PROVE (RowsAreKept /\ DeadIsExplained)'
  <2>1. faults = 0 /\ m \notin rows
    BY <1>1 DEF HandleMessage
  <2>. QED
    BY <1>1, <2>1 DEF HandleMessage, Parses
<1>2. ASSUME NEW m \in Msg, Connect(m) PROVE (RowsAreKept /\ DeadIsExplained)'
  BY <1>2 DEF Connect
<1>3. ASSUME NEW m \in Msg, CreateBtcCallContractEvent(m)
      PROVE  (RowsAreKept /\ DeadIsExplained)'
  <2>1. faults = 0 /\ place[m] = "unacked" /\ m \notin rows
    BY <1>3 DEF CreateBtcCallContractEvent
  <2>2. CASE Creatable(m)
    BY <1>3, <2>1, <2>2 DEF CreateBtcCallContractEvent
  <2>3. CASE ~Creatable(m)
    BY <1>3, <2>1, <2>3 DEF CreateBtcCallContractEvent, Creatable
  <2>. QED
    BY <2>2, <2>3
<1>4. ASSUME NEW m \in Msg, ConfirmEvmTx(m) PROVE (RowsAreKept /\ DeadIsExplained)'
  BY <1>4 DEF ConfirmEvmTx
<1>5. ASSUME NEW m \in Msg, AckAnswered(m) PROVE (RowsAreKept /\ DeadIsExplained)'
  BY <1>5 DEF AckAnswered
<1>6. ASSUME NEW m \in Msg, HandlerFails(m) PROVE FALSE
  BY <1>0, <1>6 DEF HandlerFails
<1>7. ASSUME NEW m \in Msg, Disconnect(m) PROVE (RowsAreKept /\ DeadIsExplained)'
  BY <1>7 DEF Disconnect
<1>8. ASSUME NEW k \in Key, CoreConfirms(k) \/ CoreRefuses(k) PROVE (RowsAreKept /\ DeadIsExplained)'
  BY <1>8 DEF CoreConfirms, CoreRefuses, Unanswered
<1>9. ASSUME Crash PROVE FALSE
  BY <1>0, <1>9 DEF Crash
<1>10. CASE UNCHANGED vars
  BY <1>10 DEF vars
<1>. QED
  BY <1>1, <1>2, <1>3, <1>4, <1>5, <1>6, <1>7, <1>8, <1>9, <1>10 DEF Next, Handler

\* While nothing fails the consumer dead-letters only what it cannot record, and
\* leaves no row behind (rabbitmq.ts 119-154).
THEOREM DeadLetters == Spec => []DeadIsExplained
<1>1. Init => RowsAreKept /\ DeadIsExplained
  BY DEF Init, RowsAreKept, DeadIsExplained
<1>. QED
  BY <1>1, DeadStep, TypeCorrect, IngressInvariant, PTL DEF Spec

-----------------------------------------------------------------------------
(* Refinement: the fate of a message is where the broker holds it.             *)

\* The consumer implements Settlement: at most one settlement of a message, at
\* most one request about a transaction.
THEOREM Implements == Spec => ImplementsSettlement
<1>. USE DEF Fate
<1>1. Init => Abstract!Init
  BY DEF Init, Abstract!Init
<1>2. TypeOK /\ IngressInv /\ [Next]_vars => [Abstract!Next]_<<Fate, asked>>
  <2>. SUFFICES ASSUME TypeOK, IngressInv, [Next]_vars
                PROVE  Abstract!Next \/ UNCHANGED <<Fate, asked>>
    OBVIOUS
  <2>. USE IngressAssumption DEF TypeOK, Places, Settle, IngressInv, WorksOnUnacked,
       Working
  <2>1. ASSUME NEW m \in Msg, HandleMessage(m)
        PROVE  Abstract!Finish(m) \/ Abstract!Drop(m) \/ UNCHANGED <<Fate, asked>>
    <3>1. CASE m \in TooHigh
      BY <2>1, <3>1 DEF HandleMessage, Parses, Abstract!Finish
    <3>2. CASE m \notin TooHigh /\ ~Parses(m)
      BY <2>1, <3>2 DEF HandleMessage, Parses, Abstract!Drop
    <3>3. CASE m \notin TooHigh /\ Parses(m)
      BY <2>1, <3>3 DEF HandleMessage, Parses
    <3>. QED
      BY <3>1, <3>2, <3>3
  <2>2. ASSUME NEW m \in Msg, Connect(m) PROVE UNCHANGED <<Fate, asked>>
    BY <2>2 DEF Connect
  <2>3. ASSUME NEW m \in Msg, CreateBtcCallContractEvent(m)
        PROVE  Abstract!Drop(m) \/ UNCHANGED <<Fate, asked>>
    BY <2>3 DEF CreateBtcCallContractEvent, Abstract!Drop
  <2>4. ASSUME NEW m \in Msg, ConfirmEvmTx(m) PROVE Abstract!Ask(KeyOf[m])
    <3>1. KeyOf[m] \in Key /\ m \in rows /\ pc[m] = "confirm"
      BY <2>4 DEF ConfirmEvmTx, RowBeforeConfirm
    <3>2. asked[KeyOf[m]] = 0
      BY <3>1 DEF RowsDistinct, AskedHasRow
    <3>. QED
      BY <2>4, <3>1, <3>2 DEF ConfirmEvmTx, Abstract!Ask
  <2>5. ASSUME NEW m \in Msg, AckAnswered(m) PROVE Abstract!Finish(m)
    BY <2>5 DEF AckAnswered, Answered, Abstract!Finish, AnsweredWasAsked
  <2>6. ASSUME NEW m \in Msg, HandlerFails(m) PROVE Abstract!Drop(m)
    BY <2>6 DEF HandlerFails, Abstract!Drop
  <2>7. ASSUME NEW m \in Msg, Disconnect(m) PROVE UNCHANGED <<Fate, asked>>
    BY <2>7 DEF Disconnect
  <2>8. ASSUME NEW k \in Key, CoreConfirms(k) \/ CoreRefuses(k) PROVE UNCHANGED <<Fate, asked>>
    BY <2>8 DEF CoreConfirms, CoreRefuses, Unanswered
  <2>9. CASE Crash
    BY <2>9 DEF Crash
  <2>10. CASE UNCHANGED vars
    BY <2>10 DEF vars
  <2>. QED
    BY <2>1, <2>2, <2>3, <2>4, <2>5, <2>6, <2>7, <2>8, <2>9, <2>10
       DEF Next, Handler, Abstract!Next
<1>. QED
  BY <1>1, <1>2, TypeCorrect, IngressInvariant, PTL DEF Spec, ImplementsSettlement,
     Abstract!Spec

=============================================================================
