-------------------------- MODULE BtcExecuteProofs --------------------------
(***************************************************************************)
(* The burning transactions of BtcExecute and the rows they are recorded    *)
(* in, for every set of withdrawals and of other commands, any batches the  *)
(* core makes of them and any number of faults.                             *)
(***************************************************************************)
EXTENDS BtcExecute, TLAPS

\* A handler about to broadcast has a transaction.
Chosen == \A m \in Msg : pc[m] = "broadcast" => tx[m] \in Psbt

\* Every variable keeps its type.
THEOREM TypeCorrect == Spec => []TypeOK
<1>. USE BtcAssumption DEF TypeOK, Chosen, Cmd, CoreState, Pcs, dbVars
<1>1. Init => TypeOK /\ Chosen
  BY DEF Init, Recordable
<1>2. TypeOK /\ Chosen /\ [Next]_vars => (TypeOK /\ Chosen)'
  <2>. SUFFICES ASSUME TypeOK, Chosen, [Next]_vars PROVE (TypeOK /\ Chosen)'
    OBVIOUS
  <2>1. ASSUME NEW m \in Msg, CoreApproves(m) PROVE (TypeOK /\ Chosen)'
    BY <2>1 DEF CoreApproves, Ok, Fault
  <2>2. ASSUME NEW m \in Msg, ParseContractCallApproved(m) PROVE (TypeOK /\ Chosen)'
    BY <2>2 DEF ParseContractCallApproved, Goto, Ok
  <2>3. ASSUME NEW m \in Msg, GetPendingCommands(m) PROVE (TypeOK /\ Chosen)'
    BY <2>3 DEF GetPendingCommands, Goto, Ok
  <2>4. ASSUME NEW m \in Msg, SignCommands(m) PROVE (TypeOK /\ Chosen)'
    BY <2>4 DEF SignCommands, Goto, Ok, Pending, Batched
  <2>5. ASSUME NEW m \in Msg, SignFails(m) PROVE (TypeOK /\ Chosen)'
    BY <2>5 DEF SignFails, Goto, Ok, Fault, Pending, Batched
  <2>6. ASSUME NEW m \in Msg, GetExecuteData(m) PROVE (TypeOK /\ Chosen)'
    BY <2>6 DEF GetExecuteData, Goto, Ok
  <2>7. ASSUME NEW m \in Msg, GetBurningTx(m) PROVE (TypeOK /\ Chosen)'
    BY <2>7 DEF GetBurningTx, Goto, Ok
  <2>8. ASSUME NEW m \in Msg, SubmitSignedTx(m) PROVE (TypeOK /\ Chosen)'
    BY <2>8 DEF SubmitSignedTx, Goto, Ok
  <2>9. ASSUME NEW m \in Msg, BroadcastFails(m) PROVE (TypeOK /\ Chosen)'
    BY <2>9 DEF BroadcastFails, Goto, Fault
  <2>10. ASSUME NEW m \in Msg, GetTransaction(m) \/ GetMempoolTx(m)
         PROVE  (TypeOK /\ Chosen)'
    BY <2>10 DEF GetTransaction, GetMempoolTx, Goto, Ok
  <2>11. ASSUME NEW m \in Msg, HandleMultipleEvmToBtcEventsTx(m)
         PROVE  (TypeOK /\ Chosen)'
    BY <2>11 DEF HandleMultipleEvmToBtcEventsTx, Record, Goto, Ok
  <2>12. ASSUME NEW m \in Msg, HandlerFails(m) PROVE (TypeOK /\ Chosen)'
    BY <2>12 DEF HandlerFails, Goto, Fault
  <2>13. ASSUME NEW c \in OtherCmd, CoreQueuesOther(c) PROVE (TypeOK /\ Chosen)'
    BY <2>13 DEF CoreQueuesOther, Ok
  <2>16. ASSUME NEW t \in Psbt, Mine(t) PROVE (TypeOK /\ Chosen)'
    BY <2>16 DEF Mine, Ok
  <2>14. CASE Crash
    BY <2>14 DEF Crash, Fault
  <2>15. CASE UNCHANGED vars
    BY <2>15 DEF vars
  <2>. QED
    BY <2>1, <2>2, <2>3, <2>4, <2>5, <2>6, <2>7, <2>8, <2>9, <2>10, <2>11,
       <2>12, <2>13, <2>14, <2>15, <2>16 DEF Next, Step, Fails
<1>. QED
  BY <1>1, <1>2, PTL DEF Spec

-----------------------------------------------------------------------------
(* The inductive invariant.  The core batches a command once, so the batches of  *)
(* different handlers are disjoint; a handler sends a transaction that a         *)
(* withdrawal of its own batch carries; a mark copies the transaction its        *)
(* handler holds; and a handler that holds one has a row, not yet marked, to put *)
(* it in.                                                                        *)

Awaiting(m) == pc[m] \in {"receipt", "mempool", "record"}
Sent(m) == Awaiting(m) \/ m \in logged

AnnouncedFirst ==
  \A m \in Msg : core[m] = "none" => pc[m] = "none"
RunsRecorded ==
  \A m \in Msg : pc[m] \in {"query", "sign", "poll", "execute", "broadcast"} \/ Awaiting(m) =>
    m \in recorded /\ m \notin logged
SentIsBurn ==
  \A m \in Msg : Sent(m) => tx[m] \in bitcoin
BatchesDisjoint ==
  /\ \A m \in Msg : \A c \in batch[m] : core[c] = "batched"
  /\ \A m, r \in Msg : m # r => batch[m] \cap batch[r] = {}
FromOwnBatch ==
  \A m \in Msg : pc[m] = "broadcast" \/ Sent(m) =>
    \E c \in batch[m] \cap Msg : tx[m] = PsbtOf[c]
MarkIsTx ==
  /\ Marked = logged
  /\ \A m \in logged : pc[m] = "done" /\ executeHash[m] = tx[m]
BurnHeld ==
  faults = 0 => \A t \in bitcoin : \E m \in Msg : tx[m] = t /\ Sent(m)

BurnInv ==
  /\ AnnouncedFirst
  /\ RunsRecorded
  /\ SentIsBurn
  /\ BatchesDisjoint
  /\ FromOwnBatch
  /\ MarkIsTx
  /\ BurnHeld

\* Batches stay apart, and what a handler sends and records comes from its own: the
\* inductive invariant holds of every behaviour.
LEMMA BurnInvariant == Spec => []BurnInv
<1>. USE BtcAssumption
     DEF TypeOK, BurnInv, AnnouncedFirst, RunsRecorded, SentIsBurn, BatchesDisjoint,
         FromOwnBatch, MarkIsTx, BurnHeld, Awaiting, Sent, Marked, Cmd, dbVars
<1>1. Init => BurnInv
  BY DEF Init
<1>2. TypeOK /\ BurnInv /\ [Next]_vars => BurnInv'
  <2>. SUFFICES ASSUME TypeOK, BurnInv, [Next]_vars PROVE BurnInv'
    OBVIOUS
  <2>1. ASSUME NEW m \in Msg, CoreApproves(m) PROVE BurnInv'
    <3>1. PICK block \in SUBSET {r \in Msg : core[r] = "none"}, read \in SUBSET {m} :
            /\ m \in block
            /\ core' = [c \in Cmd |-> IF c \in block THEN "pending" ELSE core[c]]
            /\ pc' = [r \in Msg |-> IF r \in read THEN "parse"
                                    ELSE IF r \in block THEN "dead" ELSE pc[r]]
            /\ IF read = {m} THEN Ok ELSE Fault
            /\ UNCHANGED <<dbVars, batch, tx, bitcoin>>
      BY <2>1 DEF CoreApproves
    <3>2. \A r \in block : pc[r] = "none" /\ ~Sent(r) /\ r \notin logged
      BY <3>1
    <3>3. \A r \in block : pc'[r] \in {"parse", "dead"}
      BY <3>1
    <3>4. \A r \in Msg \ block : pc'[r] = pc[r]
      BY <3>1
    <3>5. \A r \in Msg : Sent(r)' <=> Sent(r)
      BY <3>1, <3>2, <3>3, <3>4
    <3>6. AnnouncedFirst' /\ RunsRecorded' /\ MarkIsTx'
      BY <3>1, <3>2, <3>3, <3>4
    <3>7. BurnHeld'
      BY <3>1, <3>5 DEF Ok, Fault
    <3>8. BatchesDisjoint'
      BY <3>1
    <3>9. FromOwnBatch'
      BY <3>1, <3>3, <3>4, <3>5
    <3>. QED
      BY <3>1, <3>5, <3>6, <3>7, <3>8, <3>9
  <2>2. ASSUME NEW m \in Msg, ParseContractCallApproved(m) PROVE BurnInv'
    BY <2>2 DEF ParseContractCallApproved, Goto, Ok
  <2>3. ASSUME NEW m \in Msg, GetPendingCommands(m) PROVE BurnInv'
    BY <2>3 DEF GetPendingCommands, Goto, Ok
  <2>4. ASSUME NEW m \in Msg, SignCommands(m) PROVE BurnInv'
    BY <2>4 DEF SignCommands, Goto, Ok, Pending, Batched
  <2>5. ASSUME NEW m \in Msg, SignFails(m) PROVE BurnInv'
    BY <2>5 DEF SignFails, Goto, Ok, Fault, Pending, Batched
  <2>6. ASSUME NEW m \in Msg, GetExecuteData(m) PROVE BurnInv'
    BY <2>6 DEF GetExecuteData, Goto, Ok
  <2>7. ASSUME NEW m \in Msg, GetBurningTx(m) PROVE BurnInv'
    BY <2>7 DEF GetBurningTx, Goto, Ok
  <2>8. ASSUME NEW m \in Msg, SubmitSignedTx(m) PROVE BurnInv'
    BY <2>8 DEF SubmitSignedTx, Goto, Ok
  <2>9. ASSUME NEW m \in Msg, BroadcastFails(m) PROVE BurnInv'
    BY <2>9 DEF BroadcastFails, Goto, Fault
  <2>10. ASSUME NEW m \in Msg, GetTransaction(m) \/ GetMempoolTx(m) PROVE BurnInv'
    BY <2>10 DEF GetTransaction, GetMempoolTx, Goto, Ok
  <2>11. ASSUME NEW m \in Msg, HandleMultipleEvmToBtcEventsTx(m) PROVE BurnInv'
    BY <2>11 DEF HandleMultipleEvmToBtcEventsTx, Record, Goto, Ok
  <2>12. ASSUME NEW m \in Msg, HandlerFails(m) PROVE BurnInv'
    BY <2>12 DEF HandlerFails, Goto, Fault
  <2>13. ASSUME NEW c \in OtherCmd, CoreQueuesOther(c) PROVE BurnInv'
    BY <2>13 DEF CoreQueuesOther, Ok
  <2>16. ASSUME NEW t \in Psbt, Mine(t) PROVE BurnInv'
    BY <2>16 DEF Mine, Ok
  <2>14. CASE Crash
    BY <2>14 DEF Crash, Fault
  <2>15. CASE UNCHANGED vars
    BY <2>15 DEF vars
  <2>. QED
    BY <2>1, <2>2, <2>3, <2>4, <2>5, <2>6, <2>7, <2>8, <2>9, <2>10, <2>11,
       <2>12, <2>13, <2>14, <2>15, <2>16 DEF Next, Step, Fails
<1>. QED
  BY <1>1, <1>2, TypeCorrect, PTL DEF Spec

\* Each SUCCESS row has an approved withdrawal of its own that carries the transaction
\* it records, and that transaction is on Bitcoin: one of the batch its handler signed.
THEOREM OwnWithdrawal == Spec => []OneWithdrawalPerMark
<1>1. TypeOK /\ BurnInv => OneWithdrawalPerMark
  <2>. SUFFICES ASSUME TypeOK, BurnInv PROVE OneWithdrawalPerMark
    OBVIOUS
  <2>1. \A m \in Marked : m \in Msg /\ Sent(m) /\ executeHash[m] = tx[m]
    BY DEF TypeOK, BurnInv, MarkIsTx, Sent
  <2>2. \A m \in Marked : executeHash[m] \in bitcoin
    BY <2>1 DEF BurnInv, SentIsBurn
  <2>. DEFINE Own(m) == CHOOSE c \in batch[m] \cap Msg : executeHash[m] = PsbtOf[c]
              own == [m \in Marked |-> Own(m)]
  <2>3. \A m \in Marked : Own(m) \in batch[m] \cap Msg /\ executeHash[m] = PsbtOf[Own(m)]
    BY <2>1 DEF BurnInv, FromOwnBatch
  <2>. HIDE DEF Own
  <2>4. \A m \in Marked : Carries(own[m], m)
    BY <2>1, <2>3 DEF BurnInv, BatchesDisjoint, Carries
  <2>5. own \in Injection(Marked, Msg)
    <3>1. own \in [Marked -> Msg]
      BY <2>3
    <3>2. ASSUME NEW m \in Marked, NEW r \in Marked, own[m] = own[r] PROVE m = r
      BY <2>1, <2>3, <3>2 DEF BurnInv, BatchesDisjoint
    <3>. QED
      BY <3>1, <3>2 DEF Injection, IsInjective
  <2>. QED
    BY <2>2, <2>4, <2>5 DEF OneWithdrawalPerMark
<1>. QED
  BY <1>1, TypeCorrect, BurnInvariant, PTL

\* Without faults no burning transaction is lost to the database.
THEOREM NoBurnLost == Spec => []BurnAccounted
<1>1. TypeOK /\ BurnInv => BurnAccounted
  BY DEF TypeOK, BurnInv, MarkIsTx, BurnHeld, Sent, Awaiting, BurnAccounted, Marked
<1>. QED
  BY <1>1, TypeCorrect, BurnInvariant, PTL

=============================================================================
