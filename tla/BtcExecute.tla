----------------------------- MODULE BtcExecute -----------------------------
(***************************************************************************)
(* The core ContractCallApproved handler for messages bound for Bitcoin     *)
(* (eventHandler.ts 162-227, eventBTCHandler.ts): sign a batch of whatever  *)
(* is pending, broadcast the burning transaction of the first contract call *)
(* in it, look for its receipt, and mark the row of the handler's own       *)
(* message.  The rows were created, PENDING, by the ContractCall handler of *)
(* EvmRelay; the EVMEventCompleted handler, also modelled there, is left    *)
(* out.                                                                     *)
(***************************************************************************)
EXTENDS Naturals, FiniteSets, Functions

CONSTANTS
  Msg,       \* withdrawals; each is also its core command
  Psbt,      \* burning transactions
  PsbtOf,    \* the burning transaction in the payload of a withdrawal
  OtherCmd,  \* commands of other kinds the core may queue for the chain
  NoTx,      \* no transaction
  MaxFaults  \* bound on environment faults

ASSUME BtcAssumption ==
  /\ MaxFaults \in Nat
  /\ Msg \cap OtherCmd = {}
  /\ PsbtOf \in [Msg -> Psbt]
  /\ NoTx \notin Psbt

VARIABLES
  recorded,    \* messages with a row in the database
  status,      \* RelayData.status
  executeHash, \* RelayData.executeHash
  logged,      \* ids in CallContractApproved and in CommandExecuted
  core,        \* state of each command at the core
  pc,          \* progress of each message's handler
  batch,       \* the commands of the batch it had signed
  tx,          \* the burning transaction it broadcasts
  bitcoin,     \* burning transactions the Bitcoin node has accepted
  mined,       \* those of them that have left its mempool for the chain
  faults

vars == <<recorded, status, executeHash, logged, core, pc, batch, tx, bitcoin, mined, faults>>
dbVars == <<recorded, status, executeHash, logged>>

Cmd == Msg \cup OtherCmd
CoreState == {"none", "pending", "batched"}
Pcs == {"none", "parse", "dropped", "query", "sign", "poll", "execute", "broadcast",
        "receipt", "mempool", "record", "done", "dead"}

\* Payload hashes are unique: one row for each burning transaction.
Recordable == {R \in SUBSET Msg : \A r1, r2 \in R : PsbtOf[r1] = PsbtOf[r2] => r1 = r2}

Init ==
  /\ recorded \in Recordable
  /\ status = [m \in Msg |-> "pending"]
  /\ executeHash = [m \in Msg |-> NoTx]
  /\ logged = {}
  /\ core = [c \in Cmd |-> "none"]
  /\ pc = [m \in Msg |-> "none"]
  /\ batch = [m \in Msg |-> {}]
  /\ tx = [m \in Msg |-> NoTx]
  /\ bitcoin = {}
  /\ mined = {}
  /\ faults = 0

Ok    == UNCHANGED faults
Fault == faults < MaxFaults /\ faults' = faults + 1

Pending == {c \in Cmd : core[c] = "pending"}
Batched(c) == IF c \in Pending THEN "batched" ELSE core[c]
Goto(m, p) == pc' = [pc EXCEPT ![m] = p]

-----------------------------------------------------------------------------
(* The core and the Bitcoin network                                        *)

\* One frame reports a block of approvals; the parser reads m's, the first, and the
\* others get no handler.  Or the web socket is down and the frame is lost.
CoreApproves(m) ==
  \E block \in SUBSET {r \in Msg : core[r] = "none"}, read \in SUBSET {m} :
    /\ m \in block
    /\ core' = [c \in Cmd |-> IF c \in block THEN "pending" ELSE core[c]]
    /\ pc' = [r \in Msg |-> IF r \in read THEN "parse"
                            ELSE IF r \in block THEN "dead" ELSE pc[r]]
    /\ IF read = {m} THEN Ok ELSE Fault
    /\ UNCHANGED <<dbVars, batch, tx, bitcoin, mined>>

CoreQueuesOther(c) ==
  /\ core[c] = "none"
  /\ core' = [core EXCEPT ![c] = "pending"]
  /\ Ok
  /\ UNCHANGED <<dbVars, pc, batch, tx, bitcoin, mined>>

\* The Bitcoin network includes a transaction of the node's mempool in a block.
Mine(t) ==
  /\ t \in bitcoin \ mined
  /\ mined' = mined \cup {t}
  /\ Ok
  /\ UNCHANGED <<dbVars, core, pc, batch, tx, bitcoin>>

-----------------------------------------------------------------------------
(* The handler                                                             *)

ParseContractCallApproved(m) ==
  /\ pc[m] = "parse"
  /\ Goto(m, IF m \in recorded THEN "query" ELSE "dropped")
  /\ Ok
  /\ UNCHANGED <<dbVars, core, batch, tx, bitcoin, mined>>

\* With nothing pending there is no executedResult: logged, and the row stays.
GetPendingCommands(m) ==
  /\ pc[m] = "query"
  /\ Goto(m, IF Pending = {} THEN "done" ELSE "sign")
  /\ Ok
  /\ UNCHANGED <<dbVars, core, batch, tx, bitcoin, mined>>

SignCommands(m) ==
  /\ pc[m] = "sign"
  /\ IF Pending = {}
       THEN Goto(m, "dead") /\ UNCHANGED <<batch, core>>
       ELSE /\ Goto(m, "poll")
            /\ batch' = [batch EXCEPT ![m] = Pending]
            /\ core' = [c \in Cmd |-> Batched(c)]
  /\ Ok
  /\ UNCHANGED <<dbVars, tx, bitcoin, mined>>

\* The broadcast fails, as one outbid for the account's sequence number does without
\* any fault, or is included and its answer lost: the handler throws.
SignFails(m) ==
  /\ pc[m] = "sign"
  /\ Goto(m, "dead")
  /\ \/ UNCHANGED core /\ Ok
     \/ core' = [c \in Cmd |-> Batched(c)] /\ Fault
  /\ UNCHANGED <<dbVars, batch, tx, bitcoin, mined>>

GetExecuteData(m) ==
  /\ pc[m] = "poll"
  /\ Goto(m, "execute")
  /\ Ok
  /\ UNCHANGED <<dbVars, core, batch, tx, bitcoin, mined>>

\* getBurningTx looks the PSBT up by payload hash, in whichever row has it.
PayloadFound(c) == \E r \in recorded : PsbtOf[r] = PsbtOf[c]

\* Wrong on purpose: the payload hash is not looked at: any row's PSBT will do.
GetAnyBurningTx(m) ==
  /\ pc[m] = "execute"
  /\ \/ /\ batch[m] \cap Msg = {}
        /\ Goto(m, "done")
        /\ UNCHANGED tx
     \/ \E r \in recorded :
          tx' = [tx EXCEPT ![m] = PsbtOf[r]] /\ Goto(m, "broadcast")
  /\ Ok
  /\ UNCHANGED <<dbVars, core, batch, bitcoin, mined>>

\* execute returns from inside its loop, at the first approveContractCall command
\* of the batch, whichever the core put first: a batch without one leaves
\* executedResult undefined.  Without a payload it throws 'PayloadNotFound'.
GetBurningTx(m) ==
  /\ pc[m] = "execute"
  /\ \/ /\ batch[m] \cap Msg = {}
        /\ Goto(m, "done")
        /\ UNCHANGED tx
     \/ \E c \in batch[m] \cap Msg :
          IF PayloadFound(c)
            THEN tx' = [tx EXCEPT ![m] = PsbtOf[c]] /\ Goto(m, "broadcast")
            ELSE Goto(m, "dead") /\ UNCHANGED tx
  /\ Ok
  /\ UNCHANGED <<dbVars, core, batch, bitcoin, mined>>

\* sendrawtransaction answers with the id also for a transaction that is still in the
\* mempool, whoever sent it; it rejects one that is in the chain.
SubmitSignedTx(m) ==
  /\ pc[m] = "broadcast"
  /\ IF tx[m] \in mined
       THEN Goto(m, "dead") /\ UNCHANGED bitcoin
       ELSE Goto(m, "receipt") /\ bitcoin' = bitcoin \cup {tx[m]}
  /\ Ok
  /\ UNCHANGED <<dbVars, core, batch, tx, mined>>

\* Signing or submitting throws; the node may have taken the transaction.
BroadcastFails(m) ==
  /\ pc[m] = "broadcast"
  /\ Goto(m, "dead")
  /\ UNCHANGED bitcoin \/ bitcoin' = bitcoin \cup {tx[m]}
  /\ Fault
  /\ UNCHANGED <<dbVars, core, batch, tx, mined>>

\* Wrong on purpose: a transaction the wallet does not know is not looked for in the
\* mempool.
GetTransactionOnly(m) ==
  /\ pc[m] = "receipt"
  /\ Goto(m, "record") \/ Goto(m, "done")
  /\ Ok
  /\ UNCHANGED <<dbVars, core, batch, tx, bitcoin, mined>>

\* gettransaction answers for transactions of the node's own wallet only.
GetTransaction(m) ==
  /\ pc[m] = "receipt"
  /\ Goto(m, "record") \/ Goto(m, "mempool")
  /\ Ok
  /\ UNCHANGED <<dbVars, core, batch, tx, bitcoin, mined>>

\* One of 21 attempts finds it.
GetMempoolTx(m) ==
  /\ pc[m] = "mempool"
  /\ Goto(m, "record")
  /\ Ok
  /\ UNCHANGED <<dbVars, core, batch, tx, bitcoin, mined>>

\* The handler's last step: mark rows in one database transaction.
Record(m, marked, hash, s) ==
  /\ pc[m] = "record"
  /\ status' = [r \in Msg |-> IF r \in marked THEN s ELSE status[r]]
  /\ executeHash' = [r \in Msg |-> IF r \in marked THEN hash ELSE executeHash[r]]
  /\ logged' = logged \cup marked
  /\ Goto(m, "done")
  /\ Ok
  /\ UNCHANGED <<recorded, core, batch, tx, bitcoin, mined>>

\* Wrong on purpose: only rows that were marked before are marked; the hash is
\* written where the status belongs.
RecordAgain(m) == Record(m, {m} \cap recorded \cap logged, tx[m], "success")
RecordSwapped(m) == Record(m, ({m} \cap recorded) \ logged, tx[m], tx[m])

\* One database transaction updates the row of the handler's own message and
\* creates its CallContractApproved and CommandExecuted entries.
HandleMultipleEvmToBtcEventsTx(m) ==
  Record(m, ({m} \cap recorded) \ logged, tx[m], "success")

\* A call fails, or never returns, at any await: parse or query rejects, the core
\* does not sign the batch, no attempt finds a receipt ('Not found btc receipt tx'), the
\* database transaction is rolled back and its error swallowed.
HandlerFails(m) ==
  /\ pc[m] \in {"parse", "query", "poll", "execute", "mempool", "record"}
  /\ Goto(m, "dead")
  /\ Fault
  /\ UNCHANGED <<dbVars, core, batch, tx, bitcoin, mined>>

Crash ==
  /\ pc' = [m \in Msg |-> IF pc[m] \in {"none", "dropped", "done"} THEN pc[m] ELSE "dead"]
  /\ Fault
  /\ UNCHANGED <<dbVars, core, batch, tx, bitcoin, mined>>

Step(m) ==
  \/ ParseContractCallApproved(m) \/ GetPendingCommands(m)
  \/ SignCommands(m) \/ GetExecuteData(m)
  \/ GetBurningTx(m) \/ SubmitSignedTx(m)
  \/ GetTransaction(m) \/ GetMempoolTx(m)
  \/ HandleMultipleEvmToBtcEventsTx(m)

Fails(m) == SignFails(m) \/ BroadcastFails(m) \/ HandlerFails(m)

Next ==
  \/ \E m \in Msg : CoreApproves(m) \/ Step(m) \/ Fails(m)
  \/ \E c \in OtherCmd : CoreQueuesOther(c)
  \/ \E t \in Psbt : Mine(t)
  \/ Crash

Spec == Init /\ [][Next]_vars

FairSpec == Spec /\ \A m \in Msg : WF_vars(Step(m))

-----------------------------------------------------------------------------

\* Every variable keeps its type: the statuses are values of the Status enumeration,
\* the counters stay within their bounds, handlers are at a point of their code.
TypeOK ==
  /\ recorded \subseteq Msg
  /\ status \in [Msg -> {"pending", "success"}]
  /\ executeHash \in [Msg -> Psbt \cup {NoTx}]
  /\ logged \subseteq Msg
  /\ core \in [Cmd -> CoreState]
  /\ pc \in [Msg -> Pcs]
  /\ batch \in [Msg -> SUBSET Cmd]
  /\ tx \in [Msg -> Psbt \cup {NoTx}]
  /\ bitcoin \subseteq Psbt
  /\ mined \subseteq bitcoin
  /\ faults \in 0..MaxFaults

\* Handlers mark the row of their event with the burning transaction of whatever came
\* first in a batch they share, and none looks whether that transaction was broadcast
\* before (eventBTCHandler.ts 117-179, DatabaseClient.ts 423-488).  Still no withdrawal
\* pays for two rows: each SUCCESS row can be given an approved withdrawal of its own
\* that carries the transaction it records, and that transaction is on Bitcoin.  Two
\* rows record one transaction only where two withdrawals repeat it.
Marked == {m \in Msg : status[m] = "success"}
Carries(c, m) == core[c] = "batched" /\ PsbtOf[c] = executeHash[m]
OneWithdrawalPerMark ==
  /\ \A m \in Marked : executeHash[m] \in bitcoin
  /\ \E own \in Injection(Marked, Msg) : \A m \in Marked : Carries(own[m], m)

\* Without faults no burning transaction goes unaccounted: it is in some row, or
\* the handler that broadcast it is about to put it there.
BurnAccounted ==
  faults = 0 => \A t \in bitcoin : \E m \in Msg :
    \/ executeHash[m] = t
    \/ tx[m] = t /\ pc[m] \in {"receipt", "mempool", "record"}

\* Without faults every burning transaction ends up in the row of some message.
EveryBurnMarked ==
  \A t \in Psbt : t \in bitcoin ~> (faults > 0 \/ \E m \in Marked : executeHash[m] = t)

\* api.ts 46: `status:2 = completed': the withdrawal of a SUCCESS row is on Bitcoin.
SuccessMeansOwnBurn ==
  \A m \in Msg : status[m] = "success" => PsbtOf[m] \in bitcoin

=============================================================================
