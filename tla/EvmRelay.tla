------------------------------ MODULE EvmRelay ------------------------------
(***************************************************************************)
(* The life of the RelayData rows of messages whose destination is an EVM  *)
(* chain.  Four promise chains, started by four independent event streams, *)
(* read and write the same row and never synchronise:                      *)
(*                                                                         *)
(*   call      ContractCall log of the source gateway                      *)
(*   appr      ContractCallApproved event of the Scalar core               *)
(*   exec      ContractCallApproved log of the destination gateway         *)
(*   done      EVMEventCompleted event of the Scalar core                  *)
(*                                                                         *)
(* (relayer/relay.ts, handler/eventHandler.ts).  One step of a handler is  *)
(* the code between two awaits.  The core and the destination gateway are  *)
(* environment actions.  Whatever fails there (a lost event, an RPC error, *)
(* a crash) spends one of MaxFaults faults; a call that gives up because   *)
(* others of its wallet or account were quicker spends none.               *)
(***************************************************************************)
EXTENDS Naturals, FiniteSets

CONSTANTS
  Msg,           \* ContractCall events, each identified by `${txHash}-${logIndex}'
  Tx,            \* source transactions
  Payload,       \* payload hashes (with source and contract address)
  TxOf,          \* the transaction a message was logged in
  PayloadOf,     \* the payload hash of a message
  Completing,    \* messages the core announces EVMEventCompleted for
  OtherRelayers, \* whether other relayers work on the same messages
  Reorgs,        \* whether the destination chain may drop a gateway transaction
  MaxFaults      \* bound on environment faults

ASSUME ConstantsAssumption ==
  /\ TxOf \in [Msg -> Tx]
  /\ PayloadOf \in [Msg -> Payload]
  /\ Completing \subseteq Msg
  /\ OtherRelayers \in BOOLEAN
  /\ Reorgs \in BOOLEAN
  /\ MaxFaults \in Nat

VARIABLES
  status,   \* RelayData.status of each message, or "absent" when there is no row
  call,     \* program counter of the ContractCall handler
  core,     \* what the Scalar core holds of each message
  first,    \* the first approval of the block that announced each message
  appr,     \* program counter of the core ContractCallApproved handler
  batch,    \* the commands of the batch that handler had signed
  gw,       \* state of each command at the destination gateway
  exec,     \* program counter of the gateway ContractCallApproved handler
  rows,     \* the rows that handler has still to work on
  res,      \* the status updates it will write
  done,     \* program counter of the EVMEventCompleted handler
  verdict,  \* the status that handler will write
  routed,   \* messages the core has already executed
  refused,  \* messages the core has refused to execute
  foreign,  \* commands whose dApp call was made by another relayer
  crowded,  \* calls of the wallet that met another and have not returned
  outbid,   \* calls that gave up because other calls took their turn each time
  faults    \* environment faults so far

dbVars   == <<status>>
callVars == <<call>>
apprVars == <<appr, batch>>
execVars == <<exec, rows, res>>
doneVars == <<done, verdict>>
envVars  == <<core, first, gw, routed, refused, foreign>>
vars == <<status, call, core, first, appr, batch, gw, exec, rows, res, done, verdict,
          routed, refused, foreign, crowded, outbid, faults>>

Statuses  == {"pending", "approved", "success", "failed"}
CallPc    == {"none", "create", "finality", "confirm", "done", "dead"}
ApprPc    == {"none", "parse", "dropped", "query", "sign", "poll", "gateway",
              "update", "done", "dead"}
ExecPc    == {"none", "find", "check", "execute", "update", "done", "dead"}
DonePc    == {"none", "parse", "route", "update", "done", "dead"}
CoreState == {"none", "confirmed", "pending", "batched"}
GwState   == {"none", "approved", "consumed"}

Init ==
  /\ status  = [m \in Msg |-> "absent"]
  /\ call    = [m \in Msg |-> "none"]
  /\ core    = [m \in Msg |-> "none"]
  /\ first   = [m \in Msg |-> m]
  /\ appr    = [m \in Msg |-> "none"]
  /\ batch   = [m \in Msg |-> {}]
  /\ gw      = [m \in Msg |-> "none"]
  /\ exec    = [m \in Msg |-> "none"]
  /\ rows    = [m \in Msg |-> {}]
  /\ res     = [m \in Msg |-> {}]
  /\ done    = [m \in Msg |-> "none"]
  /\ verdict = [m \in Msg |-> "failed"]
  /\ routed  = {}
  /\ refused = {}
  /\ foreign = {}
  /\ crowded = {}
  /\ outbid  = {}
  /\ faults  = 0

callsVars == <<crowded, outbid>>

Ok    == UNCHANGED <<callsVars, faults>>
Fault == faults < MaxFaults /\ faults' = faults + 1 /\ UNCHANGED callsVars

-----------------------------------------------------------------------------
(* Contention.  One wallet signs every transaction of the relayer on the       *)
(* destination chain, one account every one on the core, and the clients take  *)
(* nonces and account sequences without a lock.  A call that meets others may   *)
(* lose all its attempts to them: it gives up, having done nothing (SubmitTx    *)
(* and SignerClient), although nothing failed.  The handlers below share the    *)
(* wallet; the account they share with the rest of the relayer, which may use   *)
(* it at any time.                                                              *)

WalletCalls  == {"gateway", "execute"} \X Msg
AccountCalls == {"sign", "route"} \X Msg

UnderWay == {c \in WalletCalls : \/ c[1] = "gateway" /\ appr[c[2]] = "gateway"
                                 \/ c[1] = "execute" /\ exec[c[2]] = "execute"}

\* A call of the wallet begins: it meets those under way, and they meet it.
Starts(kind, m) ==
  /\ crowded' = IF UnderWay = {} THEN crowded ELSE crowded \cup UnderWay \cup {<<kind, m>>}
  /\ UNCHANGED <<outbid, faults>>

Returns(kind, m) ==
  /\ crowded' = crowded \ {<<kind, m>>}
  /\ UNCHANGED <<outbid, faults>>

Outbid(kind, m) ==
  /\ <<kind, m>> \in AccountCalls \cup crowded
  /\ outbid' = outbid \cup {<<kind, m>>}
  /\ crowded' = crowded \ {<<kind, m>>}
  /\ UNCHANGED faults

GaveUp(kind, m) == <<kind, m>> \in outbid

-----------------------------------------------------------------------------
SamePayload(r, m) == PayloadOf[r] = PayloadOf[m]
Pending == {m \in Msg : core[m] = "pending"}

-----------------------------------------------------------------------------
(* The ContractCall handler: record the call, wait, confirm its transaction *)

\* Wrong on purpose: the row is not awaited before the wait for finality.
SeeContractCallUnrecorded(m) ==
  /\ call[m] = "none"
  /\ call' = [call EXCEPT ![m] = "finality"]
  /\ Ok
  /\ UNCHANGED <<dbVars, apprVars, execVars, doneVars, envVars>>

\* The listener hands a new ContractCall log to sEvmCallContract.
SeeContractCall(m) ==
  /\ call[m] = "none"
  /\ call' = [call EXCEPT ![m] = "create"]
  /\ Ok
  /\ UNCHANGED <<dbVars, apprVars, execVars, doneVars, envVars>>

\* No row with this id and none with this payload hash: both are unique keys.
Creatable(m) ==
  \A r \in Msg : status[r] # "absent" => r # m /\ ~SamePayload(r, m)

CreateEvmCallContractEvent(m) ==
  /\ call[m] = "create"
  /\ IF Creatable(m)
       THEN /\ status' = [status EXCEPT ![m] = "pending"]
            /\ call' = [call EXCEPT ![m] = "finality"]
       ELSE /\ call' = [call EXCEPT ![m] = "dead"]
            /\ UNCHANGED status
  /\ Ok
  /\ UNCHANGED <<apprVars, execVars, doneVars, envVars>>

WaitForFinality(m) ==
  /\ call[m] = "finality"
  /\ call' = [call EXCEPT ![m] = "confirm"]
  /\ Ok
  /\ UNCHANGED <<dbVars, apprVars, execVars, doneVars, envVars>>

\* ConfirmGatewayTx covers the whole transaction, hence every message of it.
HandleEvmToCosmosEvent(m) ==
  /\ call[m] = "confirm"
  /\ call' = [call EXCEPT ![m] = "done"]
  /\ core' = [r \in Msg |-> IF TxOf[r] = TxOf[m] /\ core[r] = "none"
                              THEN "confirmed" ELSE core[r]]
  /\ Ok
  /\ UNCHANGED <<dbVars, apprVars, execVars, doneVars, first, gw, routed, refused, foreign>>

\* confirmEvmTx, outbid or failed, returns undefined: the handler does not look and
\* ends.
ConfirmFails(m) ==
  /\ call[m] = "confirm"
  /\ call' = [call EXCEPT ![m] = "done"]
  /\ Ok
  /\ UNCHANGED <<dbVars, apprVars, execVars, doneVars, envVars>>

-----------------------------------------------------------------------------
(* The Scalar core and its event streams                                   *)

\* A frame of the web socket reports one block: its events map lists, under each
\* attribute, the values of all events of the block.  The parsers read the first
\* value only: of the messages of a block one is read, the others get no handler.
Frame(pc, block, read) ==
  [m \in Msg |-> IF m \in read THEN "parse" ELSE IF m \in block THEN "dead" ELSE pc[m]]

\* In one block the core queues the commands of some confirmed events, m's first.
QueuesBlock(m, block) ==
  /\ block \subseteq {r \in Msg : core[r] = "confirmed"}
  /\ m \in block
  /\ core' = [r \in Msg |-> IF r \in block THEN "pending" ELSE core[r]]
  /\ first' = [r \in Msg |-> IF r \in block THEN m ELSE first[r]]

\* The frame is delivered once or, the web socket disconnected, never.  One whose
\* first approval is bound for another chain is lost to this chain's handlers too.
CoreApproves(m) ==
  \E block \in SUBSET Msg :
    /\ QueuesBlock(m, block)
    /\ \/ appr' = Frame(appr, block, {m}) /\ Ok
       \/ appr' = Frame(appr, block, {}) /\ Fault
    /\ UNCHANGED <<dbVars, callVars, batch, execVars, doneVars, gw, routed, refused, foreign>>

CoreCompletes(m) ==
  \E block \in SUBSET {r \in Completing : /\ core[r] \notin {"none", "confirmed"}
                                          /\ done[r] = "none"} :
    /\ m \in block
    /\ \/ done' = Frame(done, block, {m}) /\ Ok
       \/ done' = Frame(done, block, {}) /\ Fault
    /\ UNCHANGED <<dbVars, callVars, apprVars, execVars, verdict, envVars>>

\* Another relayer has the core execute the message; so may a transaction this one
\* gave up for lost, and likewise below.
OtherRoutes(m) ==
  /\ OtherRelayers
  /\ core[m] \notin {"none", "confirmed"}
  /\ m \notin routed
  /\ routed' = routed \cup {m}
  /\ Ok
  /\ UNCHANGED <<dbVars, callVars, apprVars, execVars, doneVars, core, first, gw, refused, foreign>>

-----------------------------------------------------------------------------
(* The core ContractCallApproved handler: batch, sign, execute, mark        *)

\* Wrong on purpose: the event is handled whether there is a row or not.
ParseWithoutRow(m) ==
  /\ appr[m] = "parse"
  /\ appr' = [appr EXCEPT ![m] = "query"]
  /\ Ok
  /\ UNCHANGED <<dbVars, callVars, batch, execVars, doneVars, envVars>>

\* parseContractCallApprovedEvent looks the payload up: no row, no handling.
ParseContractCallApproved(m) ==
  /\ appr[m] = "parse"
  /\ appr' = [appr EXCEPT ![m] = IF status[m] = "absent" THEN "dropped" ELSE "query"]
  /\ Ok
  /\ UNCHANGED <<dbVars, callVars, batch, execVars, doneVars, envVars>>

\* Wrong on purpose: a handler that finds nothing to sign fails its row.
GetPendingCommandsOrFail(m) ==
  /\ appr[m] = "query"
  /\ appr' = [appr EXCEPT ![m] = IF Pending = {} THEN "done" ELSE "sign"]
  /\ status' = IF Pending = {} THEN [status EXCEPT ![m] = "failed"] ELSE status
  /\ Ok
  /\ UNCHANGED <<callVars, batch, execVars, doneVars, envVars>>

\* With nothing pending the handler returns no transaction, and
\* updateCosmosToEvmEvent without a transaction does nothing.
GetPendingCommands(m) ==
  /\ appr[m] = "query"
  /\ appr' = [appr EXCEPT ![m] = IF Pending = {} THEN "done" ELSE "sign"]
  /\ Ok
  /\ UNCHANGED <<dbVars, callVars, batch, execVars, doneVars, envVars>>

\* Wrong on purpose: of the batch it had signed the handler sends only its own
\* command to the gateway.
SignCommandsForOne(m) ==
  /\ appr[m] = "sign"
  /\ IF Pending = {}
       THEN /\ appr' = [appr EXCEPT ![m] = "dead"]
            /\ UNCHANGED <<batch, core>>
       ELSE /\ appr' = [appr EXCEPT ![m] = "poll"]
            /\ batch' = [batch EXCEPT ![m] = Pending \cap {m}]
            /\ core' = [r \in Msg |-> IF r \in Pending THEN "batched" ELSE core[r]]
  /\ Ok
  /\ UNCHANGED <<dbVars, callVars, execVars, doneVars, first, gw, routed, refused, foreign>>

\* signCommands names no command: the batch is whatever is pending now.  With
\* nothing left to sign no batch id comes back and the handler throws.
SignCommands(m) ==
  /\ appr[m] = "sign"
  /\ IF Pending = {}
       THEN /\ appr' = [appr EXCEPT ![m] = "dead"]
            /\ UNCHANGED <<batch, core>>
       ELSE /\ appr' = [appr EXCEPT ![m] = "poll"]
            /\ batch' = [batch EXCEPT ![m] = Pending]
            /\ core' = [r \in Msg |-> IF r \in Pending THEN "batched" ELSE core[r]]
  /\ Ok
  /\ UNCHANGED <<dbVars, callVars, execVars, doneVars, first, gw, routed, refused, foreign>>

\* The broadcast fails, or is included and its answer lost: either way the
\* handler throws 'cannot sign command'.
SignFails(m) ==
  /\ appr[m] = "sign"
  /\ appr' = [appr EXCEPT ![m] = "dead"]
  /\ \/ UNCHANGED core /\ (Outbid("sign", m) \/ Fault)
     \/ core' = [r \in Msg |-> IF r \in Pending THEN "batched" ELSE core[r]] /\ Fault
  /\ UNCHANGED <<dbVars, callVars, batch, execVars, doneVars, first, gw, routed, refused, foreign>>

\* getExecuteDataFromBatchCommands returns once the batch is signed.  A batch
\* the core never signs is polled for ever: that handler takes no more steps.
GetExecuteData(m) ==
  /\ appr[m] = "poll"
  /\ \/ appr' = [appr EXCEPT ![m] = "gateway"] /\ Starts("gateway", m)
     \/ appr' = [appr EXCEPT ![m] = "dead"] /\ Fault
  /\ UNCHANGED <<dbVars, callVars, batch, execVars, doneVars, envVars>>

\* The gateway executes the commands of the batch it has not executed before and
\* logs an approval for each; the listener misses those in `missed'.
GatewayRuns(m, missed) ==
  LET fresh == {r \in batch[m] : gw[r] = "none"} IN
  /\ missed \subseteq fresh
  /\ gw' = [r \in Msg |-> IF r \in fresh THEN "approved" ELSE gw[r]]
  /\ exec' = [r \in Msg |-> IF r \in fresh /\ exec[r] = "none"
                              THEN IF r \in missed THEN "dead" ELSE "find"
                              ELSE exec[r]]

GatewayExecute(m) ==
  /\ appr[m] = "gateway"
  /\ \E missed \in SUBSET batch[m] :
       /\ GatewayRuns(m, missed)
       /\ IF missed = {} THEN Returns("gateway", m) ELSE Fault
  /\ appr' = [appr EXCEPT ![m] = "update"]
  /\ UNCHANGED <<dbVars, callVars, batch, rows, res, doneVars, core, first, routed, refused, foreign>>

\* submitTx gives up: other calls took its nonces, nothing was mined, or every
\* receipt was lost.  No transaction reaches updateCosmosToEvmEvent, which then
\* does nothing.
GatewayExecuteFails(m) ==
  /\ appr[m] = "gateway"
  /\ \/ UNCHANGED <<gw, exec>> /\ (Outbid("gateway", m) \/ Fault)
     \/ GatewayRuns(m, {}) /\ Fault
  /\ appr' = [appr EXCEPT ![m] = "done"]
  /\ UNCHANGED <<dbVars, callVars, batch, rows, res, doneVars, core, first, routed, refused, foreign>>

\* The update does not look at the status it overwrites.
UpdateCosmosToEvmEvent(m) ==
  /\ appr[m] = "update"
  /\ appr' = [appr EXCEPT ![m] = "done"]
  /\ status' = [status EXCEPT ![m] = "approved"]
  /\ Ok
  /\ UNCHANGED <<callVars, batch, execVars, doneVars, envVars>>

-----------------------------------------------------------------------------
(* The gateway ContractCallApproved handler: execute the dApp call          *)

\* Wrong on purpose: only rows already marked APPROVED are looked for.
FindOnlyApproved(m) ==
  LET found == {r \in Msg : SamePayload(r, m) /\ status[r] = "approved"} IN
  /\ exec[m] = "find"
  /\ rows' = [rows EXCEPT ![m] = found]
  /\ exec' = [exec EXCEPT ![m] = IF found = {} THEN "done" ELSE "check"]
  /\ Ok
  /\ UNCHANGED <<dbVars, callVars, apprVars, res, doneVars, envVars>>

FindCosmosToEvmCallContractApproved(m) ==
  LET found == {r \in Msg : SamePayload(r, m) /\ status[r] \in {"pending", "approved"}} IN
  /\ exec[m] = "find"
  /\ rows' = [rows EXCEPT ![m] = found]
  /\ exec' = [exec EXCEPT ![m] = IF found = {} THEN "done" ELSE "check"]
  /\ Ok
  /\ UNCHANGED <<dbVars, callVars, apprVars, res, doneVars, envVars>>

\* The handler is finished with row r and will write s to it.
Concludes(m, r, s) ==
  /\ rows' = [rows EXCEPT ![m] = @ \ {r}]
  /\ res' = [res EXCEPT ![m] = @ \cup {<<r, s>>}]
  /\ exec' = [exec EXCEPT ![m] = IF rows[m] = {r} THEN "update" ELSE "check"]

\* Wrong on purpose: the negation is forgotten.
IsCallContractApproved(m) ==
  /\ exec[m] = "check"
  /\ IF gw[m] = "approved"
       THEN \E r \in rows[m] : Concludes(m, r, "success")
       ELSE /\ exec' = [exec EXCEPT ![m] = "execute"]
            /\ UNCHANGED <<rows, res>>
  /\ Ok
  /\ UNCHANGED <<dbVars, callVars, apprVars, doneVars, envVars>>

\* isCallContractExecuted is the negation of the gateway's isContractCallApproved.
IsCallContractExecuted(m) ==
  /\ exec[m] = "check"
  /\ IF gw[m] # "approved"
       THEN (\E r \in rows[m] : Concludes(m, r, "success")) /\ Ok
       ELSE /\ exec' = [exec EXCEPT ![m] = "execute"]
            /\ Starts("execute", m)
            /\ UNCHANGED <<rows, res>>
  /\ UNCHANGED <<dbVars, callVars, apprVars, doneVars, envVars>>

\* The dApp accepts the call only while the gateway holds the approval, and
\* consumes it; otherwise every attempt reverts.
Execute(m) ==
  /\ exec[m] = "execute"
  /\ \E r \in rows[m] :
       Concludes(m, r, IF gw[m] = "approved" THEN "success" ELSE "failed")
  /\ gw' = [gw EXCEPT ![m] = IF @ = "approved" THEN "consumed" ELSE @]
  /\ Returns("execute", m)
  /\ UNCHANGED <<dbVars, callVars, apprVars, doneVars, core, first, routed, refused, foreign>>

\* submitTx gives up: other calls took its nonces, the call was not mined, or its
\* receipt was lost (the retries then revert).
ExecuteFails(m) ==
  /\ exec[m] = "execute"
  /\ \E r \in rows[m] : Concludes(m, r, "failed")
  /\ \/ UNCHANGED gw /\ (Outbid("execute", m) \/ Fault)
     \/ gw' = [gw EXCEPT ![m] = IF @ = "approved" THEN "consumed" ELSE @] /\ Fault
  /\ UNCHANGED <<dbVars, callVars, apprVars, doneVars, core, first, routed, refused, foreign>>

\* Wrong on purpose: the state of the command is written where a status belongs.
UpdateEventResult(m) ==
  /\ exec[m] = "update"
  /\ \E u \in res[m] :
       /\ status' = [status EXCEPT ![u[1]] = gw[m]]
       /\ res' = [res EXCEPT ![m] = @ \ {u}]
       /\ exec' = [exec EXCEPT ![m] = IF res[m] = {u} THEN "done" ELSE @]
  /\ Ok
  /\ UNCHANGED <<callVars, apprVars, rows, doneVars, envVars>>

\* The updates are started together, not awaited, and land in any order.
UpdateEventStatus(m) ==
  /\ exec[m] = "update"
  /\ \E u \in res[m] :
       /\ status' = [status EXCEPT ![u[1]] = u[2]]
       /\ res' = [res EXCEPT ![m] = @ \ {u}]
       /\ exec' = [exec EXCEPT ![m] = IF res[m] = {u} THEN "done" ELSE @]
  /\ Ok
  /\ UNCHANGED <<callVars, apprVars, rows, doneVars, envVars>>

-----------------------------------------------------------------------------
(* The EVMEventCompleted handler: route the message, mark the row           *)

ParseEvmEventCompleted(m) ==
  /\ done[m] = "parse"
  /\ done' = [done EXCEPT ![m] = IF status[m] = "absent" THEN "dead" ELSE "route"]
  /\ Ok
  /\ UNCHANGED <<dbVars, callVars, apprVars, execVars, verdict, envVars>>

Judges(m, s) ==
  /\ done' = [done EXCEPT ![m] = "update"]
  /\ verdict' = [verdict EXCEPT ![m] = s]

\* A first routing succeeds, but without a send_packet event in its log the
\* packet sequence cannot be read and the handler throws.
HandleEvmToCosmosConfirmEvent(m) ==
  /\ done[m] = "route"
  /\ m \notin routed
  /\ routed' = routed \cup {m}
  /\ \/ Judges(m, "success")
     \/ done' = [done EXCEPT ![m] = "dead"] /\ UNCHANGED verdict
  /\ Ok
  /\ UNCHANGED <<dbVars, callVars, apprVars, execVars, core, first, gw, refused, foreign>>

\* The core refuses the message.  It may well: the payload, read from the database
\* without a leading 0x, is sent without its first byte.
CoreRefuses(m) ==
  /\ done[m] = "route"
  /\ m \notin routed
  /\ refused' = refused \cup {m}
  /\ \/ Judges(m, "failed")
     \/ done' = [done EXCEPT ![m] = "dead"] /\ UNCHANGED verdict
  /\ Ok
  /\ UNCHANGED <<dbVars, callVars, apprVars, execVars, core, first, gw, routed, foreign>>

\* The core answers 'already executed': in the log of a delivered transaction
\* the handler sees it, as an error routeMessageRequest hides it.
AlreadyExecuted(m) ==
  /\ done[m] = "route"
  /\ m \in routed
  /\ Judges(m, "success") \/ Judges(m, "failed")
  /\ Ok
  /\ UNCHANGED <<dbVars, callVars, apprVars, execVars, envVars>>

\* The broadcast fails, or is included and its answer lost.
RouteFails(m) ==
  /\ done[m] = "route"
  /\ Judges(m, "failed")
  /\ \/ UNCHANGED routed /\ (Outbid("route", m) \/ Fault)
     \/ routed' = routed \cup {m} /\ Fault
  /\ UNCHANGED <<dbVars, callVars, apprVars, execVars, core, first, gw, refused, foreign>>

\* Packet sequences count per channel, but the column is unique: a row for another
\* channel may have the number already, and the update is rejected.
SequenceTaken(m) ==
  verdict[m] = "success" /\ \E r \in Msg \ {m} : done[r] = "done" /\ verdict[r] = "success"

UpdateEventStatusWithPacketSequence(m) ==
  /\ done[m] = "update"
  /\ \/ /\ done' = [done EXCEPT ![m] = "done"]
        /\ status' = [status EXCEPT ![m] = verdict[m]]
     \/ /\ SequenceTaken(m)
        /\ done' = [done EXCEPT ![m] = "dead"]
        /\ UNCHANGED status
  /\ Ok
  /\ UNCHANGED <<callVars, apprVars, execVars, verdict, envVars>>

-----------------------------------------------------------------------------
(* What else the environment does                                          *)

\* An await of m's handlers rejects (database or RPC error) and the chain ends in
\* handleAnyError.  Only the updates of the gateway handler lie outside that catch.
HandlerFails(m) ==
  /\ \/ /\ call[m] \in {"create", "finality"}
        /\ call' = [call EXCEPT ![m] = "dead"]
        /\ UNCHANGED <<apprVars, execVars, doneVars>>
     \/ /\ appr[m] \in {"parse", "query", "update"}
        /\ appr' = [appr EXCEPT ![m] = "dead"]
        /\ UNCHANGED <<callVars, batch, execVars, doneVars>>
     \/ /\ exec[m] \in {"find", "check"}
        /\ exec' = [exec EXCEPT ![m] = "dead"]
        /\ UNCHANGED <<callVars, apprVars, rows, res, doneVars>>
     \/ /\ done[m] \in {"parse", "update"}
        /\ done' = [done EXCEPT ![m] = "dead"]
        /\ UNCHANGED <<callVars, apprVars, execVars, verdict>>
  /\ Fault
  /\ UNCHANGED <<dbVars, envVars>>

Killed(pc, idle) == [m \in Msg |-> IF pc[m] \in idle THEN pc[m] ELSE "dead"]

\* The process ends (a failed update of the gateway handler is an unhandled
\* rejection and ends it too): every handler under way is gone, nothing is replayed.
Crash ==
  /\ call' = Killed(call, {"none", "done", "dead"})
  /\ appr' = Killed(appr, {"none", "done", "dead", "dropped"})
  /\ exec' = Killed(exec, {"none", "done", "dead"})
  /\ done' = Killed(done, {"none", "done", "dead"})
  /\ Fault
  /\ UNCHANGED <<dbVars, batch, rows, res, verdict, envVars>>

\* Another relayer has the pending commands batched, or sends a batched command
\* to the gateway.
OtherSigns(m) ==
  /\ OtherRelayers
  /\ core[m] = "pending"
  /\ core' = [r \in Msg |-> IF r \in Pending THEN "batched" ELSE core[r]]
  /\ Ok
  /\ UNCHANGED <<dbVars, callVars, apprVars, execVars, doneVars, first, gw, routed, refused, foreign>>

OtherApproves(m) ==
  /\ OtherRelayers
  /\ core[m] = "batched"
  /\ gw[m] = "none"
  /\ exec[m] = "none"
  /\ gw' = [gw EXCEPT ![m] = "approved"]
  /\ exec' = [exec EXCEPT ![m] = "find"]
  /\ Ok
  /\ UNCHANGED <<dbVars, callVars, apprVars, rows, res, doneVars, core, first, routed, refused, foreign>>

\* Another relayer makes the dApp call of an approved command.
OtherExecutes(m) ==
  /\ OtherRelayers
  /\ gw[m] = "approved"
  /\ gw' = [gw EXCEPT ![m] = "consumed"]
  /\ foreign' = foreign \cup {m}
  /\ Ok
  /\ UNCHANGED <<dbVars, callVars, apprVars, execVars, doneVars, core, first, routed, refused>>

\* The approving transaction is dropped by a reorganisation: the log has been
\* handled already, because this handler does not wait for finality.
Reorg(m) ==
  /\ Reorgs
  /\ gw[m] = "approved"
  /\ gw' = [gw EXCEPT ![m] = "none"]
  /\ Fault
  /\ UNCHANGED <<dbVars, callVars, apprVars, execVars, doneVars, core, first, routed, refused, foreign>>

-----------------------------------------------------------------------------

CallStep(m) ==
  \/ CreateEvmCallContractEvent(m) \/ WaitForFinality(m)
  \/ HandleEvmToCosmosEvent(m) \/ ConfirmFails(m)

ApprStep(m) ==
  \/ ParseContractCallApproved(m) \/ GetPendingCommands(m)
  \/ SignCommands(m) \/ SignFails(m) \/ GetExecuteData(m)
  \/ GatewayExecute(m) \/ GatewayExecuteFails(m) \/ UpdateCosmosToEvmEvent(m)

ExecStep(m) ==
  \/ FindCosmosToEvmCallContractApproved(m) \/ IsCallContractExecuted(m)
  \/ Execute(m) \/ ExecuteFails(m) \/ UpdateEventStatus(m)

DoneStep(m) ==
  \/ ParseEvmEventCompleted(m) \/ HandleEvmToCosmosConfirmEvent(m)
  \/ CoreRefuses(m) \/ AlreadyExecuted(m) \/ RouteFails(m)
  \/ UpdateEventStatusWithPacketSequence(m)

Environment(m) ==
  \/ SeeContractCall(m) \/ CoreApproves(m) \/ CoreCompletes(m) \/ OtherRoutes(m)
  \/ OtherSigns(m) \/ OtherApproves(m) \/ OtherExecutes(m)
  \/ Reorg(m) \/ HandlerFails(m)

Next ==
  \/ \E m \in Msg : CallStep(m) \/ ApprStep(m) \/ ExecStep(m) \/ DoneStep(m)
  \/ \E m \in Msg : Environment(m)
  \/ Crash

Spec == Init /\ [][Next]_vars

\* The event loop runs every promise chain on, and a batch gets its signature; only
\* two of the chains have to go on for what is claimed.  Nothing is assumed of the
\* environment's other steps.
Fairness == \A m \in Msg : WF_vars(ApprStep(m)) /\ WF_vars(ExecStep(m))

FairSpec == Spec /\ Fairness

-----------------------------------------------------------------------------
(* Properties                                                              *)

\* Every variable keeps its type: the statuses are values of the Status enumeration,
\* the counters stay within their bounds, handlers are at a point of their code.
TypeOK ==
  /\ status  \in [Msg -> Statuses \cup {"absent"}]
  /\ call    \in [Msg -> CallPc]
  /\ core    \in [Msg -> CoreState]
  /\ first   \in [Msg -> Msg]
  /\ appr    \in [Msg -> ApprPc]
  /\ batch   \in [Msg -> SUBSET Msg]
  /\ gw      \in [Msg -> GwState]
  /\ exec    \in [Msg -> ExecPc]
  /\ rows    \in [Msg -> SUBSET Msg]
  /\ res     \in [Msg -> SUBSET (Msg \X Statuses)]
  /\ done    \in [Msg -> DonePc]
  /\ verdict \in [Msg -> Statuses]
  /\ routed  \subseteq Msg
  /\ refused \subseteq Msg
  /\ foreign \subseteq Msg
  /\ crowded \subseteq WalletCalls
  /\ outbid  \subseteq WalletCalls \cup AccountCalls
  /\ faults  \in 0..MaxFaults

\* Batches are shared between handlers without a word: each signs whatever is
\* pending, commands of its own block and of others, most of which have no handler.
\* As long as nothing fails, no command is left behind: one still pending is the
\* business of the handler of its block (unless that was dropped for want of a
\* row), one batched is in the batch of a handler that has yet to send
\* it to the gateway, unless that handler's call was outbid
\* (handleCosmosToEvmApprovedEvent, eventHandler.ts 248-276; what other relayers batch,
\* they execute).
PendingOwned(m) ==
  core[m] = "pending" =>
    \/ appr[first[m]] \in {"parse", "query", "sign", "dropped"}
    \/ GaveUp("sign", first[m])
BatchedOwned(m) ==
  core[m] = "batched" /\ gw[m] = "none" =>
    \E a \in Msg : /\ m \in batch[a]
                   /\ appr[a] \in {"poll", "gateway"} \/ GaveUp("gateway", a)
NoCommandStranded ==
  faults = 0 /\ ~OtherRelayers => \A m \in Msg : PendingOwned(m) /\ BatchedOwned(m)

\* A row marked SUCCESS has had its payload executed by the dApp, or its message
\* executed by the core, whoever wrote the mark and whatever else failed, as long as
\* the destination chain drops no transaction.
\* (isCallContractExecuted answers `true' also for a command the gateway never
\* approved; only the order of events keeps the handler from asking too early.)
IsExecuted(m) == m \in routed \/ \E r \in Msg : SamePayload(r, m) /\ gw[r] = "consumed"
SuccessMeansExecuted == \A m \in Msg : status[m] = "success" => IsExecuted(m)

\* A row is marked FAILED for a reason: a fault, a refusal or an `already executed'
\* answer of the core, a dApp call another relayer made first, or contention: the dApp
\* call of its payload lost every attempt to other calls of the wallet, or its routing
\* to others of the account.  Sharing the wallet is the one way in which the four
\* handlers, however they interleave, fail one another's rows (EvmClient.ts 162-181,
\* eventHandler.ts 343-347).
Cause(m) ==
  \/ faults > 0
  \/ m \in routed \cup refused
  \/ \E r \in foreign : SamePayload(r, m)
  \/ GaveUp("route", m)
  \/ \E r \in Msg : SamePayload(r, m) /\ GaveUp("execute", r)
FailedHasCause == \A m \in Msg : status[m] = "failed" => Cause(m)

\* What the status of a row tells a reader of the API: the four handlers, which check
\* nothing when they write, change rows only as MessageLife allows.  In particular none
\* writes a row that is not there, and APPROVED is no more than a command in some batch:
\* the one its handler sent to the gateway may be without it (signCommands names no
\* command, eventHandler.ts 253).  As above, no transaction is dropped.
Abstract == INSTANCE MessageLife WITH
          signed   <- {m \in Msg : core[m] = "batched"},
          executed <- {m \in Msg : IsExecuted(m)},
          excused  <- {m \in Msg : Cause(m)}
ImplementsMessageLife == Abstract!Spec

\* The core learns of a transaction from this relayer only when a row of that
\* transaction is in the database (relay.ts 110-114): the parsers of both core
\* events need the row.
ConfirmedIsRecorded ==
  \A m \in Msg : core[m] # "none" =>
    \E r \in Msg : TxOf[r] = TxOf[m] /\ status[r] # "absent"

\* Without faults, and with a payload of its own, a message the core queues when its
\* row is there is executed by the dApp, whether its own event is read or not.  Three
\* things come between: the event read in its block was dropped for want of a row; the
\* core executes or refuses the message first (the EVMEventCompleted handler then
\* writes the row, and the gateway handler may no longer find it); a call on its way
\* gave up, outbid by others.
StoppedShort(m) ==
  \/ GaveUp("sign", first[m])
  \/ \E a \in Msg : m \in batch[a] /\ GaveUp("gateway", a)
  \/ GaveUp("execute", m) \/ GaveUp("route", m)
EventuallyExecuted ==
  \A m \in Msg : core[m] = "pending" /\ status[m] # "absent" ~>
    \/ gw[m] = "consumed"
    \/ appr[first[m]] = "dropped" \/ m \in routed \cup refused
    \/ StoppedShort(m) \/ faults > 0

\* eventHandler.ts 217: `approve then update status is approve then execute then
\* update status is success': no row goes back from SUCCESS to APPROVED.
NoStatusRegress ==
  [][\A m \in Msg : status[m] = "success" => status'[m] # "approved"]_vars

\* EvmClient.ts 64: called before the command is executed, isCallContractExecuted
\* `will always return false', so the handler never concludes SUCCESS then.
FalseBeforeCommand ==
  [][\A m \in Msg : exec[m] = "check" /\ gw[m] = "none" =>
       \A r \in Msg : <<r, "success">> \notin res'[m] \ res[m]]_vars

\* eventHandler.ts 59: `Already sent an executed tx ... Marked it as success.'
AlreadyExecutedIsSuccess ==
  [][\A m \in Msg : done[m] = "route" /\ done'[m] = "update" /\ m \in routed =>
       verdict'[m] = "success"]_vars

=============================================================================
