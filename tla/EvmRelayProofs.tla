--------------------------- MODULE EvmRelayProofs ---------------------------
(***************************************************************************)
(* Type correctness and the safety invariants of EvmRelay, for every set of *)
(* messages, every assignment of transactions and payloads and every bound  *)
(* on faults.                                                               *)
(***************************************************************************)
EXTENDS EvmRelay, TLAPS

\* Every variable keeps its type.
THEOREM TypeCorrect == Spec => []TypeOK
<1>1. Init => TypeOK
  BY ConstantsAssumption
  DEF Init, TypeOK, Statuses, CallPc, ApprPc, ExecPc, DonePc, CoreState, GwState
<1>2. TypeOK /\ [Next]_vars => TypeOK'
  <2>. SUFFICES ASSUME TypeOK, [Next]_vars PROVE TypeOK'
    OBVIOUS
  <2>. USE ConstantsAssumption
       DEF TypeOK, Statuses, CallPc, ApprPc, ExecPc, DonePc, CoreState, GwState,
           dbVars, callVars, apprVars, execVars, doneVars, envVars
  <2>. DEFINE Sound == /\ crowded' \subseteq WalletCalls
                       /\ outbid' \subseteq WalletCalls \cup AccountCalls
                       /\ faults' \in 0..MaxFaults
  <2>ok. Ok \/ Fault => Sound
    BY DEF Ok, Fault, callsVars
  <2>calls. \A m \in Msg : \A kind :
              \/ Starts("gateway", m) \/ Starts("execute", m)
              \/ Returns(kind, m) \/ Outbid(kind, m)
              => Sound
    BY DEF Starts, Returns, Outbid, UnderWay, WalletCalls
  <2>1. CASE UNCHANGED vars
    BY <2>1 DEF vars
  <2>2. ASSUME NEW m \in Msg, CreateEvmCallContractEvent(m) PROVE TypeOK'
    BY <2>2, <2>ok DEF CreateEvmCallContractEvent, Creatable
  <2>3. ASSUME NEW m \in Msg, WaitForFinality(m) PROVE TypeOK'
    BY <2>3, <2>ok DEF WaitForFinality
  <2>4. ASSUME NEW m \in Msg, HandleEvmToCosmosEvent(m) PROVE TypeOK'
    BY <2>4, <2>ok DEF HandleEvmToCosmosEvent
  <2>5. ASSUME NEW m \in Msg, ConfirmFails(m) PROVE TypeOK'
    BY <2>5, <2>ok DEF ConfirmFails
  <2>6. ASSUME NEW m \in Msg, ParseContractCallApproved(m) PROVE TypeOK'
    BY <2>6, <2>ok DEF ParseContractCallApproved
  <2>7. ASSUME NEW m \in Msg, GetPendingCommands(m) PROVE TypeOK'
    BY <2>7, <2>ok DEF GetPendingCommands
  <2>8. ASSUME NEW m \in Msg, SignCommands(m) PROVE TypeOK'
    BY <2>8, <2>ok, SMTT(60) DEF SignCommands, Pending
  <2>9. ASSUME NEW m \in Msg, SignFails(m) PROVE TypeOK'
    BY <2>9, <2>ok, <2>calls DEF SignFails, Pending
  <2>10. ASSUME NEW m \in Msg, GetExecuteData(m) PROVE TypeOK'
    <3>1. Sound
      BY <2>10, <2>ok, <2>calls DEF GetExecuteData
    <3>. QED
      BY <2>10, <3>1 DEF GetExecuteData
  <2>11. ASSUME NEW m \in Msg, GatewayExecute(m) PROVE TypeOK'
    BY <2>11, <2>ok, <2>calls DEF GatewayExecute, GatewayRuns
  <2>12. ASSUME NEW m \in Msg, GatewayExecuteFails(m) PROVE TypeOK'
    BY <2>12, <2>ok, <2>calls DEF GatewayExecuteFails, GatewayRuns
  <2>13. ASSUME NEW m \in Msg, UpdateCosmosToEvmEvent(m) PROVE TypeOK'
    BY <2>13, <2>ok DEF UpdateCosmosToEvmEvent
  <2>14. ASSUME NEW m \in Msg, FindCosmosToEvmCallContractApproved(m) PROVE TypeOK'
    BY <2>14, <2>ok DEF FindCosmosToEvmCallContractApproved, SamePayload
  <2>15. ASSUME NEW m \in Msg, IsCallContractExecuted(m) PROVE TypeOK'
    <3>1. CASE gw[m] # "approved"
      <4>. PICK r \in rows[m] : Concludes(m, r, "success")
        BY <2>15, <3>1, <2>ok, <2>calls DEF IsCallContractExecuted
      <4>1. r \in Msg /\ <<r, "success">> \in Msg \X Statuses
        OBVIOUS
      <4>2. rows' \in [Msg -> SUBSET Msg] /\ exec' \in [Msg -> ExecPc]
        BY DEF Concludes
      <4>3. res' \in [Msg -> SUBSET (Msg \X Statuses)]
        BY <4>1 DEF Concludes
      <4>. QED
        BY <2>15, <2>ok, <3>1, <4>2, <4>3 DEF IsCallContractExecuted
    <3>2. CASE gw[m] = "approved"
      <4>1. Sound
        BY <2>15, <3>2, <2>calls DEF IsCallContractExecuted
      <4>. QED
        BY <2>15, <3>2, <4>1 DEF IsCallContractExecuted
    <3>. QED
      BY <3>1, <3>2
  <2>16. ASSUME NEW m \in Msg, Execute(m) PROVE TypeOK'
    BY <2>16, <2>ok, <2>calls DEF Execute, Concludes
  <2>17. ASSUME NEW m \in Msg, ExecuteFails(m) PROVE TypeOK'
    BY <2>17, <2>ok, <2>calls DEF ExecuteFails, Concludes
  <2>18. ASSUME NEW m \in Msg, UpdateEventStatus(m) PROVE TypeOK'
    BY <2>18, <2>ok DEF UpdateEventStatus
  <2>19. ASSUME NEW m \in Msg, ParseEvmEventCompleted(m) PROVE TypeOK'
    BY <2>19, <2>ok DEF ParseEvmEventCompleted
  <2>20. ASSUME NEW m \in Msg, HandleEvmToCosmosConfirmEvent(m) PROVE TypeOK'
    BY <2>20, <2>ok, SMTT(60) DEF HandleEvmToCosmosConfirmEvent, Judges
  <2>21. ASSUME NEW m \in Msg, AlreadyExecuted(m) \/ CoreRefuses(m) PROVE TypeOK'
    BY <2>21, <2>ok DEF AlreadyExecuted, CoreRefuses, Judges
  <2>22. ASSUME NEW m \in Msg, RouteFails(m) PROVE TypeOK'
    BY <2>22, <2>ok, <2>calls DEF RouteFails, Judges
  <2>23. ASSUME NEW m \in Msg, UpdateEventStatusWithPacketSequence(m) PROVE TypeOK'
    BY <2>23, <2>ok DEF UpdateEventStatusWithPacketSequence
  <2>24. ASSUME NEW m \in Msg, SeeContractCall(m) PROVE TypeOK'
    BY <2>24, <2>ok DEF SeeContractCall
  <2>25. ASSUME NEW m \in Msg, CoreApproves(m) PROVE TypeOK'
    BY <2>25, <2>ok DEF CoreApproves, QueuesBlock, Frame
  <2>26. ASSUME NEW m \in Msg, CoreCompletes(m) PROVE TypeOK'
    BY <2>26, <2>ok DEF CoreCompletes, Frame
  <2>27. ASSUME NEW m \in Msg, OtherRoutes(m) PROVE TypeOK'
    BY <2>27, <2>ok DEF OtherRoutes
  <2>28. ASSUME NEW m \in Msg, OtherSigns(m) PROVE TypeOK'
    BY <2>28, <2>ok DEF OtherSigns, Pending
  <2>29. ASSUME NEW m \in Msg, OtherApproves(m) PROVE TypeOK'
    BY <2>29, <2>ok DEF OtherApproves
  <2>30. ASSUME NEW m \in Msg, OtherExecutes(m) PROVE TypeOK'
    BY <2>30, <2>ok DEF OtherExecutes
  <2>31. ASSUME NEW m \in Msg, Reorg(m) PROVE TypeOK'
    BY <2>31, <2>ok DEF Reorg
  <2>32. ASSUME NEW m \in Msg, HandlerFails(m) PROVE TypeOK'
    <3>ok. Sound
      BY <2>ok, <2>32 DEF HandlerFails
    <3>1. CASE call' = [call EXCEPT ![m] = "dead"]
      BY <2>32, <3>1, <3>ok, SMTT(60) DEF HandlerFails
    <3>2. CASE appr' = [appr EXCEPT ![m] = "dead"]
      BY <2>32, <3>2, <3>ok, SMTT(60) DEF HandlerFails
    <3>3. CASE exec' = [exec EXCEPT ![m] = "dead"]
      BY <2>32, <3>3, <3>ok, SMTT(60) DEF HandlerFails
    <3>4. CASE done' = [done EXCEPT ![m] = "dead"]
      BY <2>32, <3>4, <3>ok, SMTT(60) DEF HandlerFails
    <3>. QED
      BY <2>32, <3>1, <3>2, <3>3, <3>4 DEF HandlerFails
  <2>33. CASE Crash
    BY <2>33, <2>ok DEF Crash, Killed
  <2>. QED
    BY <2>1, <2>2, <2>3, <2>4, <2>5, <2>6, <2>7, <2>8, <2>9, <2>10, <2>11, <2>12,
       <2>13, <2>14, <2>15, <2>16, <2>17, <2>18, <2>19, <2>20, <2>21, <2>22, <2>23,
       <2>24, <2>25, <2>26, <2>27, <2>28, <2>29, <2>30, <2>31, <2>32, <2>33
       DEF Next, CallStep, ApprStep, ExecStep, DoneStep, Environment
<1>. QED
  BY <1>1, <1>2, PTL DEF Spec

-----------------------------------------------------------------------------
(* SUCCESS is earned.  What a handler knows when it writes SUCCESS it learned  *)
(* several steps earlier: the gateway handler runs for commands the gateway    *)
(* has approved, it works only on rows of its own payload, and the updates it  *)
(* has prepared as SUCCESS are those of a consumed approval.                   *)

RunsApproved ==
  \A m \in Msg : exec[m] \in {"find", "check", "execute"} => gw[m] # "none"
OwnPayload ==
  \A m \in Msg : \A r \in rows[m] : SamePayload(r, m)
PreparedIsEarned ==
  \A m \in Msg : \A u \in res[m] :
    SamePayload(u[1], m) /\ (u[2] = "success" => gw[m] = "consumed")
VerdictIsEarned ==
  \A m \in Msg : verdict[m] = "success" => m \in routed

EarnedInv ==
  /\ RunsApproved
  /\ OwnPayload
  /\ PreparedIsEarned
  /\ VerdictIsEarned
  /\ SuccessMeansExecuted

\* What the writers of SUCCESS know stays true until they write.
LEMMA EarnedInvariant ==
  ASSUME ~Reorgs PROVE Spec => []EarnedInv
<1>. USE DEF dbVars, callVars, apprVars, execVars, doneVars, envVars, callsVars
<1>1. Init => EarnedInv
  BY DEF Init, EarnedInv, RunsApproved, OwnPayload, PreparedIsEarned, VerdictIsEarned,
         SuccessMeansExecuted
<1>2. TypeOK /\ EarnedInv /\ [Next]_vars => EarnedInv'
  <2>. SUFFICES ASSUME TypeOK, EarnedInv, [Next]_vars PROVE EarnedInv'
    OBVIOUS
  <2>. USE ConstantsAssumption
       DEF TypeOK, EarnedInv, RunsApproved, OwnPayload, PreparedIsEarned, VerdictIsEarned,
           SuccessMeansExecuted, IsExecuted, SamePayload
  <2>1. CASE UNCHANGED <<status, gw, exec, rows, res, verdict, routed>>
    BY <2>1
  <2>2. ASSUME NEW m \in Msg, CreateEvmCallContractEvent(m) PROVE EarnedInv'
    BY <2>2 DEF CreateEvmCallContractEvent, Creatable, Ok
  <2>3. ASSUME NEW m \in Msg, GatewayExecute(m) PROVE EarnedInv'
    BY <2>3 DEF GatewayExecute, GatewayRuns, Returns, Fault
  <2>4. ASSUME NEW m \in Msg, GatewayExecuteFails(m) PROVE EarnedInv'
    BY <2>4 DEF GatewayExecuteFails, GatewayRuns, Outbid, Fault
  <2>5. ASSUME NEW m \in Msg, UpdateCosmosToEvmEvent(m) PROVE EarnedInv'
    BY <2>5 DEF UpdateCosmosToEvmEvent, Ok
  <2>6. ASSUME NEW m \in Msg, FindCosmosToEvmCallContractApproved(m) PROVE EarnedInv'
    BY <2>6 DEF FindCosmosToEvmCallContractApproved, Ok, SamePayload
  <2>7. ASSUME NEW m \in Msg, IsCallContractExecuted(m) PROVE EarnedInv'
    <3>1. CASE gw[m] # "approved"
      <4>1. PICK r \in rows[m] : Concludes(m, r, "success")
        BY <2>7, <3>1 DEF IsCallContractExecuted
      <4>2. gw[m] = "consumed" /\ UNCHANGED <<status, gw, routed, verdict>>
        BY <2>7, <3>1 DEF IsCallContractExecuted, GwState
      <4>3. RunsApproved' /\ OwnPayload'
        BY <4>1, <4>2, <2>7 DEF Concludes, IsCallContractExecuted
      <4>4. PreparedIsEarned'
        BY <4>1, <4>2 DEF Concludes
      <4>. QED
        BY <4>2, <4>3, <4>4
    <3>2. CASE gw[m] = "approved"
      BY <2>7, <3>2 DEF IsCallContractExecuted
    <3>. QED
      BY <3>1, <3>2
  <2>8. ASSUME NEW m \in Msg, Execute(m) PROVE EarnedInv'
    BY <2>8 DEF Execute, Concludes, Returns
  <2>9. ASSUME NEW m \in Msg, ExecuteFails(m) PROVE EarnedInv'
    BY <2>9 DEF ExecuteFails, Concludes, Outbid, Fault
  <2>10. ASSUME NEW m \in Msg, UpdateEventStatus(m) PROVE EarnedInv'
    BY <2>10 DEF UpdateEventStatus, Ok
  <2>11. ASSUME NEW m \in Msg, HandleEvmToCosmosConfirmEvent(m) PROVE EarnedInv'
    BY <2>11 DEF HandleEvmToCosmosConfirmEvent, Judges, Ok
  <2>12. ASSUME NEW m \in Msg, AlreadyExecuted(m) \/ CoreRefuses(m) PROVE EarnedInv'
    BY <2>12 DEF AlreadyExecuted, CoreRefuses, Judges, Ok
  <2>13. ASSUME NEW m \in Msg, RouteFails(m) PROVE EarnedInv'
    BY <2>13 DEF RouteFails, Judges, Outbid, Fault
  <2>14. ASSUME NEW m \in Msg, UpdateEventStatusWithPacketSequence(m) PROVE EarnedInv'
    BY <2>14 DEF UpdateEventStatusWithPacketSequence, Ok
  <2>15. ASSUME NEW m \in Msg, OtherRoutes(m) PROVE EarnedInv'
    BY <2>15 DEF OtherRoutes, Ok
  <2>16. ASSUME NEW m \in Msg, OtherApproves(m) PROVE EarnedInv'
    BY <2>16 DEF OtherApproves, Ok
  <2>17. ASSUME NEW m \in Msg, OtherExecutes(m) PROVE EarnedInv'
    BY <2>17 DEF OtherExecutes, Ok
  <2>18. ASSUME NEW m \in Msg, Reorg(m) PROVE EarnedInv'
    BY <2>18 DEF Reorg, Fault
  <2>19. ASSUME NEW m \in Msg, HandlerFails(m) PROVE EarnedInv'
    BY <2>19 DEF HandlerFails, Fault
  <2>20. CASE Crash
    BY <2>20 DEF Crash, Killed, ExecPc
  <2>21. ASSUME NEW m \in Msg,
            \/ WaitForFinality(m)
            \/ HandleEvmToCosmosEvent(m)
            \/ ConfirmFails(m)
            \/ ParseContractCallApproved(m)
            \/ GetPendingCommands(m)
            \/ SignCommands(m)
            \/ SignFails(m)
            \/ GetExecuteData(m)
            \/ ParseEvmEventCompleted(m)
            \/ SeeContractCall(m)
            \/ CoreApproves(m)
            \/ CoreCompletes(m)
            \/ OtherSigns(m)
         PROVE EarnedInv'
    BY <2>1, <2>21 DEF WaitForFinality, HandleEvmToCosmosEvent, ConfirmFails,
       ParseContractCallApproved, GetPendingCommands, SignCommands, SignFails,
       GetExecuteData, ParseEvmEventCompleted, SeeContractCall, CoreApproves,
       CoreCompletes, OtherSigns
  <2>22. CASE UNCHANGED vars
    BY <2>1, <2>22 DEF vars
  <2>. QED
    BY <2>2, <2>3, <2>4, <2>5, <2>6, <2>7, <2>8, <2>9, <2>10, <2>11, <2>12, <2>13,
       <2>14, <2>15, <2>16, <2>17, <2>18, <2>19, <2>20, <2>21, <2>22
       DEF Next, CallStep, ApprStep, ExecStep, DoneStep, Environment
<1>. QED
  BY <1>1, <1>2, TypeCorrect, PTL DEF Spec

\* Unless the destination chain reorganises, a SUCCESS row had its payload
\* executed by the dApp or its message by the core.
THEOREM SuccessEarned ==
  ASSUME ~Reorgs PROVE Spec => []SuccessMeansExecuted
<1>. QED
  BY EarnedInvariant, PTL DEF EarnedInv

-----------------------------------------------------------------------------
(* What was once true of a message: signed, executed, or met by something that  *)
(* may fail it.                                                                *)

Signed == {m \in Msg : core[m] = "batched"}
Executed == {m \in Msg : IsExecuted(m)}
Excused == {m \in Msg : Cause(m)}

\* What is true of a message remains so: no step of anybody undoes it.
LEMMA TruthsRemain ==
  TypeOK /\ [Next]_vars =>
    /\ Signed \subseteq Signed' /\ Executed \subseteq Executed' /\ Excused \subseteq Excused'
    /\ outbid \subseteq outbid'
<1>. SUFFICES ASSUME TypeOK, [Next]_vars
              PROVE /\ Signed \subseteq Signed' /\ Executed \subseteq Executed'
                    /\ Excused \subseteq Excused' /\ outbid \subseteq outbid'
  OBVIOUS
<1>. USE ConstantsAssumption DEF TypeOK, dbVars, callVars, apprVars, execVars, doneVars, envVars, callsVars
<1>. DEFINE Grows == outbid \subseteq outbid' /\ (faults > 0 => faults' > 0)
<1>. DEFINE Remain == /\ \A m \in Msg : core[m] = "batched" => core'[m] = "batched"
                      /\ \A m \in Msg : gw[m] = "consumed" => gw'[m] = "consumed"
                      /\ routed \subseteq routed' /\ refused \subseteq refused'
                      /\ foreign \subseteq foreign' /\ Grows
<1>1. /\ Ok \/ Fault => Grows
      /\ \A kind, m : Starts(kind, m) \/ Returns(kind, m) \/ Outbid(kind, m) => Grows
  BY DEF Fault, Ok, Starts, Returns, Outbid
<1>. HIDE DEF Grows
<1>2. ASSUME NEW m \in Msg, CallStep(m) PROVE Remain
  BY <1>1, <1>2 DEF CallStep, CreateEvmCallContractEvent, WaitForFinality,
     HandleEvmToCosmosEvent, ConfirmFails
<1>3. ASSUME NEW m \in Msg,
         \/ ParseContractCallApproved(m) \/ GetPendingCommands(m) \/ SignCommands(m)
         \/ SignFails(m) \/ GetExecuteData(m) \/ UpdateCosmosToEvmEvent(m)
      PROVE Remain
  BY <1>1, <1>3 DEF ParseContractCallApproved, GetPendingCommands, SignCommands,
     SignFails, GetExecuteData, UpdateCosmosToEvmEvent, Pending
<1>4. ASSUME NEW m \in Msg, GatewayExecute(m) \/ GatewayExecuteFails(m) PROVE Remain
  BY <1>1, <1>4 DEF GatewayExecute, GatewayExecuteFails, GatewayRuns
<1>5. ASSUME NEW m \in Msg, ExecStep(m) PROVE Remain
  BY <1>1, <1>5 DEF ExecStep, FindCosmosToEvmCallContractApproved, IsCallContractExecuted,
     Execute, ExecuteFails, UpdateEventStatus
<1>6. ASSUME NEW m \in Msg, DoneStep(m) PROVE Remain
  BY <1>1, <1>6 DEF DoneStep, ParseEvmEventCompleted, HandleEvmToCosmosConfirmEvent,
     CoreRefuses, AlreadyExecuted, RouteFails, UpdateEventStatusWithPacketSequence
<1>7. ASSUME NEW m \in Msg, CoreApproves(m) PROVE Remain
  BY <1>1, <1>7 DEF CoreApproves, QueuesBlock
<1>8. ASSUME NEW m \in Msg, Environment(m), ~CoreApproves(m) PROVE Remain
  BY <1>1, <1>8 DEF Environment, SeeContractCall, CoreCompletes, OtherRoutes, OtherSigns,
     OtherApproves, OtherExecutes, Reorg, HandlerFails, Pending
<1>9. ASSUME Crash PROVE Remain
  BY <1>1, <1>9 DEF Crash
<1>10. ASSUME UNCHANGED vars PROVE Remain
  BY <1>1, <1>10 DEF vars, Ok
<1>11. Remain
  BY <1>2, <1>3, <1>4, <1>5, <1>6, <1>7, <1>8, <1>9, <1>10 DEF Next, ApprStep
<1>. QED
  BY <1>11 DEF Grows, Signed, Executed, Excused, IsExecuted, Cause, GaveUp

-----------------------------------------------------------------------------
(* FAILED has a cause.  Between the check and the dApp call the approval can    *)
(* disappear only by a fault or by another relayer's call, and what is written  *)
(* later as FAILED already had its cause when it was prepared.                  *)

CallHolds ==
  \A m \in Msg : exec[m] = "execute" => gw[m] = "approved" \/ faults > 0 \/ m \in foreign
PreparedHasCause ==
  \A m \in Msg : \A u \in res[m] : u[2] = "failed" => Cause(u[1])
VerdictHasCause ==
  \A m \in Msg : done[m] = "update" /\ verdict[m] = "failed" => Cause(m)

CauseInv ==
  /\ OwnPayload
  /\ CallHolds
  /\ PreparedHasCause
  /\ VerdictHasCause
  /\ FailedHasCause

\* What the writers of FAILED have met stays the cause until they write.
LEMMA CauseInvariant == Spec => []CauseInv
<1>. USE DEF dbVars, callVars, apprVars, execVars, doneVars, envVars, callsVars
<1>1. Init => CauseInv
  BY DEF Init, CauseInv, OwnPayload, CallHolds, PreparedHasCause, VerdictHasCause,
         FailedHasCause
<1>2. TypeOK /\ CauseInv /\ [Next]_vars => CauseInv'
  <2>. SUFFICES ASSUME TypeOK, CauseInv, [Next]_vars PROVE CauseInv'
    OBVIOUS
  <2>. USE ConstantsAssumption
       DEF TypeOK, CauseInv, OwnPayload, CallHolds, PreparedHasCause, VerdictHasCause,
           FailedHasCause, SamePayload
  <2>c. \A r \in Msg : Cause(r) => Cause(r)'
    BY TruthsRemain DEF Excused
  <2>f. Fault => \A r \in Msg : Cause(r)'
    BY DEF Fault, Cause
  <2>g. faults > 0 => faults' > 0 \/ ~(Ok \/ Fault)
    BY DEF Ok, Fault
  <2>e. ASSUME NEW m \in Msg, NEW r \in Msg, SamePayload(r, m), faults > 0 \/ m \in foreign
        PROVE  Cause(r)
    BY <2>e DEF Cause
  <2>1. CASE UNCHANGED <<status, gw, exec, rows, res, done, verdict, routed, refused,
                      foreign, faults>>
    BY <2>1, <2>c
  <2>2. ASSUME NEW m \in Msg, ConfirmFails(m) PROVE CauseInv'
    BY <2>1, <2>2 DEF ConfirmFails, Ok
  <2>3. ASSUME NEW m \in Msg, CreateEvmCallContractEvent(m) PROVE CauseInv'
    BY <2>c, <2>3 DEF CreateEvmCallContractEvent, Creatable, Ok
  <2>4. ASSUME NEW m \in Msg, SignFails(m) PROVE CauseInv'
    BY <2>c, <2>4 DEF SignFails, Outbid, Fault
  <2>5. ASSUME NEW m \in Msg, GetExecuteData(m) PROVE CauseInv'
    BY <2>c, <2>5 DEF GetExecuteData, Starts, Fault
  <2>6. ASSUME NEW m \in Msg, CoreApproves(m) PROVE CauseInv'
    BY <2>c, <2>6 DEF CoreApproves, QueuesBlock, Frame, Ok, Fault
  <2>7. ASSUME NEW m \in Msg, CoreCompletes(m) PROVE CauseInv'
    BY <2>c, <2>7 DEF CoreCompletes, Frame, Ok, Fault
  <2>8. ASSUME NEW m \in Msg, GatewayExecute(m) PROVE CauseInv'
    BY <2>c, <2>8 DEF GatewayExecute, GatewayRuns, Returns, Fault
  <2>9. ASSUME NEW m \in Msg, GatewayExecuteFails(m) PROVE CauseInv'
    BY <2>c, <2>9 DEF GatewayExecuteFails, GatewayRuns, Outbid, Fault
  <2>10. ASSUME NEW m \in Msg, UpdateCosmosToEvmEvent(m) PROVE CauseInv'
    BY <2>c, <2>10 DEF UpdateCosmosToEvmEvent, Ok
  <2>11. ASSUME NEW m \in Msg, FindCosmosToEvmCallContractApproved(m) PROVE CauseInv'
    BY <2>c, <2>11 DEF FindCosmosToEvmCallContractApproved, Ok
  <2>12. ASSUME NEW m \in Msg, IsCallContractExecuted(m) PROVE CauseInv'
    <3>1. CASE gw[m] # "approved"
      <4>. PICK r \in rows[m] : Concludes(m, r, "success")
        BY <2>12, <3>1 DEF IsCallContractExecuted
      <4>1. UNCHANGED <<status, gw, done, verdict, routed, refused, foreign, outbid, faults>>
        BY <2>12 DEF IsCallContractExecuted, Starts, Ok
      <4>2. OwnPayload' /\ CallHolds'
        BY <2>c, <4>1 DEF Concludes
      <4>3. PreparedHasCause'
        BY <2>c, <4>1 DEF Concludes
      <4>. QED
        BY <2>c, <4>1, <4>2, <4>3
    <3>2. CASE gw[m] = "approved"
      BY <2>c, <2>12, <3>2 DEF IsCallContractExecuted, Starts, Ok
    <3>. QED
      BY <3>1, <3>2
  <2>13. ASSUME NEW m \in Msg, Execute(m) PROVE CauseInv'
    <3>1. PICK r \in rows[m] :
            Concludes(m, r, IF gw[m] = "approved" THEN "success" ELSE "failed")
      BY <2>13 DEF Execute
    <3>2. /\ UNCHANGED <<status, done, verdict, foreign, faults>>
          /\ \A a \in Msg \ {m} : gw'[a] = gw[a]
      BY <2>13 DEF Execute, Returns
    <3>3. gw[m] # "approved" => Cause(r)
      BY <2>e, <2>13 DEF Execute
    <3>4. OwnPayload' /\ CallHolds'
      BY <3>1, <3>2 DEF Concludes
    <3>5. PreparedHasCause'
      BY <2>c, <3>1, <3>3 DEF Concludes
    <3>. QED
      BY <2>c, <3>2, <3>4, <3>5
  <2>14. ASSUME NEW m \in Msg, ExecuteFails(m) PROVE CauseInv'
    <3>1. PICK r \in rows[m] : Concludes(m, r, "failed")
      BY <2>14 DEF ExecuteFails
    <3>2. Outbid("execute", m) \/ Fault
      BY <2>14 DEF ExecuteFails
    <3>3. Cause(r)'
      <4>1. CASE Outbid("execute", m)
        <5>1. GaveUp("execute", m)'
          BY <4>1 DEF Outbid, GaveUp
        <5>. QED
          BY <5>1 DEF Cause
      <4>. QED
        BY <2>f, <3>2, <4>1
    <3>4. /\ UNCHANGED <<status, done, verdict, foreign>>
          /\ \A a \in Msg \ {m} : gw'[a] = gw[a]
          /\ faults > 0 => faults' > 0
      BY <2>14, <3>2 DEF ExecuteFails, Outbid, Fault
    <3>5. OwnPayload' /\ CallHolds'
      BY <3>1, <3>4 DEF Concludes
    <3>6. PreparedHasCause'
      BY <2>c, <3>1, <3>3 DEF Concludes
    <3>. QED
      BY <2>c, <3>4, <3>5, <3>6
  <2>15. ASSUME NEW m \in Msg, UpdateEventStatus(m) PROVE CauseInv'
    BY <2>c, <2>15 DEF UpdateEventStatus, Ok
  <2>16. ASSUME NEW m \in Msg, ParseEvmEventCompleted(m) PROVE CauseInv'
    BY <2>c, <2>16 DEF ParseEvmEventCompleted, Ok
  <2>17. ASSUME NEW m \in Msg, HandleEvmToCosmosConfirmEvent(m) PROVE CauseInv'
    BY <2>c, <2>17 DEF HandleEvmToCosmosConfirmEvent, Judges, Ok
  <2>18. ASSUME NEW m \in Msg, NEW s, Judges(m, s), s = "failed" => Cause(m)',
                UNCHANGED <<status, gw, exec, rows, res, foreign>>,
                faults > 0 => faults' > 0
         PROVE  CauseInv'
    BY <2>c, <2>18 DEF Judges
  <2>19. ASSUME NEW m \in Msg, AlreadyExecuted(m) \/ CoreRefuses(m) \/ RouteFails(m)
         PROVE  CauseInv'
    <3>1. Cause(m)'
      <4>1. CASE AlreadyExecuted(m) \/ CoreRefuses(m)
        BY <4>1 DEF AlreadyExecuted, CoreRefuses, Cause
      <4>2. CASE Outbid("route", m)
        <5>1. GaveUp("route", m)'
          BY <4>2 DEF Outbid, GaveUp
        <5>. QED
          BY <5>1 DEF Cause
      <4>. QED
        BY <2>f, <2>19, <4>1, <4>2 DEF RouteFails
    <3>2. CASE CoreRefuses(m) /\ ~Judges(m, "failed")
      BY <2>c, <3>2 DEF CoreRefuses, Ok
    <3>3. CASE AlreadyExecuted(m)
      <4>1. PICK s \in {"success", "failed"} : Judges(m, s)
        BY <3>3 DEF AlreadyExecuted
      <4>. QED
        BY <2>18, <3>1, <3>3, <4>1 DEF AlreadyExecuted, Ok
    <3>4. CASE RouteFails(m)
      <4>1. faults > 0 => faults' > 0
        BY <3>4 DEF RouteFails, Outbid, Fault
      <4>. QED
        BY <2>18, <3>1, <3>4, <4>1 DEF RouteFails
    <3>. QED
      BY <2>18, <2>19, <3>1, <3>2, <3>3, <3>4 DEF CoreRefuses, Ok
  <2>20. ASSUME NEW m \in Msg, UpdateEventStatusWithPacketSequence(m) PROVE CauseInv'
    <3>1. CASE status' = [status EXCEPT ![m] = verdict[m]]
      BY <2>c, <2>20, <3>1 DEF UpdateEventStatusWithPacketSequence, Ok
    <3>2. CASE UNCHANGED status
      BY <2>c, <2>20, <3>2 DEF UpdateEventStatusWithPacketSequence, Ok
    <3>. QED
      BY <2>c, <2>20, <3>1, <3>2 DEF UpdateEventStatusWithPacketSequence
  <2>21. ASSUME NEW m \in Msg, OtherRoutes(m) PROVE CauseInv'
    BY <2>c, <2>21 DEF OtherRoutes, Ok
  <2>22. ASSUME NEW m \in Msg, OtherApproves(m) PROVE CauseInv'
    BY <2>c, <2>22 DEF OtherApproves, Ok
  <2>23. ASSUME NEW m \in Msg, OtherExecutes(m) PROVE CauseInv'
    BY <2>c, <2>23 DEF OtherExecutes, Ok
  <2>24. ASSUME NEW m \in Msg, Reorg(m) PROVE CauseInv'
    BY <2>c, <2>24 DEF Reorg, Fault
  <2>25. ASSUME NEW m \in Msg, HandlerFails(m) PROVE CauseInv'
    BY <2>c, <2>25 DEF HandlerFails, Fault
  <2>26. CASE Crash
    BY <2>c, <2>26 DEF Crash, Killed, Fault
  <2>27. ASSUME NEW m \in Msg,
            \/ WaitForFinality(m) \/ HandleEvmToCosmosEvent(m)
            \/ ParseContractCallApproved(m) \/ GetPendingCommands(m) \/ SignCommands(m)
            \/ SeeContractCall(m) \/ OtherSigns(m)
         PROVE CauseInv'
    BY <2>1, <2>27 DEF WaitForFinality, HandleEvmToCosmosEvent,
       ParseContractCallApproved, GetPendingCommands, SignCommands, SeeContractCall,
       OtherSigns, Ok
  <2>28. CASE UNCHANGED vars
    BY <2>1, <2>28 DEF vars
  <2>. QED
    BY <2>2, <2>3, <2>4, <2>5, <2>6, <2>7, <2>8, <2>9, <2>10, <2>11, <2>12, <2>13,
       <2>14, <2>15, <2>16, <2>17, <2>18, <2>19, <2>20, <2>21, <2>22, <2>23, <2>24, <2>25,
       <2>26, <2>27, <2>28
       DEF Next, CallStep, ApprStep, ExecStep, DoneStep, Environment
<1>. QED
  BY <1>1, <1>2, TypeCorrect, PTL DEF Spec

\* A row is FAILED only after a fault, an execution or a refusal at the core, another
\* relayer's dApp call of the same payload, or a call given up to other calls of the same
\* wallet or account: in no other way do the handlers fail one another.
THEOREM FailureExplained == Spec => []FailedHasCause
<1>. QED
  BY CauseInvariant, PTL DEF CauseInv

-----------------------------------------------------------------------------
(* No command is stranded while nothing fails.  Reading the pending commands   *)
(* and signing them are two steps, and any other handler may sign in between;  *)
(* the pair of ownership conditions is inductive, because who signs takes over *)
(* exactly what was pending.                                                   *)

\* No handler runs for a message the core has not announced.
AnnouncedFirst ==
  \A m \in Msg : core[m] \in {"none", "confirmed"} => appr[m] = "none"

\* The core's announcement comes before its handler, in every behaviour.
LEMMA Announced == Spec => []AnnouncedFirst
<1>. USE DEF dbVars, callVars, apprVars, execVars, doneVars, envVars, callsVars
<1>1. Init => AnnouncedFirst
  BY DEF Init, AnnouncedFirst
<1>2. TypeOK /\ AnnouncedFirst /\ [Next]_vars => AnnouncedFirst'
  <2>. SUFFICES ASSUME TypeOK, AnnouncedFirst, [Next]_vars PROVE AnnouncedFirst'
    OBVIOUS
  <2>. USE ConstantsAssumption DEF TypeOK, AnnouncedFirst
  <2>1. CASE UNCHANGED <<core, appr>>
    BY <2>1
  <2>2. ASSUME NEW m \in Msg, HandleEvmToCosmosEvent(m) PROVE AnnouncedFirst'
    BY <2>2 DEF HandleEvmToCosmosEvent, Ok
  <2>3. ASSUME NEW m \in Msg, CoreApproves(m) PROVE AnnouncedFirst'
    BY <2>3 DEF CoreApproves, QueuesBlock, Frame, Ok, Fault
  <2>4. ASSUME NEW m \in Msg, ParseContractCallApproved(m) PROVE AnnouncedFirst'
    BY <2>4 DEF ParseContractCallApproved, Ok
  <2>5. ASSUME NEW m \in Msg, GetPendingCommands(m) PROVE AnnouncedFirst'
    BY <2>5 DEF GetPendingCommands, Ok
  <2>6. ASSUME NEW m \in Msg, SignCommands(m) PROVE AnnouncedFirst'
    BY <2>6 DEF SignCommands, Ok, Pending
  <2>7. ASSUME NEW m \in Msg, SignFails(m) PROVE AnnouncedFirst'
    BY <2>7 DEF SignFails, Outbid, Fault, Pending
  <2>8. ASSUME NEW m \in Msg, GetExecuteData(m) PROVE AnnouncedFirst'
    BY <2>8 DEF GetExecuteData, Starts, Fault
  <2>9. ASSUME NEW m \in Msg, GatewayExecute(m) PROVE AnnouncedFirst'
    BY <2>9 DEF GatewayExecute, GatewayRuns, Returns, Fault
  <2>10. ASSUME NEW m \in Msg, GatewayExecuteFails(m) PROVE AnnouncedFirst'
    BY <2>10 DEF GatewayExecuteFails, GatewayRuns, Outbid, Fault
  <2>11. ASSUME NEW m \in Msg, UpdateCosmosToEvmEvent(m) PROVE AnnouncedFirst'
    BY <2>11 DEF UpdateCosmosToEvmEvent, Ok
  <2>12. ASSUME NEW m \in Msg, OtherSigns(m) PROVE AnnouncedFirst'
    BY <2>12 DEF OtherSigns, Ok, Pending
  <2>13. ASSUME NEW m \in Msg, HandlerFails(m) PROVE AnnouncedFirst'
    BY <2>13 DEF HandlerFails, Fault
  <2>14. CASE Crash
    BY <2>14 DEF Crash, Killed
  <2>15. ASSUME NEW m \in Msg,
            \/ CreateEvmCallContractEvent(m) \/ WaitForFinality(m) \/ ConfirmFails(m)
            \/ FindCosmosToEvmCallContractApproved(m) \/ IsCallContractExecuted(m)
            \/ Execute(m)
            \/ ExecuteFails(m) \/ UpdateEventStatus(m) \/ ParseEvmEventCompleted(m)
            \/ HandleEvmToCosmosConfirmEvent(m) \/ CoreRefuses(m)
            \/ AlreadyExecuted(m) \/ RouteFails(m)
            \/ UpdateEventStatusWithPacketSequence(m) \/ SeeContractCall(m)
            \/ CoreCompletes(m)
            \/ OtherRoutes(m) \/ OtherApproves(m) \/ OtherExecutes(m)
            \/ Reorg(m)
         PROVE AnnouncedFirst'
    BY <2>1, <2>15 DEF CreateEvmCallContractEvent, WaitForFinality, ConfirmFails,
           FindCosmosToEvmCallContractApproved, IsCallContractExecuted,
           Execute, ExecuteFails, UpdateEventStatus,
           ParseEvmEventCompleted, HandleEvmToCosmosConfirmEvent,
           CoreRefuses, AlreadyExecuted, RouteFails,
           UpdateEventStatusWithPacketSequence, SeeContractCall,
           CoreCompletes, OtherRoutes, OtherApproves, OtherExecutes,
           Reorg
  <2>16. CASE UNCHANGED vars
    BY <2>1, <2>16 DEF vars
  <2>. QED
    BY <2>1, <2>2, <2>3, <2>4, <2>5, <2>6, <2>7, <2>8, <2>9, <2>10, <2>11, <2>12,
       <2>13, <2>14, <2>15, <2>16
       DEF Next, CallStep, ApprStep, ExecStep, DoneStep, Environment
<1>. QED
  BY <1>1, <1>2, TypeCorrect, PTL DEF Spec

\* A handler whose gateway call gave up is finished with its batch.
GaveUpLast ==
  \A m \in Msg : GaveUp("gateway", m) => appr[m] \in {"done", "dead"}

\* No handler of a message runs twice, so none signs again after it gave up.
LEMMA GivenUpForGood == Spec => []GaveUpLast
<1>. USE DEF dbVars, callVars, apprVars, execVars, doneVars, envVars, callsVars
<1>1. Init => GaveUpLast
  BY DEF Init, GaveUpLast, GaveUp
<1>2. TypeOK /\ AnnouncedFirst /\ GaveUpLast /\ [Next]_vars => GaveUpLast'
  <2>. SUFFICES ASSUME TypeOK, AnnouncedFirst, GaveUpLast, [Next]_vars, NEW a \in Msg
                PROVE (GaveUp("gateway", a) => appr[a] \in {"done", "dead"})'
    BY DEF GaveUpLast
  <2>. USE ConstantsAssumption DEF TypeOK
  <2>. DEFINE Goal == (GaveUp("gateway", a) => appr[a] \in {"done", "dead"})'
  <2>h. GaveUp("gateway", a) => appr[a] \in {"done", "dead"}
    BY DEF GaveUpLast
  <2>k. \/ Ok \/ Fault
        \/ \E m \in Msg :
             \/ Starts("gateway", m) \/ Starts("execute", m)
             \/ Returns("gateway", m) \/ Returns("execute", m)
             \/ Outbid("sign", m) \/ Outbid("execute", m) \/ Outbid("route", m)
             \/ (m # a /\ Outbid("gateway", m))
        => GaveUp("gateway", a)' = GaveUp("gateway", a)
    <3>1. ASSUME outbid' = outbid PROVE GaveUp("gateway", a)' = GaveUp("gateway", a)
      BY <3>1 DEF GaveUp
    <3>2. Ok \/ Fault => outbid' = outbid
      BY DEF Ok, Fault
    <3>3. \A kind, m : Starts(kind, m) \/ Returns(kind, m) => outbid' = outbid
      BY DEF Starts, Returns
    <3>4. ASSUME NEW kind, NEW m, Outbid(kind, m), kind # "gateway" \/ m # a
          PROVE  GaveUp("gateway", a)' = GaveUp("gateway", a)
      <4>1. outbid' = outbid \cup {<<kind, m>>}
        BY <3>4 DEF Outbid
      <4>2. <<"gateway", a>> # <<kind, m>>
        BY <3>4
      <4>. QED
        BY <4>1, <4>2 DEF GaveUp
    <3>5. "sign" # "gateway" /\ "execute" # "gateway" /\ "route" # "gateway"
      OBVIOUS
    <3>. QED
      BY <3>1, <3>2, <3>3, <3>4, <3>5
  <2>1. ASSUME NEW m \in Msg, GatewayExecuteFails(m) PROVE Goal
    <3>1. CASE m = a
      BY <2>1, <3>1 DEF GatewayExecuteFails
    <3>2. CASE m # a
      <4>1. appr'[a] = appr[a] /\ (Outbid("gateway", m) \/ Fault)
        BY <2>1, <3>2 DEF GatewayExecuteFails
      <4>. QED
        BY <2>h, <2>k, <3>2, <4>1
    <3>. QED
      BY <3>1, <3>2
  <2>2. ASSUME NEW m \in Msg,
            \/ ParseContractCallApproved(m) \/ GetPendingCommands(m) \/ SignCommands(m)
            \/ SignFails(m) \/ GetExecuteData(m) \/ GatewayExecute(m)
            \/ UpdateCosmosToEvmEvent(m)
        PROVE Goal
    <3>1. appr[a] \in {"done", "dead"} => appr'[a] = appr[a] \/ appr'[a] \in {"done", "dead"}
      BY <2>2 DEF ParseContractCallApproved, GetPendingCommands, SignCommands, SignFails,
         GetExecuteData, GatewayExecute, UpdateCosmosToEvmEvent
    <3>2. \/ Ok \/ Fault \/ Starts("gateway", m) \/ Returns("gateway", m) \/ Outbid("sign", m)
      BY <2>2 DEF ParseContractCallApproved, GetPendingCommands, SignCommands, SignFails,
         GetExecuteData, GatewayExecute, UpdateCosmosToEvmEvent
    <3>. QED
      BY <2>h, <2>k, <3>1, <3>2
  <2>3. ASSUME NEW m \in Msg, CoreApproves(m) PROVE Goal
    <3>1. appr[a] \in {"done", "dead"} => appr'[a] = appr[a]
      BY <2>3 DEF CoreApproves, QueuesBlock, Frame, AnnouncedFirst
    <3>2. Ok \/ Fault
      BY <2>3 DEF CoreApproves
    <3>. QED
      BY <2>h, <2>k, <3>1, <3>2
  <2>4. ASSUME NEW m \in Msg, HandlerFails(m) PROVE Goal
    <3>1. Fault /\ (appr'[a] = appr[a] \/ appr'[a] = "dead")
      BY <2>4 DEF HandlerFails
    <3>. QED
      BY <2>h, <2>k, <3>1
  <2>5. CASE Crash
    <3>1. Fault /\ (appr'[a] = appr[a] \/ appr'[a] = "dead")
      BY <2>5 DEF Crash, Killed
    <3>. QED
      BY <2>h, <2>k, <3>1
  <2>6. ASSUME NEW m \in Msg, CallStep(m) \/ ExecStep(m) \/ DoneStep(m) PROVE Goal
    <3>1. UNCHANGED appr
      BY <2>6 DEF CallStep, CreateEvmCallContractEvent, WaitForFinality,
         HandleEvmToCosmosEvent, ConfirmFails, ExecStep,
         FindCosmosToEvmCallContractApproved, IsCallContractExecuted, Execute,
         ExecuteFails, UpdateEventStatus, DoneStep, ParseEvmEventCompleted,
         HandleEvmToCosmosConfirmEvent, CoreRefuses, AlreadyExecuted, RouteFails,
         UpdateEventStatusWithPacketSequence
    <3>2. \/ Ok \/ Fault \/ Starts("execute", m) \/ Returns("execute", m)
          \/ Outbid("execute", m) \/ Outbid("route", m)
      BY <2>6 DEF CallStep, CreateEvmCallContractEvent, WaitForFinality,
         HandleEvmToCosmosEvent, ConfirmFails, ExecStep,
         FindCosmosToEvmCallContractApproved, IsCallContractExecuted, Execute,
         ExecuteFails, UpdateEventStatus, DoneStep, ParseEvmEventCompleted,
         HandleEvmToCosmosConfirmEvent, CoreRefuses, AlreadyExecuted, RouteFails,
         UpdateEventStatusWithPacketSequence
    <3>. QED
      BY <2>h, <2>k, <3>1, <3>2
  <2>7. ASSUME NEW m \in Msg, Environment(m), ~CoreApproves(m), ~HandlerFails(m) PROVE Goal
    <3>1. UNCHANGED appr /\ (Ok \/ Fault)
      BY <2>7 DEF Environment, SeeContractCall, CoreCompletes, OtherRoutes, OtherSigns,
         OtherApproves, OtherExecutes, Reorg
    <3>. QED
      BY <2>h, <2>k, <3>1
  <2>8. CASE UNCHANGED vars
    BY <2>h, <2>8 DEF vars, GaveUp
  <2>. QED
    BY <2>1, <2>2, <2>3, <2>4, <2>5, <2>6, <2>7, <2>8 DEF Next, ApprStep
<1>. QED
  BY <1>1, <1>2, TypeCorrect, Announced, PTL DEF Spec

\* Every fault-free run keeps each command in the hands of some handler.
THEOREM NothingStranded == Spec => []NoCommandStranded
<1>. USE DEF dbVars, callVars, apprVars, execVars, doneVars, envVars, callsVars
<1>1. Init => NoCommandStranded
  BY DEF Init, NoCommandStranded, PendingOwned, BatchedOwned
<1>2. TypeOK /\ AnnouncedFirst /\ GaveUpLast /\ NoCommandStranded /\ [Next]_vars
      => NoCommandStranded'
  <2>. SUFFICES ASSUME TypeOK, AnnouncedFirst, GaveUpLast, NoCommandStranded, [Next]_vars
                PROVE NoCommandStranded'
    OBVIOUS
  <2>. USE ConstantsAssumption
       DEF TypeOK, NoCommandStranded, PendingOwned, BatchedOwned
  <2>a. Fault => NoCommandStranded'
    BY DEF Fault
  <2>o. \A kind, r : GaveUp(kind, r) => GaveUp(kind, r)'
    BY TruthsRemain DEF GaveUp
  <2>g. \A r \in Msg : appr[r] = "sign" => ~GaveUp("gateway", r)
    BY DEF GaveUpLast
  <2>u. \A kind, r : Outbid(kind, r) => GaveUp(kind, r)' /\ faults' = faults
    BY DEF Outbid, GaveUp
  <2>1. ASSUME UNCHANGED <<core, first, appr, batch, gw>>, faults' = 0 => faults = 0
        PROVE  NoCommandStranded'
    BY <2>o, <2>1
  <2>2. ASSUME NEW m \in Msg, HandleEvmToCosmosEvent(m) PROVE NoCommandStranded'
    BY <2>o, <2>2 DEF HandleEvmToCosmosEvent, Ok
  <2>3. ASSUME NEW m \in Msg, CoreApproves(m) PROVE NoCommandStranded'
    <3>1. PICK block \in SUBSET Msg :
            /\ QueuesBlock(m, block)
            /\ \/ appr' = Frame(appr, block, {m}) /\ Ok
               \/ appr' = Frame(appr, block, {}) /\ Fault
            /\ UNCHANGED <<batch, gw>>
      BY <2>3 DEF CoreApproves
    <3>. SUFFICES ASSUME Ok, appr' = Frame(appr, block, {m}), faults = 0, ~OtherRelayers
                  PROVE  \A r \in Msg : PendingOwned(r)' /\ BatchedOwned(r)'
      BY <2>a, <3>1 DEF Ok
    <3>. TAKE r \in Msg
    <3>2. \A a \in block : core[a] = "confirmed" /\ appr[a] = "none"
      BY <3>1 DEF QueuesBlock, AnnouncedFirst
    <3>3. \A a \in Msg \ block : appr'[a] = appr[a]
      BY <3>1 DEF Frame, QueuesBlock
    <3>4. PendingOwned(r)'
      <4>1. CASE r \in block
        BY <3>1, <4>1 DEF QueuesBlock, Frame
      <4>2. CASE r \notin block
        <5>1. core'[r] = core[r] /\ first'[r] = first[r]
          BY <3>1, <4>2 DEF QueuesBlock
        <5>. SUFFICES ASSUME core[r] = "pending", ~GaveUp("sign", first[r])
                      PROVE  appr'[first[r]] \in {"parse", "query", "sign", "dropped"}
          BY <2>o, <5>1
        <5>2. PendingOwned(r) /\ first[r] \in Msg
          OBVIOUS
        <5>3. first[r] \notin block
          BY <3>2, <5>2
        <5>. QED
          BY <3>3, <5>2, <5>3
      <4>. QED
        BY <4>1, <4>2
    <3>5. BatchedOwned(r)'
      <4>. SUFFICES ASSUME core'[r] = "batched", gw'[r] = "none"
                    PROVE BatchedOwned(r)'
        OBVIOUS
      <4>1. core[r] = "batched" /\ gw[r] = "none"
        BY <3>1 DEF QueuesBlock
      <4>2. PICK a \in Msg : r \in batch[a] /\ (appr[a] \in {"poll", "gateway"} \/ GaveUp("gateway", a))
        BY <4>1
      <4>3. GaveUp("gateway", a) => GaveUp("gateway", a)'
        BY <2>o
      <4>. QED
        BY <3>1, <3>2, <3>3, <4>2, <4>3
    <3>. QED
      BY <3>4, <3>5
  <2>4. ASSUME NEW m \in Msg, ParseContractCallApproved(m) PROVE NoCommandStranded'
    BY <2>o, <2>4 DEF ParseContractCallApproved, Ok
  <2>5. ASSUME NEW m \in Msg, GetPendingCommands(m) PROVE NoCommandStranded'
    <3>. SUFFICES ASSUME NEW r \in Msg, faults = 0, ~OtherRelayers
                  PROVE PendingOwned(r)' /\ BatchedOwned(r)'
      BY <2>o, <2>5 DEF GetPendingCommands, Ok
    <3>1. PendingOwned(r)'
      BY <2>o, <2>5 DEF GetPendingCommands, Pending
    <3>2. BatchedOwned(r)'
      BY <2>o, <2>5 DEF GetPendingCommands
    <3>. QED
      BY <3>1, <3>2
  <2>6. ASSUME NEW m \in Msg, SignCommands(m) PROVE NoCommandStranded'
    <3>1. UNCHANGED <<first, gw, faults>> /\ appr[m] = "sign"
      BY <2>6 DEF SignCommands, Ok
    <3>. SUFFICES ASSUME NEW r \in Msg, faults = 0, ~OtherRelayers
                  PROVE  PendingOwned(r)' /\ BatchedOwned(r)'
      BY <3>1
    <3>2. CASE Pending = {}
      BY <2>o, <2>6, <3>1, <3>2 DEF SignCommands, Pending
    <3>3. CASE Pending # {}
      <4>1. /\ appr' = [appr EXCEPT ![m] = "poll"]
            /\ batch' = [batch EXCEPT ![m] = Pending]
            /\ core' = [a \in Msg |-> IF a \in Pending THEN "batched" ELSE core[a]]
        BY <2>6, <3>3 DEF SignCommands
      <4>2. PendingOwned(r)'
        BY <4>1 DEF Pending
      <4>3. BatchedOwned(r)'
        <5>1. CASE r \in Pending
          BY <4>1, <5>1
        <5>2. CASE r \notin Pending
          <6>. SUFFICES ASSUME core[r] = "batched", gw[r] = "none" PROVE BatchedOwned(r)'
            BY <3>1, <4>1, <5>2
          <6>1. PICK a \in Msg : /\ r \in batch[a]
                                 /\ appr[a] \in {"poll", "gateway"} \/ GaveUp("gateway", a)
            OBVIOUS
          <6>2. a # m => r \in batch'[a] /\ appr'[a] = appr[a]
            BY <4>1, <6>1
          <6>3. GaveUp("gateway", a) => GaveUp("gateway", a)'
            BY <2>o
          <6>. QED
            BY <2>g, <3>1, <4>1, <6>1, <6>2, <6>3
        <5>. QED
          BY <5>1, <5>2
      <4>. QED
        BY <4>2, <4>3
    <3>. QED
      BY <3>2, <3>3
  <2>7. ASSUME NEW m \in Msg, SignFails(m) PROVE NoCommandStranded'
    <3>. SUFFICES ASSUME UNCHANGED core, Outbid("sign", m)
                  PROVE  NoCommandStranded'
      BY <2>a, <2>7 DEF SignFails
    <3>1. GaveUp("sign", m)' /\ faults' = faults
      BY <2>u
    <3>2. UNCHANGED <<first, batch, gw>> /\ appr[m] = "sign"
          /\ appr' = [appr EXCEPT ![m] = "dead"]
      BY <2>7 DEF SignFails
    <3>. SUFFICES ASSUME NEW r \in Msg, faults = 0, ~OtherRelayers
                  PROVE  PendingOwned(r)' /\ BatchedOwned(r)'
      BY <3>1
    <3>3. PendingOwned(r)'
      BY <2>o, <3>1, <3>2
    <3>4. BatchedOwned(r)'
      BY <2>o, <3>2
    <3>. QED
      BY <3>3, <3>4
  <2>8. ASSUME NEW m \in Msg, GetExecuteData(m) PROVE NoCommandStranded'
    BY <2>o, <2>8 DEF GetExecuteData, Starts, Fault
  <2>9. ASSUME NEW m \in Msg, GatewayExecute(m) PROVE NoCommandStranded'
    BY <2>o, <2>9 DEF GatewayExecute, GatewayRuns, Returns, Fault
  <2>10. ASSUME NEW m \in Msg, GatewayExecuteFails(m) PROVE NoCommandStranded'
    <3>. SUFFICES ASSUME UNCHANGED <<gw, exec>>, Outbid("gateway", m)
                  PROVE  NoCommandStranded'
      BY <2>a, <2>10 DEF GatewayExecuteFails
    <3>1. GaveUp("gateway", m)' /\ faults' = faults
      BY <2>u
    <3>2. UNCHANGED <<core, first, batch>> /\ appr[m] = "gateway"
          /\ appr' = [appr EXCEPT ![m] = "done"]
      BY <2>10 DEF GatewayExecuteFails
    <3>. SUFFICES ASSUME NEW r \in Msg, faults = 0, ~OtherRelayers
                  PROVE  PendingOwned(r)' /\ BatchedOwned(r)'
      BY <3>1
    <3>3. PendingOwned(r)'
      BY <2>o, <3>2
    <3>4. BatchedOwned(r)'
      BY <2>o, <3>1, <3>2
    <3>. QED
      BY <3>3, <3>4
  <2>11. ASSUME NEW m \in Msg, UpdateCosmosToEvmEvent(m) PROVE NoCommandStranded'
    BY <2>o, <2>11 DEF UpdateCosmosToEvmEvent, Ok
  <2>12. ASSUME NEW m \in Msg, Execute(m) PROVE NoCommandStranded'
    BY <2>o, <2>12 DEF Execute, Concludes, Returns
  <2>13. ASSUME NEW m \in Msg, OtherSigns(m) PROVE NoCommandStranded'
    BY <2>o, <2>13 DEF OtherSigns, Ok, Pending
  <2>14. ASSUME NEW m \in Msg, OtherApproves(m) PROVE NoCommandStranded'
    BY <2>o, <2>14 DEF OtherApproves, Ok
  <2>15. ASSUME NEW m \in Msg, OtherExecutes(m) PROVE NoCommandStranded'
    BY <2>o, <2>15 DEF OtherExecutes, Ok
  <2>16. ASSUME NEW m \in Msg, ConfirmFails(m) PROVE NoCommandStranded'
    BY <2>1, <2>16 DEF ConfirmFails, Ok
  <2>17. ASSUME NEW m \in Msg, CoreCompletes(m) PROVE NoCommandStranded'
    BY <2>a, <2>1, <2>17 DEF CoreCompletes, Ok
  <2>18. ASSUME NEW m \in Msg, ExecuteFails(m) PROVE NoCommandStranded'
    <3>1. Fault \/ (UNCHANGED <<gw, core, first, appr, batch>> /\ faults' = faults)
      BY <2>u, <2>18 DEF ExecuteFails
    <3>. QED
      BY <2>a, <2>1, <3>1
  <2>19. ASSUME NEW m \in Msg, RouteFails(m) PROVE NoCommandStranded'
    <3>1. Fault \/ (UNCHANGED <<gw, core, first, appr, batch>> /\ faults' = faults)
      BY <2>u, <2>19 DEF RouteFails
    <3>. QED
      BY <2>a, <2>1, <3>1
  <2>20. ASSUME NEW m \in Msg, HandlerFails(m) PROVE NoCommandStranded'
    BY <2>a, <2>20 DEF HandlerFails
  <2>21. ASSUME NEW m \in Msg, Reorg(m) PROVE NoCommandStranded'
    BY <2>a, <2>21 DEF Reorg
  <2>22. CASE Crash
    BY <2>a, <2>22 DEF Crash
  <2>23. ASSUME NEW m \in Msg,
            \/ CreateEvmCallContractEvent(m) \/ WaitForFinality(m)
            \/ FindCosmosToEvmCallContractApproved(m)
            \/ IsCallContractExecuted(m) \/ UpdateEventStatus(m)
            \/ ParseEvmEventCompleted(m)
            \/ HandleEvmToCosmosConfirmEvent(m) \/ CoreRefuses(m) \/ AlreadyExecuted(m)
            \/ UpdateEventStatusWithPacketSequence(m)
            \/ SeeContractCall(m) \/ OtherRoutes(m)
         PROVE NoCommandStranded'
    BY <2>1, <2>23 DEF CreateEvmCallContractEvent, WaitForFinality,
           FindCosmosToEvmCallContractApproved, IsCallContractExecuted,
           UpdateEventStatus, ParseEvmEventCompleted,
           HandleEvmToCosmosConfirmEvent, CoreRefuses, AlreadyExecuted,
           UpdateEventStatusWithPacketSequence, SeeContractCall,
           OtherRoutes, Starts, Ok
  <2>24. CASE UNCHANGED vars
    BY <2>1, <2>24 DEF vars
  <2>. QED
    BY <2>1, <2>2, <2>3, <2>4, <2>5, <2>6, <2>7, <2>8, <2>9, <2>10, <2>11, <2>12,
       <2>13, <2>14, <2>15, <2>16, <2>17, <2>18, <2>19, <2>20, <2>21, <2>22, <2>23,
       <2>24
       DEF Next, CallStep, ApprStep, ExecStep, DoneStep, Environment
<1>. QED
  BY <1>1, <1>2, TypeCorrect, Announced, GivenUpForGood, PTL DEF Spec

-----------------------------------------------------------------------------
(* The row comes before the confirmation.                                      *)

CalledIsRecorded ==
  \A m \in Msg : call[m] \in {"finality", "confirm"} => status[m] # "absent"

\* The core hears of a transaction only after one of its calls was recorded.
THEOREM RecordedFirst == Spec => []ConfirmedIsRecorded
<1>. USE DEF dbVars, callVars, apprVars, execVars, doneVars, envVars, callsVars
<1>. DEFINE RInv == CalledIsRecorded /\ ConfirmedIsRecorded
<1>1. Init => RInv
  BY DEF Init, CalledIsRecorded, ConfirmedIsRecorded
<1>2. TypeOK /\ RInv /\ [Next]_vars => RInv'
  <2>. SUFFICES ASSUME TypeOK, RInv, [Next]_vars PROVE RInv'
    OBVIOUS
  <2>. USE ConstantsAssumption
       DEF TypeOK, CalledIsRecorded, ConfirmedIsRecorded, Statuses, CoreState
  <2>1. CASE UNCHANGED <<status, call, core>>
    BY <2>1
  <2>2. ASSUME NEW m \in Msg, SeeContractCall(m) PROVE RInv'
    BY <2>2 DEF SeeContractCall, Ok
  <2>3. ASSUME NEW m \in Msg, CreateEvmCallContractEvent(m) PROVE RInv'
    BY <2>3 DEF CreateEvmCallContractEvent, Creatable, Ok
  <2>4. ASSUME NEW m \in Msg, WaitForFinality(m) PROVE RInv'
    BY <2>4 DEF WaitForFinality, Ok
  <2>5. ASSUME NEW m \in Msg, HandleEvmToCosmosEvent(m) PROVE RInv'
    BY <2>5 DEF HandleEvmToCosmosEvent, Ok
  <2>6. ASSUME NEW m \in Msg, ConfirmFails(m) PROVE RInv'
    BY <2>6 DEF ConfirmFails, Ok
  <2>7. ASSUME NEW m \in Msg, CoreApproves(m) PROVE RInv'
    BY <2>7 DEF CoreApproves, QueuesBlock, Ok, Fault
  <2>8. ASSUME NEW m \in Msg, SignCommands(m) PROVE RInv'
    BY <2>8 DEF SignCommands, Ok, Pending
  <2>9. ASSUME NEW m \in Msg, SignFails(m) PROVE RInv'
    BY <2>9 DEF SignFails, Outbid, Fault, Pending
  <2>10. ASSUME NEW m \in Msg, OtherSigns(m) PROVE RInv'
    BY <2>10 DEF OtherSigns, Ok, Pending
  <2>11. ASSUME NEW m \in Msg, UpdateCosmosToEvmEvent(m) PROVE RInv'
    BY <2>11 DEF UpdateCosmosToEvmEvent, Ok
  <2>12. ASSUME NEW m \in Msg, UpdateEventStatus(m) PROVE RInv'
    BY <2>12 DEF UpdateEventStatus, Ok
  <2>13. ASSUME NEW m \in Msg, UpdateEventStatusWithPacketSequence(m) PROVE RInv'
    BY <2>13 DEF UpdateEventStatusWithPacketSequence, Ok
  <2>14. ASSUME NEW m \in Msg, HandlerFails(m) PROVE RInv'
    BY <2>14 DEF HandlerFails, Fault
  <2>15. CASE Crash
    BY <2>15 DEF Crash, Killed
  <2>16. ASSUME NEW m \in Msg,
            \/ ParseContractCallApproved(m) \/ GetPendingCommands(m) \/ GetExecuteData(m)
            \/ GatewayExecute(m) \/ GatewayExecuteFails(m)
            \/ FindCosmosToEvmCallContractApproved(m)
            \/ IsCallContractExecuted(m) \/ Execute(m) \/ ExecuteFails(m)
            \/ ParseEvmEventCompleted(m) \/ HandleEvmToCosmosConfirmEvent(m)
            \/ CoreRefuses(m) \/ AlreadyExecuted(m)
            \/ RouteFails(m) \/ CoreCompletes(m) \/ OtherRoutes(m)
            \/ OtherApproves(m) \/ OtherExecutes(m) \/ Reorg(m)
         PROVE RInv'
    BY <2>1, <2>16 DEF ParseContractCallApproved, GetPendingCommands, GetExecuteData,
           GatewayExecute, GatewayExecuteFails,
           FindCosmosToEvmCallContractApproved, IsCallContractExecuted,
           Execute, ExecuteFails, ParseEvmEventCompleted,
           HandleEvmToCosmosConfirmEvent, CoreRefuses, AlreadyExecuted, RouteFails,
           CoreCompletes, OtherRoutes, OtherApproves, OtherExecutes,
           Reorg
  <2>17. CASE UNCHANGED vars
    BY <2>1, <2>17 DEF vars
  <2>. QED
    BY <2>1, <2>2, <2>3, <2>4, <2>5, <2>6, <2>7, <2>8, <2>9, <2>10, <2>11, <2>12,
       <2>13, <2>14, <2>15, <2>16, <2>17
       DEF Next, CallStep, ApprStep, ExecStep, DoneStep, Environment
<1>. QED
  BY <1>1, <1>2, TypeCorrect, PTL DEF Spec

-----------------------------------------------------------------------------
(* The rows live as MessageLife allows.  A handler writes a row several awaits  *)
(* after it has seen it, and checks nothing when it does; the row is there      *)
(* because none disappears, and the mark is true because what it rests on was   *)
(* seen, signed or met before and stays.                                        *)

WritesRows ==
  /\ \A m \in Msg : appr[m] \in {"query", "sign", "poll", "gateway", "update"} =>
       status[m] # "absent"
  /\ \A m \in Msg : \A r \in rows[m] : status[r] # "absent"
  /\ \A m \in Msg : \A u \in res[m] : status[u[1]] # "absent" /\ u[2] \in {"success", "failed"}
  /\ \A m \in Msg : done[m] \in {"route", "update"} => status[m] # "absent"
  /\ \A m \in Msg : verdict[m] \in {"success", "failed"}

\* Who has signed, whatever it signed, has its own command in a batch.
SignedIsBatched ==
  \A m \in Msg : appr[m] \in {"poll", "gateway", "update"} => core[m] = "batched"

\* A handler writes only rows that are there.
LEMMA WritesRowsInvariant == Spec => []WritesRows
<1>. USE DEF dbVars, callVars, apprVars, execVars, doneVars, envVars, callsVars
<1>1. Init => WritesRows
  BY DEF Init, WritesRows
<1>2. TypeOK /\ WritesRows /\ [Next]_vars => WritesRows'
  <2>. SUFFICES ASSUME TypeOK, WritesRows, [Next]_vars PROVE WritesRows'
    OBVIOUS
  <2>. USE ConstantsAssumption DEF TypeOK, WritesRows, Statuses
  <2>1. CASE UNCHANGED <<status, appr, rows, res, done, verdict>>
    BY <2>1
  <2>2. ASSUME NEW m \in Msg, CreateEvmCallContractEvent(m) PROVE WritesRows'
    BY <2>2 DEF CreateEvmCallContractEvent
  <2>3. ASSUME NEW m \in Msg, ParseContractCallApproved(m) PROVE WritesRows'
    BY <2>3 DEF ParseContractCallApproved
  <2>4. ASSUME NEW m \in Msg, GetPendingCommands(m) PROVE WritesRows'
    BY <2>4 DEF GetPendingCommands
  <2>5. ASSUME NEW m \in Msg, SignCommands(m) \/ SignFails(m) PROVE WritesRows'
    BY <2>5 DEF SignCommands, SignFails
  <2>6. ASSUME NEW m \in Msg, GetExecuteData(m) PROVE WritesRows'
    BY <2>6 DEF GetExecuteData
  <2>7. ASSUME NEW m \in Msg, GatewayExecute(m) \/ GatewayExecuteFails(m) PROVE WritesRows'
    BY <2>7 DEF GatewayExecute, GatewayExecuteFails
  <2>8. ASSUME NEW m \in Msg, UpdateCosmosToEvmEvent(m) PROVE WritesRows'
    BY <2>8 DEF UpdateCosmosToEvmEvent
  <2>9. ASSUME NEW m \in Msg, FindCosmosToEvmCallContractApproved(m) PROVE WritesRows'
    BY <2>9 DEF FindCosmosToEvmCallContractApproved
  <2>10. ASSUME NEW m \in Msg, NEW r \in rows[m], NEW s \in {"success", "failed"},
                Concludes(m, r, s), UNCHANGED <<status, appr, done, verdict>>
         PROVE  WritesRows'
    BY <2>10 DEF Concludes
  <2>11. ASSUME NEW m \in Msg, IsCallContractExecuted(m) PROVE WritesRows'
    BY <2>1, <2>10, <2>11 DEF IsCallContractExecuted
  <2>12. ASSUME NEW m \in Msg, Execute(m) \/ ExecuteFails(m) PROVE WritesRows'
    BY <2>10, <2>12 DEF Execute, ExecuteFails
  <2>13. ASSUME NEW m \in Msg, UpdateEventStatus(m) PROVE WritesRows'
    BY <2>13 DEF UpdateEventStatus
  <2>14. ASSUME NEW m \in Msg, ParseEvmEventCompleted(m) PROVE WritesRows'
    BY <2>14 DEF ParseEvmEventCompleted
  <2>15. ASSUME NEW m \in Msg,
            \/ HandleEvmToCosmosConfirmEvent(m) \/ CoreRefuses(m)
            \/ AlreadyExecuted(m) \/ RouteFails(m)
         PROVE WritesRows'
    BY <2>15 DEF HandleEvmToCosmosConfirmEvent, CoreRefuses, AlreadyExecuted, RouteFails, Judges
  <2>16. ASSUME NEW m \in Msg, UpdateEventStatusWithPacketSequence(m) PROVE WritesRows'
    <3>1. UNCHANGED <<appr, rows, res, verdict>>
      BY <2>16 DEF UpdateEventStatusWithPacketSequence
    <3>2. \A r \in Msg : status[r] # "absent" => status'[r] # "absent"
      BY <2>16 DEF UpdateEventStatusWithPacketSequence
    <3>3. \A r \in Msg : done'[r] \in {"route", "update"} => done[r] \in {"route", "update"}
      BY <2>16 DEF UpdateEventStatusWithPacketSequence
    <3>. QED
      BY <3>1, <3>2, <3>3
  <2>17. ASSUME NEW m \in Msg, CoreApproves(m) PROVE WritesRows'
    BY <2>17 DEF CoreApproves, Frame
  <2>18. ASSUME NEW m \in Msg, CoreCompletes(m) PROVE WritesRows'
    BY <2>18 DEF CoreCompletes, Frame
  <2>19. ASSUME NEW m \in Msg, HandlerFails(m) PROVE WritesRows'
    BY <2>19 DEF HandlerFails
  <2>20. CASE Crash
    BY <2>20 DEF Crash, Killed
  <2>21. ASSUME NEW m \in Msg,
            \/ WaitForFinality(m) \/ HandleEvmToCosmosEvent(m) \/ ConfirmFails(m)
            \/ SeeContractCall(m) \/ OtherRoutes(m) \/ OtherSigns(m)
            \/ OtherApproves(m) \/ OtherExecutes(m) \/ Reorg(m)
         PROVE WritesRows'
    BY <2>1, <2>21 DEF WaitForFinality, HandleEvmToCosmosEvent, ConfirmFails,
           SeeContractCall, OtherRoutes, OtherSigns, OtherApproves, OtherExecutes, Reorg
  <2>22. CASE UNCHANGED vars
    BY <2>1, <2>22 DEF vars
  <2>. QED
    BY <2>2, <2>3, <2>4, <2>5, <2>6, <2>7, <2>8, <2>9, <2>11, <2>12, <2>13, <2>14,
       <2>15, <2>16, <2>17, <2>18, <2>19, <2>20, <2>21, <2>22
       DEF Next, CallStep, ApprStep, ExecStep, DoneStep, Environment
<1>. QED
  BY <1>1, <1>2, TypeCorrect, PTL DEF Spec

\* What a handler has had signed includes its own command.
LEMMA SignedInvariant == Spec => []SignedIsBatched
<1>. USE DEF dbVars, callVars, apprVars, execVars, doneVars, envVars, callsVars
<1>1. Init => SignedIsBatched
  BY DEF Init, SignedIsBatched
<1>2. TypeOK /\ AnnouncedFirst /\ SignedIsBatched /\ [Next]_vars => SignedIsBatched'
  <2>. SUFFICES ASSUME TypeOK, AnnouncedFirst, SignedIsBatched, [Next]_vars
                PROVE SignedIsBatched'
    OBVIOUS
  <2>. USE ConstantsAssumption DEF TypeOK, SignedIsBatched
  <2>1. CASE UNCHANGED <<core, appr>>
    BY <2>1
  <2>2. ASSUME NEW m \in Msg, HandleEvmToCosmosEvent(m) PROVE SignedIsBatched'
    BY <2>2 DEF HandleEvmToCosmosEvent
  <2>3. ASSUME NEW m \in Msg, CoreApproves(m) PROVE SignedIsBatched'
    BY <2>3 DEF CoreApproves, QueuesBlock, Frame
  <2>4. ASSUME NEW m \in Msg, ParseContractCallApproved(m) PROVE SignedIsBatched'
    BY <2>4 DEF ParseContractCallApproved
  <2>5. ASSUME NEW m \in Msg, GetPendingCommands(m) PROVE SignedIsBatched'
    BY <2>5 DEF GetPendingCommands
  <2>6. ASSUME NEW m \in Msg, SignCommands(m) PROVE SignedIsBatched'
    <3>1. core[m] \in {"pending", "batched"}
      BY <2>6 DEF SignCommands, AnnouncedFirst, CoreState
    <3>. QED
      BY <2>6, <3>1 DEF SignCommands, Pending
  <2>7. ASSUME NEW m \in Msg, SignFails(m) PROVE SignedIsBatched'
    BY <2>7 DEF SignFails, Pending
  <2>8. ASSUME NEW m \in Msg, GetExecuteData(m) PROVE SignedIsBatched'
    BY <2>8 DEF GetExecuteData
  <2>9. ASSUME NEW m \in Msg, GatewayExecute(m) \/ GatewayExecuteFails(m)
        PROVE  SignedIsBatched'
    BY <2>9 DEF GatewayExecute, GatewayExecuteFails
  <2>10. ASSUME NEW m \in Msg, UpdateCosmosToEvmEvent(m) PROVE SignedIsBatched'
    BY <2>10 DEF UpdateCosmosToEvmEvent
  <2>11. ASSUME NEW m \in Msg, OtherSigns(m) PROVE SignedIsBatched'
    BY <2>11 DEF OtherSigns, Pending
  <2>12. ASSUME NEW m \in Msg, HandlerFails(m) PROVE SignedIsBatched'
    BY <2>12 DEF HandlerFails
  <2>13. CASE Crash
    BY <2>13 DEF Crash, Killed
  <2>14. ASSUME NEW m \in Msg,
            \/ CreateEvmCallContractEvent(m) \/ WaitForFinality(m) \/ ConfirmFails(m)
            \/ FindCosmosToEvmCallContractApproved(m) \/ IsCallContractExecuted(m)
            \/ Execute(m) \/ ExecuteFails(m) \/ UpdateEventStatus(m)
            \/ DoneStep(m) \/ SeeContractCall(m) \/ CoreCompletes(m) \/ OtherRoutes(m)
            \/ OtherApproves(m) \/ OtherExecutes(m) \/ Reorg(m)
         PROVE SignedIsBatched'
    BY <2>1, <2>14 DEF CreateEvmCallContractEvent, WaitForFinality, ConfirmFails,
           FindCosmosToEvmCallContractApproved, IsCallContractExecuted, Execute,
           ExecuteFails, UpdateEventStatus, DoneStep, ParseEvmEventCompleted,
           HandleEvmToCosmosConfirmEvent, CoreRefuses, AlreadyExecuted, RouteFails,
           UpdateEventStatusWithPacketSequence, SeeContractCall, CoreCompletes,
           OtherRoutes, OtherApproves, OtherExecutes, Reorg
  <2>15. CASE UNCHANGED vars
    BY <2>1, <2>15 DEF vars
  <2>. QED
    BY <2>2, <2>3, <2>4, <2>5, <2>6, <2>7, <2>8, <2>9, <2>10, <2>11, <2>12, <2>13,
       <2>14, <2>15
       DEF Next, CallStep, ApprStep, ExecStep, Environment
<1>. QED
  BY <1>1, <1>2, TypeCorrect, Announced, PTL DEF Spec

\* Every step of the four handlers and of the world around them is a step of
\* MessageLife, or changes nothing it speaks of.
THEOREM Implements ==
  ASSUME ~Reorgs PROVE Spec => ImplementsMessageLife
<1>1. Init => Abstract!Init
  BY DEF Init, Abstract!Init, IsExecuted, Cause, GaveUp
<1>2. TypeOK /\ EarnedInv /\ CauseInv /\ WritesRows /\ SignedIsBatched /\ [Next]_vars
      => [Abstract!Next]_<<status, Abstract!truths>>
  <2>. SUFFICES ASSUME TypeOK, EarnedInv, CauseInv, WritesRows, SignedIsBatched, [Next]_vars
                PROVE  Abstract!Next
    OBVIOUS
  <2>. USE ConstantsAssumption DEF TypeOK, dbVars, callVars, apprVars, execVars, doneVars, envVars, callsVars
  <2>1. UNCHANGED status => Abstract!Happen
    BY TruthsRemain DEF Abstract!Happen, Signed, Executed, Excused
  <2>2. ASSUME UNCHANGED <<core, gw, routed, refused, foreign, outbid, faults>>
        PROVE  UNCHANGED <<Signed, Executed, Excused>>
    BY <2>2 DEF Signed, Executed, Excused, IsExecuted, Cause, GaveUp
  <2>3. ASSUME NEW m \in Msg, CreateEvmCallContractEvent(m)
        PROVE  Abstract!Record(m) \/ UNCHANGED status
    <3>1. CASE Creatable(m)
      <4>1. UNCHANGED <<Signed, Executed, Excused>>
        BY <2>2, <2>3 DEF CreateEvmCallContractEvent, Ok
      <4>2. \A r \in Msg : PayloadOf[r] = PayloadOf[m] => status[r] = "absent"
        BY <3>1 DEF Creatable, SamePayload
      <4>. QED
        BY <2>3, <3>1, <4>1, <4>2 DEF CreateEvmCallContractEvent, Abstract!Record,
           Abstract!truths, Signed, Executed, Excused
    <3>2. CASE ~Creatable(m)
      BY <2>3, <3>2 DEF CreateEvmCallContractEvent
    <3>. QED
      BY <3>1, <3>2
  <2>4. ASSUME NEW r \in Msg, status[r] # "absent",
               UNCHANGED <<core, gw, routed, refused, foreign, outbid, faults>>,
               \/ status' = [status EXCEPT ![r] = "approved"] /\ core[r] = "batched"
               \/ status' = [status EXCEPT ![r] = "success"] /\ IsExecuted(r)
               \/ status' = [status EXCEPT ![r] = "failed"] /\ Cause(r)
        PROVE  Abstract!Mark(r)
    <3>1. UNCHANGED <<Signed, Executed, Excused>>
      BY <2>2, <2>4
    <3>. QED
      BY <2>4, <3>1 DEF Abstract!Mark, Abstract!Bears, Abstract!truths, Signed, Executed, Excused
  <2>5. ASSUME NEW m \in Msg, UpdateCosmosToEvmEvent(m) PROVE Abstract!Mark(m)
    <3>1. status[m] # "absent" /\ core[m] = "batched"
      BY <2>5 DEF UpdateCosmosToEvmEvent, WritesRows, SignedIsBatched
    <3>. QED
      BY <2>4, <2>5, <3>1 DEF UpdateCosmosToEvmEvent, Ok
  <2>6. ASSUME NEW m \in Msg, UpdateEventStatus(m) PROVE \E r \in Msg : Abstract!Mark(r)
    <3>1. PICK u \in res[m] : status' = [status EXCEPT ![u[1]] = u[2]]
      BY <2>6 DEF UpdateEventStatus
    <3>2. u[1] \in Msg /\ status[u[1]] # "absent" /\ u[2] \in {"success", "failed"}
      BY <3>1 DEF WritesRows
    <3>3. u[2] = "success" => IsExecuted(u[1])
      BY <3>1 DEF EarnedInv, PreparedIsEarned, IsExecuted, SamePayload
    <3>4. u[2] = "failed" => Cause(u[1])
      BY <3>1 DEF CauseInv, PreparedHasCause
    <3>5. UNCHANGED <<core, gw, routed, refused, foreign, outbid, faults>>
      BY <2>6 DEF UpdateEventStatus, Ok
    <3>. QED
      BY <2>4, <3>1, <3>2, <3>3, <3>4, <3>5
  <2>7. ASSUME NEW m \in Msg, UpdateEventStatusWithPacketSequence(m)
        PROVE  Abstract!Mark(m) \/ UNCHANGED status
    <3>1. status[m] # "absent" /\ verdict[m] \in {"success", "failed"}
      BY <2>7 DEF UpdateEventStatusWithPacketSequence, WritesRows
    <3>2. verdict[m] = "success" => IsExecuted(m)
      BY DEF EarnedInv, VerdictIsEarned, IsExecuted
    <3>3. verdict[m] = "failed" => Cause(m)
      BY <2>7 DEF UpdateEventStatusWithPacketSequence, CauseInv, VerdictHasCause
    <3>4. UNCHANGED <<core, gw, routed, refused, foreign, outbid, faults>>
      BY <2>7 DEF UpdateEventStatusWithPacketSequence, Ok
    <3>. QED
      BY <2>4, <2>7, <3>1, <3>2, <3>3, <3>4 DEF UpdateEventStatusWithPacketSequence
  <2>8. ASSUME NEW m \in Msg, CallStep(m), ~CreateEvmCallContractEvent(m)
        PROVE  UNCHANGED status
    BY <2>8 DEF CallStep, WaitForFinality, HandleEvmToCosmosEvent, ConfirmFails
  <2>9. ASSUME NEW m \in Msg, ApprStep(m), ~UpdateCosmosToEvmEvent(m)
        PROVE  UNCHANGED status
    BY <2>9 DEF ApprStep, ParseContractCallApproved, GetPendingCommands, SignCommands,
       SignFails, GetExecuteData, GatewayExecute, GatewayExecuteFails
  <2>10. ASSUME NEW m \in Msg, ExecStep(m), ~UpdateEventStatus(m) PROVE UNCHANGED status
    BY <2>10 DEF ExecStep, FindCosmosToEvmCallContractApproved, IsCallContractExecuted,
       Execute, ExecuteFails
  <2>11. ASSUME NEW m \in Msg, DoneStep(m), ~UpdateEventStatusWithPacketSequence(m)
         PROVE  UNCHANGED status
    BY <2>11 DEF DoneStep, ParseEvmEventCompleted, HandleEvmToCosmosConfirmEvent,
       CoreRefuses, AlreadyExecuted, RouteFails
  <2>12. ASSUME NEW m \in Msg, Environment(m) PROVE UNCHANGED status
    BY <2>12 DEF Environment, SeeContractCall, CoreApproves, CoreCompletes, OtherRoutes,
       OtherSigns, OtherApproves, OtherExecutes, Reorg, HandlerFails
  <2>13. CASE Crash \/ UNCHANGED vars
    BY <2>13, <2>1 DEF Crash, vars, Abstract!Next
  <2>. QED
    BY <2>1, <2>3, <2>5, <2>6, <2>7, <2>8, <2>9, <2>10, <2>11, <2>12, <2>13
       DEF Next, Abstract!Next
<1>. QED
  BY <1>1, <1>2, TypeCorrect, EarnedInvariant, CauseInvariant, WritesRowsInvariant,
     SignedInvariant, PTL
     DEF Spec, ImplementsMessageLife, Abstract!Spec

=============================================================================
