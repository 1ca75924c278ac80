----------------------------- MODULE BtcIngress -----------------------------
(***************************************************************************)
(* The RabbitMQ consumer of staking transactions (relayer/rabbitmq.ts): a   *)
(* message is recorded as a PENDING row, the Scalar core is asked to        *)
(* confirm its transaction, and the message is acknowledged once the core   *)
(* has answered, or rejected into the dead-letter exchange.  The broker     *)
(* redelivers what a dead process had not settled; the database and the     *)
(* core keep what it had done.                                              *)
(***************************************************************************)
EXTENDS Naturals, FiniteSets

CONSTANTS
  Msg,       \* messages on the queue
  Key,       \* vault transaction hashes: the row id and the core's transaction
  Payload,   \* payload hashes
  KeyOf,     \* the transaction a message carries
  PayloadOf, \* its payload hash
  TooHigh,   \* messages above the configured stop height
  Bad,       \* messages that do not parse or name no configured chain
  MaxFaults  \* bound on crashes and failed calls (those outbid for the account's
             \* sequence number included)

ASSUME IngressAssumption ==
  /\ KeyOf \in [Msg -> Key]
  /\ PayloadOf \in [Msg -> Payload]
  /\ TooHigh \subseteq Msg
  /\ Bad \subseteq Msg
  /\ TooHigh \cap Bad = {}
  /\ MaxFaults \in Nat

VARIABLES
  place,     \* where the broker holds each message
  pc,        \* handleMessage's progress on each message
  rows,      \* messages whose row was created
  asked,     \* confirm requests sent for each transaction
  confirmed, \* transactions whose confirm request the core has executed
  refused,   \* transactions whose confirm request it has delivered as failed
  faults

vars == <<place, pc, rows, asked, confirmed, refused, faults>>
coreVars == <<confirmed, refused>>

Places == {"queued", "unacked", "acked", "dead"}
Pcs    == {"idle", "connect", "create", "confirm", "answer", "disconnect"}

Init ==
  /\ place = [m \in Msg |-> "queued"]
  /\ pc = [m \in Msg |-> "idle"]
  /\ rows = {}
  /\ asked = [k \in Key |-> 0]
  /\ confirmed = {}
  /\ refused = {}
  /\ faults = 0

Ok    == UNCHANGED faults
Fault == faults < MaxFaults /\ faults' = faults + 1

\* ack or nack(msg, false, false), after which the handler only has its finally
\* block left, which disconnects the database.
Settle(m, how) ==
  /\ place' = [place EXCEPT ![m] = how]
  /\ pc' = [pc EXCEPT ![m] = "disconnect"]

\* createBtcEventTransaction throws on a field it cannot convert and on a chain it
\* does not know.
Parses(m) == m \notin Bad

\* Wrong on purpose: a message above the stop height is left out, unacknowledged.
HandleMessageSkipping(m) ==
  /\ place[m] = "queued"
  /\ pc[m] = "idle"
  /\ \A n \in Msg : place[n] # "unacked"
  /\ IF ~Parses(m)
       THEN Settle(m, "dead")
       ELSE /\ place' = [place EXCEPT ![m] = "unacked"]
            /\ pc' = [pc EXCEPT ![m] = IF m \in TooHigh THEN "disconnect" ELSE "connect"]
  /\ Ok
  /\ UNCHANGED <<rows, asked, coreVars>>

\* prefetch(1): the broker delivers while nothing is unacknowledged.  The handler
\* runs on to its first await.
HandleMessage(m) ==
  /\ place[m] = "queued"
  /\ pc[m] = "idle"
  /\ \A n \in Msg : place[n] # "unacked"
  /\ CASE m \in TooHigh -> Settle(m, "acked")
       [] ~Parses(m)    -> Settle(m, "dead")
       [] OTHER         -> /\ place' = [place EXCEPT ![m] = "unacked"]
                           /\ pc' = [pc EXCEPT ![m] = "connect"]
  /\ Ok
  /\ UNCHANGED <<rows, asked, coreVars>>

\* Wrong on purpose: the transaction is confirmed without a row.
ConnectAndConfirm(m) ==
  /\ pc[m] = "connect"
  /\ pc' = [pc EXCEPT ![m] = "confirm"]
  /\ Ok
  /\ UNCHANGED <<place, rows, asked, coreVars>>

Connect(m) ==
  /\ pc[m] = "connect"
  /\ pc' = [pc EXCEPT ![m] = "create"]
  /\ Ok
  /\ UNCHANGED <<place, rows, asked, coreVars>>

\* The row id and the payload hash are unique keys of the database.
Clashes(r, m) == KeyOf[r] = KeyOf[m] \/ PayloadOf[r] = PayloadOf[m]

\* Wrong on purpose: only the payload hash is a unique key.
CreatablePayload(m) == \A r \in rows : PayloadOf[r] # PayloadOf[m] \/ r = m

Creatable(m) == \A r \in rows : ~Clashes(r, m)

CreateBtcCallContractEvent(m) ==
  /\ pc[m] = "create"
  /\ IF Creatable(m)
       THEN /\ rows' = rows \cup {m}
            /\ pc' = [pc EXCEPT ![m] = "confirm"]
            /\ UNCHANGED place
       ELSE Settle(m, "dead") /\ UNCHANGED rows
  /\ Ok
  /\ UNCHANGED <<asked, coreVars>>

\* Wrong on purpose: the core is asked about the message instead of its transaction.
ConfirmMessage(m) ==
  /\ pc[m] = "confirm"
  /\ pc' = [pc EXCEPT ![m] = "answer"]
  /\ asked' = [k \in Key \cup {m} |-> IF k = m THEN 1 ELSE asked[k]]
  /\ Ok
  /\ UNCHANGED <<place, rows, coreVars>>

\* handleBtcEvent sends the confirm request and awaits the answer.
ConfirmEvmTx(m) ==
  /\ pc[m] = "confirm"
  /\ pc' = [pc EXCEPT ![m] = "answer"]
  /\ asked' = [asked EXCEPT ![KeyOf[m]] = @ + 1]
  /\ Ok
  /\ UNCHANGED <<place, rows, coreVars>>

\* The core delivers the request in a block: it executes it, or refuses it with a
\* non-zero code.
Unanswered(k) == asked[k] > 0 /\ k \notin confirmed \cup refused

CoreConfirms(k) ==
  /\ Unanswered(k)
  /\ confirmed' = confirmed \cup {k}
  /\ Ok
  /\ UNCHANGED <<place, pc, rows, asked, refused>>

CoreRefuses(k) ==
  /\ Unanswered(k)
  /\ refused' = refused \cup {k}
  /\ Ok
  /\ UNCHANGED <<place, pc, rows, asked, confirmed>>

Answered(m) == KeyOf[m] \in confirmed \cup refused

\* Wrong on purpose: the answer is not awaited, and taken for a success.
AckAsked(m) ==
  /\ pc[m] = "answer"
  /\ Settle(m, "acked")
  /\ Ok
  /\ UNCHANGED <<rows, asked, coreVars>>

\* Wrong on purpose: the answer is not awaited, and its absence taken for a failure.
AckOrReject(m) ==
  /\ pc[m] = "answer"
  /\ Settle(m, IF Answered(m) THEN "acked" ELSE "dead")
  /\ Ok
  /\ UNCHANGED <<rows, asked, coreVars>>

\* Any response at all is acknowledged: its code is not looked at.
AckAnswered(m) ==
  /\ pc[m] = "answer"
  /\ Answered(m)
  /\ Settle(m, "acked")
  /\ Ok
  /\ UNCHANGED <<rows, asked, coreVars>>

\* A rejected connect or create (whose row may be written all the same) ends in the
\* catch block, a confirmation without a response (which the core may still carry
\* out) in the else branch: both nack.
HandlerFails(m) ==
  /\ pc[m] \in {"connect", "create", "answer"}
  /\ \/ UNCHANGED rows
     \/ pc[m] = "create" /\ Creatable(m) /\ rows' = rows \cup {m}
  /\ Settle(m, "dead")
  /\ Fault
  /\ UNCHANGED <<asked, coreVars>>

Disconnect(m) ==
  /\ pc[m] = "disconnect"
  /\ pc' = [pc EXCEPT ![m] = "idle"]
  /\ Ok
  /\ UNCHANGED <<place, rows, asked, coreVars>>

\* The process dies and restarts; the broker requeues what it had not settled.
Crash ==
  /\ pc' = [m \in Msg |-> "idle"]
  /\ place' = [m \in Msg |-> IF place[m] = "unacked" THEN "queued" ELSE place[m]]
  /\ Fault
  /\ UNCHANGED <<rows, asked, coreVars>>

Handler(m) ==
  \/ Connect(m) \/ CreateBtcCallContractEvent(m) \/ ConfirmEvmTx(m)
  \/ AckAnswered(m) \/ HandlerFails(m) \/ Disconnect(m)

Next ==
  \/ \E m \in Msg : HandleMessage(m) \/ Handler(m)
  \/ \E k \in Key : CoreConfirms(k) \/ CoreRefuses(k)
  \/ Crash

Spec == Init /\ [][Next]_vars

\* The broker delivers, the event loop runs the handler on, and the core
\* answers a request it was sent, one way or the other.
Fairness ==
  /\ \A m \in Msg : WF_vars(HandleMessage(m)) /\ WF_vars(Handler(m))
  /\ \A k \in Key : WF_vars(CoreConfirms(k) \/ CoreRefuses(k))

FairSpec == Spec /\ Fairness

-----------------------------------------------------------------------------

\* Every variable keeps its type: the statuses are values of the Status enumeration,
\* the counters stay within their bounds, handlers are at a point of their code.
TypeOK ==
  /\ place \in [Msg -> Places]
  /\ pc \in [Msg -> Pcs]
  /\ rows \subseteq Msg
  /\ asked \in [Key -> Nat]
  /\ confirmed \subseteq Key
  /\ refused \subseteq Key
  /\ faults \in 0..MaxFaults

\* A message is acknowledged only when its row exists and the core has answered the
\* request about its transaction, in a block, so that no redelivery is needed to ask
\* again: never on silence, across crashes, redeliveries and failed calls.  What the
\* answer was the ingress does not look at (rabbitmq.ts 146-154): a message whose
\* request the core refused is acknowledged like any other, and its row stays PENDING.
AckedIsDone ==
  \A m \in Msg \ TooHigh :
    place[m] = "acked" => m \in rows /\ Answered(m)

\* A well-formed message is dead-lettered only if another row has taken its
\* transaction or payload, or something failed; and only a failure leaves a row
\* behind a dead-lettered message.
DeadIsExplained ==
  faults = 0 => \A m \in Msg : place[m] = "dead" =>
    /\ m \notin rows
    /\ m \in Bad \/ \E r \in rows : Clashes(r, m)

\* The core confirms no transaction without a row: the parsers of its later
\* events look the row up.
ConfirmedIsRecorded ==
  \A k \in confirmed : \E m \in rows : KeyOf[m] = k

\* Every message ends up acknowledged or dead-lettered, for good.
EverySettled ==
  <>[](\A m \in Msg : place[m] \in {"acked", "dead"})

\* rabbitmq.ts 188: `only one message must be processed at a time by the
\* consumer'.
OneMessageAtATime == Cardinality({m \in Msg : pc[m] # "idle"}) <= 1

Fate == [m \in Msg |-> CASE place[m] = "acked" -> "done"
                         [] place[m] = "dead"  -> "dropped"
                         [] OTHER              -> "open"]
Abstract == INSTANCE Settlement WITH fate <- Fate, LeftOut <- TooHigh

\* The consumer settles every message at most once and asks the core at most once
\* about a transaction: the unique row stands guard against redelivery.
ImplementsSettlement == Abstract!Spec

=============================================================================
