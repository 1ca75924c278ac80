# xchains-relayer: verification

TLA+ models of the relayer, the TLC runs that check them and the theorems TLAPS
proves about them.  The relayer carries contract calls between EVM chains, Bitcoin
and the Scalar core: it watches gateways, the core and a message queue, records each
message as a `RelayData` row, and moves it on by transactions on the core, on a
gateway, on a dApp contract or on Bitcoin.

## 1. The system

| component | state it keeps | operations | hard because |
|---|---|---|---|
| relay handlers (`relayer/relay.ts`, `handler/eventHandler.ts`) | none but promise chains in memory | four event handlers: ContractCall, core ContractCallApproved, gateway ContractCallApproved, EVMEventCompleted | the four chains write one row and never synchronise; they share batches of commands; a crash loses them |
| Bitcoin execution (`handler/eventBTCHandler.ts`, `services/dApp.ts`, `utils/btc-utils.ts`) | none | sign a batch, broadcast a burning transaction, wait for it, mark the row | batches are shared, only the first command is executed, failure after the broadcast |
| RabbitMQ ingress (`relayer/rabbitmq.ts`) | position of a message at the broker | parse, record, confirm, acknowledge or reject | crash between two steps, redelivery, dead-lettering |
| core signing client (`AxelarSignerClient.ts`) | account sequence | sign and broadcast with retries | concurrent calls through one account |
| core client (`AxelarClient/index.ts`, `payloadBuilder.ts`) | none | confirm, pending commands, sign, poll for execute data, route | lost answers, an unbounded poll, errors hidden as `undefined` |
| EVM client (`EvmClient.ts`) | wallet nonce | gateway execute, dApp execute, approval check | the retry repeats what may have been done; concurrent calls compete for nonces; the wait has no limit |
| database client (`DatabaseClient.ts`, `schema.prisma`) | `RelayData`, `CallContract`, log tables | create, look up, update status | unique keys, updates that do not look at what they overwrite |
| event listeners (`listeners/`) | web sockets, filter subscriptions | parse and hand over events | events are lost while disconnected, an event whose row is missing is dropped |
| operator set (`authHandler.ts`, `transferOperatorship.ts`, `createOperatorEpoch`) | epochs | register a set, validate a proof | check-then-create, ids as epochs, one-pass signature matching; not called in this version |
| HTTP API, configuration, logging, hardhat | none that changes | read-only | - |

The interactions: listeners hand events to rxjs subjects, a subject starts a promise
chain, every `await` of a chain is a point where the other chains run.  All chains use
one database client, one core account (`SignerClient`) and one EVM wallet per chain.
The ingress and the EVM ContractCall handler create rows; the parsers of core events
look them up; the two ContractCallApproved handlers and the EVMEventCompleted handler
write their status.

What makes each part correct: a status never claims what did not happen (SUCCESS) and never
blames what did not fail (FAILED); no command is lost between handlers; a message of the queue
is acknowledged only when its row exists and the core has answered; the core executes a
broadcast once; no more rows are marked with a burning transaction than withdrawals carry it; a
call of the EVM client that returns nothing has done nothing, until something has failed; an
operator set in force is current, can reach its threshold, and lives through its retention.

## 2. Modules

| module | models | composed with |
|---|---|---|
| `EvmRelay` | the four handlers of messages bound for EVM chains, with the core, the gateway and the dApp as environment | implements `MessageLife`; `MCEvmRelay`, `EvmRelayProofs` |
| `MessageLife` | what the status of a row promises to those who read it, on its own | instantiated by `EvmRelay` |
| `BtcExecute` | the core ContractCallApproved handler of messages bound for Bitcoin | `MCBtcExecute`, `BtcExecuteProofs` |
| `BtcIngress` | the queue consumer, with the broker | implements `Settlement`; `MCBtcIngress`, `BtcIngressProofs` |
| `Settlement` | what the ingress promises, on its own | instantiated by `BtcIngress` |
| `SignerClient` | concurrent `broadcast` calls of one account, with the node | `MCSignerClient`, `SignerClientProofs` |
| `SubmitTx` | concurrent `submitTx` calls of one EVM wallet, with the node's mempool and the contracts | implements `ChainCall`; `MCSubmitTx`, `SubmitTxProofs` |
| `ChainCall` | what a handler takes a call of the EVM client for, on its own | instantiated by `SubmitTx` |
| `OperatorSet` | registration of operator sets and validation of proofs, with the database | `MCOperatorSet`, `OperatorSetProofs`, `QuorumProofs` |
| `DataFacts` | nothing of the code: what folds compute and what can be sorted, as lemmas | extended by `QuorumProofs` |

Conventions.  A handler is a program counter per message; one action is the code between two
awaits, whole.  An action that spends a fault (`Fault`) is a failure of the environment; the
others say `Ok`.  Contention is no failure: in `EvmRelay` a call that others of its wallet or
account outbid is told apart from one that failed, and spends no fault.  Only `BtcIngress`,
whose `MaxFaults` says so, counts a confirmation outbid among its failed calls.  An operator
commented *Wrong on purpose* is a plausible mistake in the code; no specification uses it.  It
records which property notices that mistake (`PROJECT.json`, `mutants`).

**EvmRelay.**  `status` is `RelayData.status` (`absent`: no row).  `call`, `appr`, `exec` and
`done` are the four handlers of a message, in the order `create-finality-confirm`,
`parse-query-sign-poll-gateway-update`, `find-check-execute-update`, `parse-route-update`;
`dead` is a handler that threw, was killed or never got its event.  The core reports a block in
one frame, and the parsers read the first value of each attribute (`event[...][0]`):
`CoreApproves` and `CoreCompletes` take a set of messages of which one gets a handler, and
`first` remembers which.  `core` and `gw` are what the core and the destination gateway hold of
the command.  Three facts of the code shape the model: `signCommands` names no command, so the
batch is whatever is pending (`SignCommands`); `findCosmosToEvmCallContractApproved` looks rows
up by payload hash, so a gateway event may work on the row of another message (`rows`); and
`isCallContractExecuted` is the negation of the gateway's approval. `routeMessageRequest` cuts
the first two characters of a payload that has no `0x`, so a core that checks the payload may
refuse it: `CoreRefuses`.  `packetSequence` is unique over all rows although sequences count per
channel, so the last update may be rejected: `SequenceTaken`.  The handlers share a wallet and
an account without a lock, and the clients give up after a number of attempts: two
`gatewayExecute` or `execute` calls that are under way together are `crowded` from then on,
until they return, and a crowded call may be `outbid`; a call of the account may be at any time,
as the account also serves the messages bound for other chains.  How contention comes about, and
that a call given up for it has done nothing, is the matter of `SubmitTx` and `SignerClient`
(`OnlyContentionFails`, `NothingLeftBehind`, `FailureIsClean`); what follows from it for the
rows is that of `EvmRelay`: an `execute` or a routing outbid marks its row FAILED
(`ExecuteFails`, `RouteFails`), a signature or a batch outbid leaves its commands where they
are.  `MessageLife` is what remains of all this for a reader of the row: it is created once for
a payload, and a mark is true of its message when it is written (signed into a batch, executed,
or met with a reason to fail), whatever was written before.

**BtcExecute.**  A message is a withdrawal and its command; `PsbtOf` is its burning transaction,
which two withdrawals may repeat.  `GetBurningTx` picks the first contract call of the batch,
whichever that is, as the loop returns inside its first iteration, and finds its PSBT in
whichever row has the payload hash.  `SubmitSignedTx` is the node's answer: it returns the id of
a transaction it has in its mempool as it does for a new one, and rejects one that is in the
chain (`mined`, by the action `Mine`).  Two withdrawals that repeat a transaction may therefore
both be marked with it.  The receipt comes from `GetTransaction` or, for a node whose wallet
does not know the transaction, from `GetMempoolTx`. `HandleMultipleEvmToBtcEventsTx` is the
database transaction: status, execute hash and log entries together, or (`HandlerFails`) not at
all.  The rows are there or not from the start, one for each payload hash (`Recordable`), and
other commands may share the batch.

**BtcIngress.**  `place` is the broker's view of a message, `pc` the handler's. `HandleMessage`
runs to the first await.  The core delivers a request as executed or as failed (`CoreConfirms`,
`CoreRefuses`); `confirmEvmTx` resolves in both cases, and the handler, which looks at nothing
but the presence of an answer, acknowledges both (`AckAnswered`).  A row clashes with another on
the id (the transaction) or on the payload hash.  `Crash` requeues what is unacknowledged.

**SignerClient.**  `checkSeq` is the sequence the node accepts next, `chainSeq` the committed
one, which is what a new attempt signs with: that gap is where mismatches come from.  A call
that meets a mismatch sleeps and tries again with one more retry.

**SubmitTx.**  A call goes `populate-send-wait` and, on any error, `sleep` and `populate` again
until `tries` reaches `MaxRetry` (the recursion of `submitTx` with `retryAttempt + 1`). `slot`
is who holds each nonce of the wallet, `mined` the next one the chain mines. `Populate` reads
the pending count, an await before `SendTransaction` uses it, so that two calls may hold one
nonce: the node rejects the second or lets it replace the first.  `Wait` returns when the nonce
is mined, with the receipt, or rejects because the transaction was replaced or reverted; there
is no limit on it.  `Once` are calls that revert when repeated (a dApp call consumes its
approval), the others (a gateway batch) may be executed again without reverting.  `State` is
what `gatewayExecute` and `execute` tell the handler: a receipt, or `undefined`.  `ChainCall` is
the atomic call a handler would like to have, as long as its variable `lossy` is FALSE; it turns
TRUE with the first fault, and from then on a failed call may have had its effect or still get
it, which is what `GatewayExecuteFails` and `ExecuteFails` of `EvmRelay` allow at a fault, and
only then.

**OperatorSet.**  A registered set is a row whose id is its epoch (`row`); hashes do not
collide, so a set stands for its hash.  A transfer reads the key, sorts it, checks it
(`IsWellFormed`), looks for a duplicate and inserts: three awaits, between which any other
transfer may run.  The database hands out the id (`Insert`) before the row is visible
(`Commit`).  A validation reads the epoch of its set, then the current epoch, and judges the
signatures in the same step.  `Matched` is one turn of the loop of `_validateSignatures`, folded
over the signatures.  `alone` is a history variable: the transfers no other overlapped.

## 3. Runs

| run | instance | shows |
|---|---|---|
| `EvmRelay_races` | 2 messages, one transaction, one payload, one announced complete, other relayers, no faults; 3.1 M states | `TypeOK`; SUCCESS is earned (`SuccessMeansExecuted`); FAILED has a cause, contention for the wallet or the account among them (`FailedHasCause`); rows live as `MessageLife` allows (`ImplementsMessageLife`) |
| `EvmRelay_faults` | 2 messages, one transaction, two payloads, one announced complete, 1 fault, reorganisations, fair; 1.3 M states | the core hears only of what is recorded (`ConfirmedIsRecorded`); while nothing fails no command is left between handlers (`NoCommandStranded`) and an approved message is executed (`EventuallyExecuted`), unless a call on the way was outbid |
| `EvmRelay_regress` | 2 messages, no faults | **violation** of `NoStatusRegress`: SUCCESS is overwritten by APPROVED |
| `EvmRelay_reorg` | 1 fault, reorganisations | **violation** of `FalseBeforeCommand`: a check before the command answers `executed` |
| `EvmRelay_already` | other relayers, one message announced complete | **violation** of `AlreadyExecutedIsSuccess`: the error path marks FAILED |
| `BtcIngress` | 5 messages (one plain, one repeated, one of the same payload, one above the stop height, one malformed), 3 faults, fair; 40 k states | acknowledged means recorded and answered (`AckedIsDone`), dead-lettered is explained, everything is settled, `Settlement` is implemented |
| `BtcIngress_one` | the same, no faults | **violation** of `OneMessageAtATime`: the finally block overlaps the next message |
| `SignerClient` | 3 calls, 2 attempts, 1 other error, fair; 5 k states | no double execution, clean failures, only contention fails, every call ends |
| `BtcExecute` | 3 withdrawals, two of one burning transaction, and 1 other command, 2 faults, fair; 176 k states | each mark has a withdrawal of its own (`OneWithdrawalPerMark`), no burn lost, every burn marked |
| `BtcExecute_own` | 2 withdrawals, no faults | **violation** of `SuccessMeansOwnBurn`: a row is marked for another's burn |
| `SubmitTx` | 3 calls (one that reverts, two that revert when repeated), 2 attempts, 1 fault, fair; 81 k states | no transaction survives its call, no effect twice, only contention fails, every call ends; `ChainCall` is implemented, lossless until the fault |
| `OperatorSet` | 3 transfers of 4 keys (one unsorted, one whose threshold is out of reach, one with a repeated operator), 1 validation of up to 3 signatures, retention 2, 1 fault, symmetry; 404 k states | quorums are possible (`QuorumPossible`) and found (`QuorumSigned`), `true` means current, sets live through their retention, epochs are final, a transfer alone applies |

The violations are described, with the lines that disagree, under `findings` in
`PROJECT.json`.

**Bounds.**  The handlers interact only through a shared transaction, a shared payload, a shared
batch, a shared block, one row, or the wallet and account they share.  Two messages of one
transaction and one payload have all these relations at once, in both orders; a third matters
only where the first of a batch belongs to neither of two handlers (`BtcExecute`).  `MaxFaults`
bounds environment failures: one suffices to reach each failure action (two in `BtcExecute`, so
that a fault can strike after another), and three let a queue message be delivered three times.
In `BtcIngress` each message of the instance stands for one way through the handler. `MaxRetries
= 2` with three calls is the smallest instance where a call loses every attempt; the same holds
of `SubmitTx`, whose `MaxNonce` leaves room for every attempt of every call (with three attempts
and ten nonces, 547 k states, all properties hold as well).  With three transfers and a
retention of two a set can expire, two transfers can register one set at once, and a failed one
can leave a gap in the ids; four transfers (2.8 M states) show nothing new.  Symmetry is used
where no property or constant tells the elements apart, and never with a liveness property.

**Deadlock** is not checked: each system comes to rest when every message is settled and the
environment does nothing more.

**Fairness.**  `EvmRelay`: weak fairness of the core approval and the gateway approval handler
of each message, the two chains on the way to the execution, as the event loop resumes every
promise chain, an RPC call returns or throws, and a batch gets its signature (the poll has no
bound, so this is an assumption about the core).  Nothing is assumed of the core's
announcements, other relayers or logs.  `EventuallyExecuted` is therefore stated from the moment
the command is pending, and excuses a fault, a message whose block's first event was dropped
because its row was not yet there (for good: events are not replayed), one the core executes or
refuses itself, and a message one of whose own calls was outbid (`StoppedShort`).  With a shared
payload the second row does not exist, so the instance gives each message its own. `BtcIngress`:
the broker delivers, the handler goes on, the core answers a request it was sent, one way or the
other.  A handler whose connect rejects for ever does not contradict it: it nacks.
`SignerClient`: timers fire, promises resume, the core commits blocks; errors are not fair.
`BtcExecute`: the handler goes on.  `SubmitTx`: the chain mines the next nonce, and every call
goes on, each by weak fairness; no fault is fair.  `OperatorSet` states no liveness: its calls
are straight lines that end.

## 4. Proofs

All for any sets of messages, transactions, payloads, calls, commands and keys and any bounds,
from the named assumptions on the constants alone.

* `EvmRelayProofs`
  * `TypeCorrect`: `TypeOK`.
  * `SuccessEarned` (with `~Reorgs`; the run `EvmRelay_reorg` shows why): the mark is
    written several awaits after what it rests on was read, so the invariant
    `EarnedInv` follows the knowledge: a gateway handler runs only for commands the
    gateway has approved (`RunsApproved`), works on rows of its own payload
    (`OwnPayload`), has prepared SUCCESS only for a consumed approval
    (`PreparedIsEarned`), and a verdict of SUCCESS is an executed message
    (`VerdictIsEarned`).
  * `FailureExplained`: `CauseInv` is the same for FAILED: between the check and the call an
    approval disappears only by a fault or a foreign call (`CallHolds`), a call that is made
    although the approval is there fails only by a fault or outbid, and who was outbid stays so.
  * `NothingStranded`: `NoCommandStranded` is inductive together with `AnnouncedFirst`
    (lemma `Announced`): who signs takes over exactly what was pending, and the pending
    commands of other handlers thereby stop being theirs.  A handler whose gateway
    call was outbid is over, so it keeps the batch it failed to send (`GivenUpForGood`).
  * `RecordedFirst`: `ConfirmedIsRecorded` with `CalledIsRecorded`.
  * `Implements` (with `~Reorgs`): every step is a step of `MessageLife` or leaves it
    unchanged.  Marks are true by `EarnedInv`, `CauseInv` and `SignedIsBatched` (who has signed
    anything has its own command in a batch, though perhaps in another handler's); rows are
    there when they are marked by `WritesRows`; and `TruthsRemain` says that nothing the marks
    rest on is ever undone.
* `BtcIngressProofs`: `IngressInv` says that a handler reaches its request only through
  a row of its own, that no two rows share a transaction, that a transaction asked
  about is that of a row whose handler is past the request, and that the core answers only what
  it was asked (`AnsweredWasAsked`); from it `AckIsSafe`,
  `RecordedFirst` and `Implements` (every step of the ingress is a step of `Settlement`
  or leaves it unchanged).  `DeadLetters` adds that without failures a row
  belongs to a message that is being confirmed or was acknowledged (`RowsAreKept`).
* `SignerClientProofs`: `OnceInv` bounds where a call can be (nowhere while it is
  tried, once at the node while it waits); from it `NoDoubleExecution` and `CleanFailure`.
  `ContentionOnly`: what a call signs with is never ahead of the node, which counts only what
  it has accepted (`SequenceBehind`), so a call that met a mismatch met a node that had accepted
  another (`MetMismatch`).
* `BtcExecuteProofs`: `BurnInv` says that the batches of two handlers have no command in
  common (`BatchesDisjoint`), that what a handler broadcasts is carried by a withdrawal of its
  batch (`FromOwnBatch`) and is on Bitcoin once it is broadcast, and that a row's hash is its
  handler's.  So the withdrawals the handlers found are a one-to-one choice, which is
  `OwnWithdrawal`, whatever the node does with a transaction it knows; `NoBurnLost` follows
  from the same invariant.
* `SubmitTxProofs`: a call under way has an attempt left (`AttemptLeft`), mined nonces keep
  their transaction (`MinedStays`), receipts come from effects and effects from mined nonces
  (`Earned`), and without faults a call waits at the nonce of its effect or has the receipt
  (`EffectKnown`).  These, with `NothingLeftBehind` itself (theorem `NothingIsLeftBehind`), are
  inductive; `EffectKnown` gives one call one nonce of effect (`NoSecondEffect`), and `Earned`
  gives `Implements`: every step is a step of `ChainCall` or leaves it unchanged.
  `ContentionOnly` counts: without faults the nonces of the wallet are taken without gaps
  (`NoGaps`), and below the nonce of a call lie at least as many lost ones as it has given up
  attempts (`EachAttemptLost`), because every new attempt reads a higher count.
* `OperatorSetProofs`: an id taken and not committed is nobody else's (`Held`), the epoch a
  validation has found is that of a row with its set (`FoundIsRow`), and a transfer alone so
  far took the last id and sees the rows it checked (`LoneIsLast`).  From these `EpochsStay`,
  `TrueIsCurrent` and `LoneApplies`.  `Expires` needs a count on top: the ids neither
  committed nor held are no more than the faults (`GoneIsFault`), so an epoch that is
  `Retention` behind has that many rows, held ids or faults above it.
* `QuorumProofs`: what `_validateSignatures` accepts, for any number of operators and
  signatures.  The pass is followed signature by signature (`Stands`): while it goes on, the
  signatures so far are of different operators in ascending order, it is at the last of
  them, and its weight is theirs and below the threshold; when it ends, it has met the
  first quorum or the first signature that rules one out.  So it accepts if and only if
  there is a quorum (`PassFindsQuorum`), and all operators of a set that passed
  `createOperatorEpoch` are one (`AllOperatorsPass`).  An invariant carries this to the
  database: registered sets are well formed (`SetsAreWellFormed`) and an answer tells what
  the pass said (`Judged`); from it `QuorumAlwaysPossible` and `QuorumAlwaysSigned`.  The
  addresses and weights of a key are numbers (`KeygenAssumption`), as in the ABI encoding that
  `createOperatorEpoch` decodes.
* `DataFacts`: what `QuorumProofs` needs to know of `FoldLeft` and `MapThenSumSet`, which are
  defined by a choice among recursive functions, and of sorting.  The induction theorems of
  the library take the predicate as an operator, which the provers cannot instantiate; here
  induction is over sets of numbers or of finite sets (`Induct`, `InductSets`), by the least
  element outside.  `Recursion` shows that the recursive function exists, whichever element is
  picked first; `LeftRecursion` and `LeftToRight` that `FoldLeft` goes from left to right;
  `SumFacts` that a sum does not depend on the order; `SortedExists` that `Sorted` is some
  order of the participants.

So every safety property that a passing run checks is a theorem.  Only model-checked are the
liveness properties `EventuallyExecuted`, `EverySettled`, `EveryBurnMarked` and the two
`EveryCallEnds`, which are outside the prover's logic of steps.

## 5. What is not modelled

* The WithToken and Cosmos-to-EVM handlers: their subscriptions are commented out.
* The log tables `CallContractApproved` and `CommandExecuted` on the EVM side: written,
  with errors swallowed, and read by nothing in the relayer.
* The contents of messages, conversions included, except where a handler depends on
  one: a message that does not parse, the cut payload, the payload hash.
* The start-up of the gateway listener: three `listen` calls, not awaited, share one
  `currentBlock` and each removes the listeners of the one before.  No handler is under way
  then; what the start skips is a lost event of `EvmRelay`.
* Errors of the streams themselves, and reconnects: an event is delivered once or lost.
* `DatabaseClient.updateCosmosToEvmEvent` leaves `updatedAt` alone, `updateEventStatus` moves
  it: the time stamps order nothing the relayer reads.
* The HTTP API (read-only queries; what it says of the status values is the subject of a
  finding), configuration, logging, the sample contracts and deployment tasks.
* How a PSBT is decoded and signed, and the checks of the batch before it: outcomes.

## 6. Plan

Done: the four live handlers with the core and the gateway around them, Bitcoin execution,
the ingress, the two clients that retry, and the operator set; an abstract specification each
of the row, the ingress and the EVM call; theorems for every safety property.  Left:

1. A composition of `SignerClient` and `SubmitTx` with the handlers of `EvmRelay`, which takes
   from them only that a call can be outbid, not how many others that needs.
2. `BtcExecute` as an implementation of `MessageLife`, with the burn as its execution.
3. The start-up of the gateway listener.
