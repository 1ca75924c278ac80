---------------------------- MODULE OperatorSet -----------------------------
(***************************************************************************)
(* The operator sets allowed to sign for Bitcoin: transferOperatorship      *)
(* registers the set of the current signing key as a row whose id is its    *)
(* epoch, validateProof accepts signatures of a set as long as fewer than   *)
(* Retention epochs follow it.  Any number of both run at once over one     *)
(* database, whose column `hash' is not unique and whose sequence hands out *)
(* ids before the rows are committed.  Hashes do not collide: a set stands  *)
(* for its hash.                                                            *)
(***************************************************************************)
EXTENDS Naturals, SequencesExt

CONSTANTS
  Transfer,   \* calls of transferOperatorship
  Validation, \* calls of validateProof
  Keygen,     \* signing keys: [participants : Seq(address \X weight), threshold]
  Address,    \* addresses that sign
  Retention,  \* OLD_KEY_RETENTION
  MaxSigs,    \* bound on the signatures of a proof
  MaxFaults   \* bound on failed calls

\* A key as it is registered: transferOperatorship sorts the participants.
Sorted(s) ==
  CHOOSE q \in {[i \in DOMAIN s |-> s[p[i]]] : p \in Bijection(DOMAIN s, DOMAIN s)} :
    \A i, j \in DOMAIN s : i < j => q[i][1] <= q[j][1]

Encoded(key) ==
  LET s == Sorted(key.participants) IN
  [operators |-> [i \in DOMAIN s |-> s[i][1]],
   weights   |-> [i \in DOMAIN s |-> s[i][2]],
   threshold |-> key.threshold]

Params == {Encoded(key) : key \in Keygen}
Signatures == BoundedSeq(Address, MaxSigs)
None == [operators |-> <<>>, weights |-> <<>>, threshold |-> 0]

ASSUME OperatorAssumption ==
  /\ IsFiniteSet(Transfer)
  /\ Retention \in Nat
  /\ MaxSigs \in Nat
  /\ MaxFaults \in Nat
  /\ None \notin Params

\* The ABI types of a registered set: addresses and weights are numbers.
ASSUME KeygenAssumption ==
  \A key \in Keygen : key.participants \in Seq(Nat \X Nat) /\ key.threshold \in Nat

VARIABLES
  reg,    \* progress of each transfer
  params, \* the set it registers
  id,     \* the id its insert took
  row,    \* the committed rows: id to set
  next,   \* the next id of the sequence
  alone,  \* transfers that no other transfer overlapped (history)
  val,    \* progress of each validation
  proof,  \* the set its proof names
  found,  \* operatorsEpoch, read first
  signed, \* the signers of its proof
  answer, \* what it answered
  faults

vars == <<reg, params, id, row, next, alone, val, proof, found, signed, answer, faults>>
regVars == <<reg, params, id, next, alone>>
valVars == <<val, proof, found, signed, answer>>

RegPc == {"idle", "check", "insert", "commit", "done", "failed"}
ValPc == {"idle", "find", "current", "over"}
Answers == {"none", "true", "false", "InvalidOperators", "MalformedSigners",
            "LowSignaturesWeight"}

Init ==
  /\ reg = [r \in Transfer |-> "idle"]
  /\ params = [r \in Transfer |-> None]
  /\ id = [r \in Transfer |-> 0]
  /\ row = [n \in {} |-> None]
  /\ next = 1
  /\ alone = Transfer
  /\ val = [v \in Validation |-> "idle"]
  /\ proof = [v \in Validation |-> None]
  /\ found = [v \in Validation |-> 0]
  /\ signed = [v \in Validation |-> <<>>]
  /\ answer = [v \in Validation |-> "none"]
  /\ faults = 0

Ok    == UNCHANGED faults
Fault == faults < MaxFaults /\ faults' = faults + 1
Goto(r, p) == reg' = [reg EXCEPT ![r] = p]

\* Wrong on purpose: the number of rows.
IsNumberOfRows(n) == n = Cardinality(DOMAIN row)

\* The epoch of the latest row, 0 without one.
IsCurrentEpoch(n) ==
  \/ n = 0 /\ DOMAIN row = {}
  \/ n \in DOMAIN row /\ \A k \in DOMAIN row : k <= n

-----------------------------------------------------------------------------
(* transferOperatorship and createOperatorEpoch                            *)

TotalWeight(p) == FoldLeft(LAMBDA x, y : x + y, 0, p.weights)

\* Wrong on purpose: the threshold is not held against the total weight.
IsWellFormedAnyThreshold(p) ==
  \A i, j \in DOMAIN p.operators : i < j => p.operators[i] < p.operators[j]

\* Without participants there is nothing to register; InvalidOperators,
\* InvalidThreshold.
IsWellFormed(p) ==
  /\ p.operators # <<>>
  /\ \A i, j \in DOMAIN p.operators : i < j => p.operators[i] < p.operators[j]
  /\ p.threshold # 0
  /\ TotalWeight(p) >= p.threshold

Busy == {r \in Transfer : reg[r] \in {"check", "insert", "commit"}}

TransferOperatorship(r) ==
  /\ reg[r] = "idle"
  /\ \E p \in Params :
       /\ params' = [params EXCEPT ![r] = p]
       /\ Goto(r, IF IsWellFormed(p) THEN "check" ELSE "failed")
       /\ alone' = IF IsWellFormed(p) /\ Busy # {} THEN alone \ (Busy \cup {r}) ELSE alone
  /\ Ok
  /\ UNCHANGED <<id, row, next, valVars>>

\* Wrong on purpose: only the latest row is looked at.
FindDuplicateOfLatest(r) ==
  /\ reg[r] = "check"
  /\ Goto(r, IF \E n \in DOMAIN row : IsCurrentEpoch(n) /\ row[n] = params[r]
               THEN "failed" ELSE "insert")
  /\ Ok
  /\ UNCHANGED <<params, id, row, next, alone, valVars>>

\* DuplicateOperators: a committed row has the hash.
FindDuplicate(r) ==
  /\ reg[r] = "check"
  /\ Goto(r, IF \E n \in DOMAIN row : row[n] = params[r] THEN "failed" ELSE "insert")
  /\ Ok
  /\ UNCHANGED <<params, id, row, next, alone, valVars>>

\* Wrong on purpose: the insert takes the epoch after the current one.
InsertAfterLatest(r) ==
  /\ reg[r] = "insert"
  /\ Goto(r, "commit")
  /\ \E n \in DOMAIN row \cup {0} : IsCurrentEpoch(n) /\ id' = [id EXCEPT ![r] = n + 1]
  /\ Ok
  /\ UNCHANGED <<params, row, next, alone, valVars>>

\* The insert takes the next id of the sequence ...
Insert(r) ==
  /\ reg[r] = "insert"
  /\ Goto(r, "commit")
  /\ id' = [id EXCEPT ![r] = next]
  /\ next' = next + 1
  /\ Ok
  /\ UNCHANGED <<params, row, alone, valVars>>

Adds(r) ==
  row' = [n \in DOMAIN row \cup {id[r]} |-> IF n = id[r] THEN params[r] ELSE row[n]]

\* ... and the row is visible once committed, not in the order of the ids.
Commit(r) ==
  /\ reg[r] = "commit"
  /\ Adds(r)
  /\ Goto(r, "done")
  /\ Ok
  /\ UNCHANGED <<params, id, next, alone, valVars>>

\* The query fails; the insert is rolled back, its id is gone; the answer is lost.
TransferFails(r) ==
  /\ reg[r] \in {"check", "insert", "commit"}
  /\ Goto(r, "failed")
  /\ \/ UNCHANGED row
     \/ reg[r] = "commit" /\ Adds(r)
  /\ Fault
  /\ UNCHANGED <<params, id, next, alone, valVars>>

-----------------------------------------------------------------------------
(* validateProof                                                           *)

\* _validateSignatures: one pass over the signatures and one over the operators.
\* `at' is the last operator matched, `end' how the pass ended.
Begun == [at |-> 0, weight |-> 0, end |-> "none"]

\* Wrong on purpose: the operator matched is looked at again.
MatchedAgain(p, pass, signer) ==
  LET ahead == {i \in DOMAIN p.operators : i >= pass.at /\ p.operators[i] = signer} IN
  IF pass.end # "none" THEN pass
  ELSE IF ahead = {} THEN [pass EXCEPT !.end = "MalformedSigners"]
  ELSE LET i == Min(ahead)
           w == pass.weight + p.weights[i]
       IN [at |-> i, weight |-> w, end |-> IF w >= p.threshold THEN "ok" ELSE "none"]

Matched(p, pass, signer) ==
  LET ahead == {i \in DOMAIN p.operators : i > pass.at /\ p.operators[i] = signer} IN
  IF pass.end # "none" THEN pass
  ELSE IF ahead = {} THEN [pass EXCEPT !.end = "MalformedSigners"]
  ELSE LET i == Min(ahead)
           w == pass.weight + p.weights[i]
       IN [at |-> i, weight |-> w, end |-> IF w >= p.threshold THEN "ok" ELSE "none"]

ValidateSignatures(p, signers) ==
  LET pass == FoldLeft(LAMBDA x, y : Matched(p, x, y), Begun, signers) IN
  IF pass.end = "ok" THEN "ok"
  ELSE IF pass.end = "none" THEN "LowSignaturesWeight" ELSE "MalformedSigners"

ValidateProof(v) ==
  /\ val[v] = "idle"
  /\ val' = [val EXCEPT ![v] = "find"]
  /\ \E p \in Params : proof' = [proof EXCEPT ![v] = p]
  /\ Ok
  /\ UNCHANGED <<regVars, row, found, signed, answer>>

\* Any row with the hash may be the one found first.
FindOperatorshipEpoch(v) ==
  /\ val[v] = "find"
  /\ val' = [val EXCEPT ![v] = "current"]
  /\ \/ \E n \in DOMAIN row : row[n] = proof[v] /\ found' = [found EXCEPT ![v] = n]
     \/ (\A n \in DOMAIN row : row[n] # proof[v]) /\ UNCHANGED found
  /\ Ok
  /\ UNCHANGED <<regVars, row, proof, signed, answer>>

\* Wrong on purpose: one epoch less.
IsExpiredEarly(v, epoch) == found[v] = 0 \/ epoch >= found[v] + Retention - 1

IsExpired(v, epoch) == found[v] = 0 \/ epoch >= found[v] + Retention

Judge(v, epoch, verdict) ==
  IF IsExpired(v, epoch) THEN "InvalidOperators"
  ELSE IF verdict # "ok" THEN verdict
  ELSE IF found[v] = epoch THEN "true" ELSE "false"

\* getCurrentEpoch, and all that follows without another await.  The signatures,
\* which come with the call, are chosen here, where they are first looked at.
GetCurrentEpoch(v) ==
  /\ val[v] = "current"
  /\ val' = [val EXCEPT ![v] = "over"]
  /\ \E epoch \in 0 .. next, signers \in Signatures :
       /\ IsCurrentEpoch(epoch)
       /\ signed' = [signed EXCEPT ![v] = signers]
       /\ answer' = [answer EXCEPT ![v] =
                       Judge(v, epoch, ValidateSignatures(proof[v], signers))]
  /\ Ok
  /\ UNCHANGED <<regVars, row, proof, found>>

\* A query of the validation fails: it throws.
ValidationFails(v) ==
  /\ val[v] \in {"find", "current"}
  /\ val' = [val EXCEPT ![v] = "over"]
  /\ Fault
  /\ UNCHANGED <<regVars, row, proof, found, signed, answer>>

-----------------------------------------------------------------------------

Next ==
  \/ \E r \in Transfer :
       \/ TransferOperatorship(r) \/ FindDuplicate(r) \/ Insert(r)
       \/ Commit(r) \/ TransferFails(r)
  \/ \E v \in Validation :
       \/ ValidateProof(v) \/ FindOperatorshipEpoch(v) \/ GetCurrentEpoch(v)
       \/ ValidationFails(v)

Spec == Init /\ [][Next]_vars

-----------------------------------------------------------------------------
(* Properties                                                              *)

\* Every variable keeps its type; rows have ids the sequence has handed out.
TypeOK ==
  /\ reg \in [Transfer -> RegPc]
  /\ params \in [Transfer -> Params \cup {None}]
  /\ next \in Nat \ {0}
  /\ id \in [Transfer -> 0 .. next - 1]
  /\ DOMAIN row \subseteq 1 .. next - 1
  /\ row \in [DOMAIN row -> Params]
  /\ alone \subseteq Transfer
  /\ val \in [Validation -> ValPc]
  /\ proof \in [Validation -> Params \cup {None}]
  /\ found \in [Validation -> 0 .. next - 1]
  /\ signed \in [Validation -> Signatures]
  /\ answer \in [Validation -> Answers]
  /\ faults \in 0 .. MaxFaults

\* No set is registered that locks its operators out: the signatures of all of them,
\* in the order of the set, pass _validateSignatures (DatabaseClient.ts 335-352
\* against authHandler.ts 31-60).
QuorumPossible ==
  \A n \in DOMAIN row : ValidateSignatures(row[n], row[n].operators) = "ok"

\* _validateSignatures, one pass that forgets what it has seen, finds the quorums: a
\* proof of a registered set is accepted if and only if some first signatures of it
\* are of different operators, in ascending order, that weigh the threshold
\* (authHandler.ts 31-60).
WeightOf(p, signers) ==
  MapThenSumSet(LAMBDA i : p.weights[i], {i \in DOMAIN p.operators : p.operators[i] \in signers})
HasQuorum(p, s) ==
  \E k \in DOMAIN s :
    /\ \A i \in 1 .. k : s[i] \in Range(p.operators)
    /\ \A i, j \in 1 .. k : i < j => s[i] < s[j]
    /\ WeightOf(p, {s[i] : i \in 1 .. k}) >= p.threshold
QuorumSigned ==
  \A v \in Validation : answer[v] \notin {"none", "InvalidOperators"} =>
    (answer[v] \in {"true", "false"} <=> HasQuorum(proof[v], signed[v]))

\* validateProof answers `true' only for the set that is the current one at that
\* moment, although it looks the set up before it asks for the current epoch and
\* transfers go on meanwhile (authHandler.ts 18-28).
TrueMeansCurrent ==
  [][\A v \in Validation : answer[v] = "none" /\ answer'[v] = "true" =>
       \E n \in DOMAIN row : row[n] = proof[v] /\ \A k \in DOMAIN row : k <= n]_vars

\* A registered set expires only behind Retention transfers.  Epochs are ids, not a
\* count: a transfer under way and a failed one may stand for a row that is not there
\* (authHandler.ts 21, schema.prisma 108).
ExpiresAfterRetention ==
  [][\A v \in Validation :
       found[v] # 0 /\ answer[v] = "none" /\ answer'[v] = "InvalidOperators" =>
         Cardinality({n \in DOMAIN row : n > found[v]})
           + Cardinality({r \in Transfer : reg[r] = "commit"}) + faults >= Retention]_vars

\* An epoch, once registered, names the same set for ever.
EpochsAreFinal ==
  [][\A n \in DOMAIN row : n \in DOMAIN row' /\ row'[n] = row[n]]_vars

\* A transfer that no other overlaps takes effect when it returns: its set is the
\* current one and has no other row (DatabaseClient.ts 354-370 checks for the hash and
\* creates the row in two steps: two at once may both create it, and the later to
\* return may have the smaller epoch).
LoneTransferApplies ==
  [][\A r \in alone : reg[r] = "commit" /\ reg'[r] = "done" =>
       \E n \in DOMAIN row' :
         /\ row'[n] = params[r]
         /\ \A k \in DOMAIN row' \ {n} : k < n /\ row'[k] # params[r]]_vars

=============================================================================
