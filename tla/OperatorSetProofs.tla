------------------------- MODULE OperatorSetProofs --------------------------
(***************************************************************************)
(* What OperatorSet keeps for any keys, any number of transfers and         *)
(* validations, and any retention.                                          *)
(***************************************************************************)
EXTENDS OperatorSet, FiniteSetTheorems, TLAPS

\* An id taken and not committed is nobody else's.
Held ==
  /\ \A r \in Busy : params[r] \in Params
  /\ \A r \in Transfer : reg[r] = "commit" => id[r] \in 1 .. next - 1 /\ id[r] \notin DOMAIN row
  /\ \A r, s \in Transfer :
       reg[r] = "commit" /\ reg[s] = "commit" /\ id[r] = id[s] => r = s

\* The epoch a validation has found is that of a row with its set.
FoundIsRow ==
  \A v \in Validation :
    /\ val[v] \in {"idle", "find"} => found[v] = 0
    /\ found[v] # 0 => found[v] \in DOMAIN row /\ row[found[v]] = proof[v]

\* A transfer alone so far is the only one under way: it took the last id, and the
\* rows are those it saw when it checked for its set.
LoneIsLast ==
  \A r \in alone \cap Busy :
    /\ Busy = {r}
    /\ reg[r] = "commit" => id[r] = next - 1
    /\ reg[r] # "check" => \A n \in DOMAIN row : row[n] # params[r]

IInv == Held /\ FoundIsRow /\ LoneIsLast

LEMMA Verdicts == \A p, s :
  ValidateSignatures(p, s) \in {"ok", "LowSignaturesWeight", "MalformedSigners"}
BY DEF ValidateSignatures

LEMMA Judgements == \A v, epoch, p, s :
  Judge(v, epoch, ValidateSignatures(p, s)) \in Answers
BY Verdicts DEF Judge, Answers

LEMMA EmptySigned == <<>> \in Signatures
<1>1. 0 \in 0 .. MaxSigs /\ <<>> \in [1 .. 0 -> Address]
  BY OperatorAssumption
<1>. QED
  BY <1>1 DEF Signatures, BoundedSeq, SeqOf

LEMMA InitInv == Init => TypeOK /\ IInv
<1>. SUFFICES ASSUME Init PROVE TypeOK /\ IInv
  OBVIOUS
<1>1. DOMAIN row = {}
  BY DEF Init
<1>2. row \in [DOMAIN row -> Params]
  BY <1>1 DEF Init
<1>. QED
  BY <1>1, <1>2, OperatorAssumption, EmptySigned DEF Init, TypeOK, RegPc, ValPc, Answers,
     IInv, Held, FoundIsRow, LoneIsLast, Busy

\* Committing adds a row and leaves the others.
LEMMA Added ==
  ASSUME TypeOK, Held, NEW r \in Transfer, reg[r] = "commit", Adds(r)
  PROVE  /\ DOMAIN row' = DOMAIN row \cup {id[r]}
         /\ row'[id[r]] = params[r]
         /\ \A n \in DOMAIN row : row'[n] = row[n]
         /\ row' \in [DOMAIN row' -> Params]
         /\ DOMAIN row' \subseteq 1 .. next - 1
         /\ params[r] \in Params
         /\ id[r] \notin DOMAIN row
<1>1. params[r] \in Params /\ id[r] \in 1 .. next - 1 /\ id[r] \notin DOMAIN row
  BY DEF Held, Busy
<1>2. DOMAIN row' = DOMAIN row \cup {id[r]}
  BY DEF Adds
<1>3. row'[id[r]] = params[r] /\ \A n \in DOMAIN row : row'[n] = row[n]
  BY <1>1 DEF Adds
<1>4. row' \in [DOMAIN row' -> Params]
  BY <1>1, <1>2 DEF Adds, TypeOK
<1>. QED
  BY <1>1, <1>2, <1>3, <1>4 DEF TypeOK

LEMMA TypeStep == TypeOK /\ IInv /\ [Next]_vars => TypeOK'
<1>. SUFFICES ASSUME TypeOK, IInv, [Next]_vars PROVE TypeOK'
  OBVIOUS
<1>. USE OperatorAssumption DEF TypeOK
<1>1. ASSUME NEW r \in Transfer, TransferOperatorship(r) PROVE TypeOK'
  BY <1>1 DEF TransferOperatorship, Goto, Ok, valVars, RegPc
<1>2. ASSUME NEW r \in Transfer, FindDuplicate(r) PROVE TypeOK'
  BY <1>2 DEF FindDuplicate, Goto, Ok, valVars, RegPc
<1>3. ASSUME NEW r \in Transfer, Insert(r) PROVE TypeOK'
  BY <1>3 DEF Insert, Goto, Ok, valVars, RegPc
<1>4. ASSUME NEW r \in Transfer, Commit(r) PROVE TypeOK'
  <2>1. row' \in [DOMAIN row' -> Params] /\ DOMAIN row' \subseteq 1 .. next - 1
    BY <1>4, Added DEF Commit, IInv
  <2>. QED
    BY <1>4, <2>1 DEF Commit, Goto, Ok, valVars, RegPc
<1>5. ASSUME NEW r \in Transfer, TransferFails(r) PROVE TypeOK'
  <2>1. row' \in [DOMAIN row' -> Params] /\ DOMAIN row' \subseteq 1 .. next - 1
    BY <1>5, Added DEF TransferFails, IInv
  <2>. QED
    BY <1>5, <2>1 DEF TransferFails, Goto, Fault, valVars, RegPc
<1>6. ASSUME NEW v \in Validation, ValidateProof(v) PROVE TypeOK'
  BY <1>6 DEF ValidateProof, Ok, regVars, ValPc
<1>7. ASSUME NEW v \in Validation, FindOperatorshipEpoch(v) PROVE TypeOK'
  BY <1>7 DEF FindOperatorshipEpoch, Ok, regVars, ValPc
<1>8. ASSUME NEW v \in Validation, GetCurrentEpoch(v) PROVE TypeOK'
  <2>1. answer' \in [Validation -> Answers] /\ signed' \in [Validation -> Signatures]
    BY <1>8, Judgements DEF GetCurrentEpoch
  <2>. QED
    BY <1>8, <2>1 DEF GetCurrentEpoch, Ok, regVars, ValPc
<1>9. ASSUME NEW v \in Validation, ValidationFails(v) PROVE TypeOK'
  BY <1>9 DEF ValidationFails, Fault, regVars, ValPc
<1>10. CASE UNCHANGED vars
  BY <1>10 DEF vars
<1>. QED
  BY <1>1, <1>2, <1>3, <1>4, <1>5, <1>6, <1>7, <1>8, <1>9, <1>10 DEF Next

LEMMA InvStep == TypeOK /\ IInv /\ [Next]_vars => IInv'
<1>. SUFFICES ASSUME TypeOK, IInv, [Next]_vars PROVE IInv'
  OBVIOUS
<1>. USE OperatorAssumption DEF TypeOK, IInv
<1>1. ASSUME NEW r \in Transfer, TransferOperatorship(r) PROVE IInv'
  <2>1. PICK p \in Params :
          /\ params' = [params EXCEPT ![r] = p]
          /\ Goto(r, IF IsWellFormed(p) THEN "check" ELSE "failed")
          /\ alone' = IF IsWellFormed(p) /\ Busy # {} THEN alone \ (Busy \cup {r}) ELSE alone
    BY <1>1 DEF TransferOperatorship
  <2>2. FoundIsRow'
    BY <1>1 DEF TransferOperatorship, valVars, FoundIsRow
  <2>3. r \notin Busy /\ reg[r] = "idle"
    BY <1>1 DEF TransferOperatorship, Busy
  <2>4. CASE IsWellFormed(p)
    <3>1. reg' = [reg EXCEPT ![r] = "check"] /\ Busy' = Busy \cup {r}
      BY <2>1, <2>4 DEF Goto, Busy
    <3>2. Held'
      BY <1>1, <2>1, <3>1 DEF TransferOperatorship, Held, Busy
    <3>3. LoneIsLast'
      BY <2>1, <2>4, <3>1 DEF LoneIsLast
    <3>. QED
      BY <2>2, <3>2, <3>3
  <2>5. CASE ~IsWellFormed(p)
    <3>1. reg' = [reg EXCEPT ![r] = "failed"] /\ Busy' = Busy
      BY <2>1, <2>3, <2>5 DEF Goto, Busy
    <3>2. Held'
      BY <1>1, <2>1, <2>3, <3>1 DEF TransferOperatorship, Held, Busy
    <3>3. LoneIsLast'
      BY <1>1, <2>1, <2>3, <2>5, <3>1 DEF TransferOperatorship, LoneIsLast
    <3>. QED
      BY <2>2, <3>2, <3>3
  <2>. QED
    BY <2>4, <2>5
<1>2. ASSUME NEW r \in Transfer, FindDuplicate(r) PROVE IInv'
  <2>1. Held' /\ FoundIsRow'
    BY <1>2 DEF FindDuplicate, Goto, valVars, Held, FoundIsRow, Busy
  <2>2. LoneIsLast'
    BY <1>2 DEF FindDuplicate, Goto, LoneIsLast, Busy
  <2>. QED
    BY <2>1, <2>2
<1>3. ASSUME NEW r \in Transfer, Insert(r) PROVE IInv'
  <2>1. FoundIsRow'
    BY <1>3 DEF Insert, valVars, FoundIsRow
  <2>2. Held'
    BY <1>3 DEF Insert, Goto, Held, Busy
  <2>3. Busy' = Busy /\ r \in Busy
    BY <1>3 DEF Insert, Goto, Busy
  <2>4. LoneIsLast'
    BY <1>3, <2>3 DEF Insert, Goto, LoneIsLast
  <2>. QED
    BY <2>1, <2>2, <2>4
<1>4. ASSUME NEW r \in Transfer, Commit(r) \/ TransferFails(r) PROVE IInv'
  <2>1. r \in Busy /\ Busy' = Busy \ {r} /\ reg'[r] \in {"done", "failed"}
    BY <1>4 DEF Commit, TransferFails, Goto, Busy
  <2>2. UNCHANGED row \/ (reg[r] = "commit" /\ Adds(r))
    BY <1>4 DEF Commit, TransferFails
  <2>3. LoneIsLast'
    BY <2>1, <1>4 DEF Commit, TransferFails, LoneIsLast
  <2>4. FoundIsRow'
    <3>1. CASE UNCHANGED row
      BY <1>4, <3>1 DEF Commit, TransferFails, valVars, FoundIsRow
    <3>2. CASE reg[r] = "commit" /\ Adds(r)
      <4>1. DOMAIN row \subseteq DOMAIN row' /\ \A n \in DOMAIN row : row'[n] = row[n]
        BY <3>2, Added
      <4>. QED
        BY <1>4, <4>1 DEF Commit, TransferFails, valVars, FoundIsRow
    <3>. QED
      BY <2>2, <3>1, <3>2
  <2>5. Held'
    <3>1. UNCHANGED <<params, id, next>>
      BY <1>4 DEF Commit, TransferFails
    <3>2. \A s \in Transfer : reg'[s] = "commit" => s # r /\ reg[s] = "commit"
      BY <1>4 DEF Commit, TransferFails, Goto
    <3>3. DOMAIN row' \subseteq DOMAIN row \cup {id[r]} \/ DOMAIN row' = DOMAIN row
      BY <2>2, Added
    <3>4. reg[r] # "commit" => DOMAIN row' = DOMAIN row
      BY <2>2
    <3>. QED
      BY <2>1, <3>1, <3>2, <3>3, <3>4 DEF Held
  <2>. QED
    BY <2>3, <2>4, <2>5
<1>5. ASSUME NEW v \in Validation, ValidateProof(v) PROVE IInv'
  BY <1>5 DEF ValidateProof, regVars, Held, FoundIsRow, LoneIsLast, Busy
<1>6. ASSUME NEW v \in Validation, FindOperatorshipEpoch(v) PROVE IInv'
  BY <1>6 DEF FindOperatorshipEpoch, regVars, Held, FoundIsRow, LoneIsLast, Busy
<1>7. ASSUME NEW v \in Validation, GetCurrentEpoch(v) PROVE IInv'
  BY <1>7 DEF GetCurrentEpoch, regVars, Held, FoundIsRow, LoneIsLast, Busy
<1>8. ASSUME NEW v \in Validation, ValidationFails(v) PROVE IInv'
  BY <1>8 DEF ValidationFails, regVars, Held, FoundIsRow, LoneIsLast, Busy
<1>9. CASE UNCHANGED vars
  BY <1>9 DEF vars, Held, FoundIsRow, LoneIsLast, Busy
<1>. QED
  BY <1>1, <1>2, <1>3, <1>4, <1>5, <1>6, <1>7, <1>8, <1>9 DEF Next

LEMMA Invariant == Spec => [](TypeOK /\ IInv)
<1>. QED
  BY InitInv, TypeStep, InvStep, PTL DEF Spec

\* Every variable keeps its type; rows have ids the sequence has handed out.
THEOREM TypeCorrect == Spec => []TypeOK
<1>. QED
  BY Invariant, PTL

\* An epoch names the same set for ever: no insert comes by an id that is taken
\* (schema.prisma 108).
THEOREM EpochsStay == Spec => EpochsAreFinal
<1>1. TypeOK /\ IInv /\ [Next]_vars
      => [\A n \in DOMAIN row : n \in DOMAIN row' /\ row'[n] = row[n]]_vars
  <2>. SUFFICES ASSUME TypeOK, IInv, Next
                PROVE \A n \in DOMAIN row : n \in DOMAIN row' /\ row'[n] = row[n]
    OBVIOUS
  <2>1. UNCHANGED row \/ \E r \in Transfer : reg[r] = "commit" /\ Adds(r)
    BY DEF Next, TransferOperatorship, FindDuplicate, Insert, Commit, TransferFails,
       ValidateProof, FindOperatorshipEpoch, GetCurrentEpoch, ValidationFails
  <2>. QED
    BY <2>1, Added DEF IInv
<1>. QED
  BY <1>1, Invariant, PTL DEF Spec, EpochsAreFinal

\* validateProof answers `true' only for the set that is current at that moment
\* (authHandler.ts 18-28).
THEOREM TrueIsCurrent == Spec => TrueMeansCurrent
<1>1. TypeOK /\ IInv /\ [Next]_vars
      => [\A v \in Validation : answer[v] = "none" /\ answer'[v] = "true" =>
            \E n \in DOMAIN row : row[n] = proof[v] /\ \A k \in DOMAIN row : k <= n]_vars
  <2>. SUFFICES ASSUME TypeOK, IInv, Next, NEW v \in Validation,
                       answer[v] = "none", answer'[v] = "true"
                PROVE \E n \in DOMAIN row : row[n] = proof[v] /\ \A k \in DOMAIN row : k <= n
    OBVIOUS
  <2>1. GetCurrentEpoch(v)
    BY DEF Next, TypeOK, TransferOperatorship, FindDuplicate, Insert, Commit, TransferFails,
       ValidateProof, FindOperatorshipEpoch, GetCurrentEpoch, ValidationFails, valVars
  <2>2. PICK epoch \in 0 .. next, signers \in Signatures :
          /\ IsCurrentEpoch(epoch)
          /\ answer' = [answer EXCEPT ![v] =
                          Judge(v, epoch, ValidateSignatures(proof[v], signers))]
    BY <2>1 DEF GetCurrentEpoch
  <2>3. Judge(v, epoch, ValidateSignatures(proof[v], signers)) = "true"
    BY <2>2 DEF TypeOK
  <2>4. found[v] = epoch /\ found[v] # 0
    BY <2>3, Verdicts DEF Judge, IsExpired
  <2>. QED
    BY <2>2, <2>4 DEF IsCurrentEpoch, IInv, FoundIsRow
<1>. QED
  BY <1>1, Invariant, PTL DEF Spec, TrueMeansCurrent

\* A transfer that no other overlaps takes effect when it returns, and only once
\* (DatabaseClient.ts 354-370).
THEOREM LoneApplies == Spec => LoneTransferApplies
<1>1. TypeOK /\ IInv /\ [Next]_vars
      => [\A r \in alone : reg[r] = "commit" /\ reg'[r] = "done" =>
            \E n \in DOMAIN row' :
              /\ row'[n] = params[r]
              /\ \A k \in DOMAIN row' \ {n} : k < n /\ row'[k] # params[r]]_vars
  <2>. SUFFICES ASSUME TypeOK, IInv, Next, NEW r \in alone, reg[r] = "commit",
                       reg'[r] = "done"
                PROVE \E n \in DOMAIN row' :
                        /\ row'[n] = params[r]
                        /\ \A k \in DOMAIN row' \ {n} : k < n /\ row'[k] # params[r]
    OBVIOUS
  <2>1. r \in Transfer /\ Commit(r)
    BY DEF Next, TypeOK, TransferOperatorship, FindDuplicate, Insert, Commit, TransferFails,
       ValidateProof, FindOperatorshipEpoch, GetCurrentEpoch, ValidationFails, regVars, Goto
  <2>2. /\ DOMAIN row' = DOMAIN row \cup {id[r]}
        /\ row'[id[r]] = params[r]
        /\ \A n \in DOMAIN row : row'[n] = row[n]
        /\ id[r] \notin DOMAIN row
    BY <2>1, Added DEF Commit, IInv
  <2>3. id[r] = next - 1 /\ \A n \in DOMAIN row : row[n] # params[r]
    BY <2>1 DEF IInv, LoneIsLast, Busy
  <2>4. \A k \in DOMAIN row : k < id[r]
    BY <2>2, <2>3 DEF TypeOK
  <2>. QED
    BY <2>2, <2>3, <2>4
<1>. QED
  BY <1>1, Invariant, PTL DEF Spec, LoneTransferApplies

-----------------------------------------------------------------------------
(* Counting epochs                                                         *)

Committing == {r \in Transfer : reg[r] = "commit"}
Gone == (1 .. next - 1) \ (DOMAIN row \cup {id[r] : r \in Committing})

\* Each id that is neither a row nor held was lost to a fault.
GoneIsFault == Cardinality(Gone) <= faults

LEMMA GoneFinite == TypeOK => IsFiniteSet(Gone) /\ Cardinality(Gone) \in Nat
<1>. SUFFICES ASSUME TypeOK PROVE IsFiniteSet(Gone) /\ Cardinality(Gone) \in Nat
  OBVIOUS
<1>0. next - 1 \in Int
  BY DEF TypeOK
<1>1. IsFiniteSet(1 .. next - 1)
  BY <1>0, FS_Interval
<1>2. IsFiniteSet(Gone)
  BY <1>1, FS_Subset DEF Gone
<1>. QED
  BY <1>2, FS_CardinalityType

LEMMA HeldCount ==
  /\ IsFiniteSet({id[r] : r \in Committing})
  /\ IsFiniteSet(Committing)
  /\ Cardinality({id[r] : r \in Committing}) <= Cardinality(Committing)
<1>. DEFINE f == [r \in Committing |-> id[r]]
<1>1. f \in Surjection(Committing, {id[r] : r \in Committing})
  BY DEF Surjection
<1>2. IsFiniteSet(Committing)
  BY OperatorAssumption, FS_Subset DEF Committing
<1>. HIDE DEF f
<1>. QED
  BY <1>1, <1>2, FS_Surjection

LEMMA GoneStep == TypeOK /\ IInv /\ GoneIsFault /\ [Next]_vars => GoneIsFault'
<1>. SUFFICES ASSUME TypeOK, IInv, GoneIsFault, [Next]_vars PROVE GoneIsFault'
  OBVIOUS
<1>1. faults \in Nat /\ Cardinality(Gone) \in Nat /\ IsFiniteSet(Gone)
  BY OperatorAssumption, GoneFinite DEF TypeOK
<1>2. ASSUME Gone' \subseteq Gone, faults' \in Nat, faults' >= faults PROVE GoneIsFault'
  <2>1. IsFiniteSet(Gone') /\ Cardinality(Gone') <= Cardinality(Gone)
    BY <1>1, <1>2, FS_Subset
  <2>2. Cardinality(Gone') \in Nat
    BY <2>1, FS_CardinalityType
  <2>. QED
    BY <1>1, <1>2, <2>1, <2>2 DEF GoneIsFault
<1>3. ASSUME NEW n, Gone' \subseteq Gone \cup {n}, faults' = faults + 1 PROVE GoneIsFault'
  <2>1. IsFiniteSet(Gone \cup {n}) /\ Cardinality(Gone \cup {n}) <= Cardinality(Gone) + 1
    BY <1>1, FS_AddElement
  <2>2. IsFiniteSet(Gone') /\ Cardinality(Gone') <= Cardinality(Gone \cup {n})
    BY <1>3, <2>1, FS_Subset
  <2>3. Cardinality(Gone') \in Nat /\ Cardinality(Gone \cup {n}) \in Nat
    BY <2>1, <2>2, FS_CardinalityType
  <2>. QED
    BY <1>1, <1>3, <2>1, <2>2, <2>3 DEF GoneIsFault
<1>4. ASSUME UNCHANGED <<row, id, next>>, Committing' = Committing,
             faults' \in Nat, faults' >= faults
      PROVE GoneIsFault'
  BY <1>2, <1>4 DEF Gone
<1>5. ASSUME NEW r \in Transfer, TransferOperatorship(r) \/ FindDuplicate(r) PROVE GoneIsFault'
  BY <1>1, <1>4, <1>5 DEF TransferOperatorship, FindDuplicate, Goto, Ok, Committing, TypeOK
<1>6. ASSUME NEW r \in Transfer, Insert(r) PROVE GoneIsFault'
  <2>1. Committing' = Committing \cup {r} /\ r \notin Committing
    BY <1>6 DEF Insert, Goto, Committing, TypeOK
  <2>2. /\ id'[r] = next /\ next' = next + 1 /\ row' = row
        /\ \A s \in Committing : id'[s] = id[s]
    BY <1>6, <2>1 DEF Insert, Committing, TypeOK
  <2>3. \A n \in 1 .. next' - 1 : n \in 1 .. next - 1 \/ n = id'[r]
    BY <2>2 DEF TypeOK
  <2>4. Gone' \subseteq Gone
    BY <2>1, <2>2, <2>3 DEF Gone
  <2>. QED
    BY <1>1, <1>2, <1>6, <2>4 DEF Insert, Ok
<1>7. ASSUME NEW r \in Transfer, Commit(r) PROVE GoneIsFault'
  <2>1. Committing' = Committing \ {r} /\ UNCHANGED <<id, next>>
    BY <1>7 DEF Commit, Goto, Committing, TypeOK
  <2>2. DOMAIN row' = DOMAIN row \cup {id[r]}
    BY <1>7 DEF Commit, Adds
  <2>3. Gone' \subseteq Gone
    BY <2>1, <2>2 DEF Gone
  <2>. QED
    BY <1>1, <1>2, <1>7, <2>3 DEF Commit, Ok
<1>8. ASSUME NEW r \in Transfer, TransferFails(r) PROVE GoneIsFault'
  <2>1. Committing' = Committing \ {r} /\ UNCHANGED <<id, next>>
    BY <1>8 DEF TransferFails, Goto, Committing, TypeOK
  <2>2. DOMAIN row \subseteq DOMAIN row'
    BY <1>8 DEF TransferFails, Adds
  <2>3. Gone' \subseteq Gone \cup {id[r]}
    BY <2>1, <2>2 DEF Gone
  <2>. QED
    BY <1>3, <1>8, <2>3 DEF TransferFails, Fault
<1>9. ASSUME NEW v \in Validation,
             \/ ValidateProof(v) \/ FindOperatorshipEpoch(v)
             \/ GetCurrentEpoch(v) \/ ValidationFails(v)
      PROVE GoneIsFault'
  BY <1>1, <1>4, <1>9 DEF ValidateProof, FindOperatorshipEpoch, GetCurrentEpoch,
     ValidationFails, Ok, Fault, regVars, Committing
<1>10. CASE UNCHANGED vars
  BY <1>1, <1>4, <1>10 DEF vars, Committing
<1>. QED
  BY <1>5, <1>6, <1>7, <1>8, <1>9, <1>10 DEF Next

LEMMA GoneInit == Init => GoneIsFault
<1>. SUFFICES ASSUME Init PROVE GoneIsFault
  OBVIOUS
<1>1. Gone = {}
  BY DEF Init, Gone
<1>. QED
  BY <1>1, FS_EmptySet DEF Init, GoneIsFault

\* A registered set expires only behind Retention transfers, counting those under way
\* and those that failed (authHandler.ts 21).
THEOREM Expires == Spec => ExpiresAfterRetention
<1>1. TypeOK /\ IInv /\ GoneIsFault /\ [Next]_vars
      => [\A v \in Validation :
            found[v] # 0 /\ answer[v] = "none" /\ answer'[v] = "InvalidOperators" =>
              Cardinality({n \in DOMAIN row : n > found[v]})
                + Cardinality({r \in Transfer : reg[r] = "commit"}) + faults >= Retention]_vars
  <2>. SUFFICES ASSUME TypeOK, IInv, GoneIsFault, Next, NEW v \in Validation,
                       found[v] # 0, answer[v] = "none", answer'[v] = "InvalidOperators"
                PROVE Cardinality({n \in DOMAIN row : n > found[v]})
                        + Cardinality(Committing) + faults >= Retention
    BY DEF Committing
  <2>. DEFINE Later == {n \in DOMAIN row : n > found[v]}
              HeldIds == {id[r] : r \in Committing}
  <2>1. GetCurrentEpoch(v)
    BY DEF Next, TypeOK, TransferOperatorship, FindDuplicate, Insert, Commit, TransferFails,
       ValidateProof, FindOperatorshipEpoch, GetCurrentEpoch, ValidationFails, valVars
  <2>2. PICK epoch \in 0 .. next, signers \in Signatures :
          /\ IsCurrentEpoch(epoch)
          /\ answer' = [answer EXCEPT ![v] =
                          Judge(v, epoch, ValidateSignatures(proof[v], signers))]
    BY <2>1 DEF GetCurrentEpoch
  <2>3. Judge(v, epoch, ValidateSignatures(proof[v], signers)) = "InvalidOperators"
    BY <2>2 DEF TypeOK
  <2>4. epoch >= found[v] + Retention
    BY <2>3, Verdicts DEF Judge, IsExpired
  <2>5. found[v] \in DOMAIN row /\ epoch \in DOMAIN row
    BY <2>2 DEF IInv, FoundIsRow, IsCurrentEpoch
  <2>6. found[v] \in Nat \ {0} /\ epoch \in Nat /\ epoch <= next - 1 /\ next \in Nat
    BY <2>5 DEF TypeOK
  <2>7. (found[v] + 1) .. epoch \subseteq Later \cup (HeldIds \cup Gone)
    BY <2>6 DEF Gone
  <2>8. IsFiniteSet(Later) /\ Cardinality(Later) \in Nat
    <3>0. next - 1 \in Int
      BY <2>6
    <3>1. IsFiniteSet(1 .. next - 1)
      BY <3>0, FS_Interval
    <3>2. Later \subseteq 1 .. next - 1
      BY DEF TypeOK
    <3>. QED
      BY <3>1, <3>2, FS_Subset, FS_CardinalityType
  <2>9. /\ IsFiniteSet(HeldIds) /\ Cardinality(HeldIds) \in Nat
        /\ Cardinality(Committing) \in Nat /\ Cardinality(HeldIds) <= Cardinality(Committing)
    BY HeldCount, FS_CardinalityType
  <2>10. IsFiniteSet(Gone) /\ Cardinality(Gone) \in Nat /\ Cardinality(Gone) <= faults
    BY GoneFinite DEF GoneIsFault
  <2>. HIDE DEF Later, HeldIds
  <2>11. ASSUME NEW S, NEW T, IsFiniteSet(S), IsFiniteSet(T)
         PROVE IsFiniteSet(S \cup T) /\ Cardinality(S \cup T) \in Nat
               /\ Cardinality(S \cup T) <= Cardinality(S) + Cardinality(T)
    <3>1. IsFiniteSet(S \cup T) /\ IsFiniteSet(S \cap T)
      BY <2>11, FS_Union, FS_Intersection
    <3>2. /\ Cardinality(S \cup T) \in Nat /\ Cardinality(S \cap T) \in Nat
          /\ Cardinality(S) \in Nat /\ Cardinality(T) \in Nat
      BY <2>11, <3>1, FS_CardinalityType
    <3>3. Cardinality(S \cup T) = Cardinality(S) + Cardinality(T) - Cardinality(S \cap T)
      BY <2>11, FS_Union
    <3>. QED
      BY <3>1, <3>2, <3>3
  <2>12. /\ IsFiniteSet(HeldIds \cup Gone)
         /\ Cardinality(HeldIds \cup Gone) \in Nat
         /\ Cardinality(HeldIds \cup Gone) <= Cardinality(HeldIds) + Cardinality(Gone)
    BY <2>9, <2>10, <2>11
  <2>13. /\ IsFiniteSet(Later \cup (HeldIds \cup Gone))
         /\ Cardinality(Later \cup (HeldIds \cup Gone)) \in Nat
         /\ Cardinality(Later \cup (HeldIds \cup Gone))
              <= Cardinality(Later) + Cardinality(HeldIds \cup Gone)
    BY <2>8, <2>12, <2>11
  <2>14. Cardinality((found[v] + 1) .. epoch) <= Cardinality(Later \cup (HeldIds \cup Gone))
    BY <2>7, <2>13, FS_Subset
  <2>15. Cardinality((found[v] + 1) .. epoch) >= Retention
    <3>0. found[v] + 1 \in Int /\ epoch \in Int
      BY <2>6
    <3>1. Cardinality((found[v] + 1) .. epoch)
            = IF found[v] + 1 > epoch THEN 0 ELSE epoch - (found[v] + 1) + 1
      BY <3>0, FS_Interval
    <3>2. ASSUME NEW a \in Nat, NEW e \in Nat, NEW k \in Nat, e >= a + k
          PROVE (IF a + 1 > e THEN 0 ELSE e - (a + 1) + 1) >= k
      BY <3>2
    <3>. QED
      BY <2>4, <2>6, <3>1, <3>2, OperatorAssumption
  <2>16. Cardinality((found[v] + 1) .. epoch) \in Nat /\ faults \in Nat
    <3>0. found[v] + 1 \in Int /\ epoch \in Int
      BY <2>6
    <3>1. IsFiniteSet((found[v] + 1) .. epoch)
      BY <3>0, FS_Interval
    <3>2. faults \in Nat
      BY OperatorAssumption DEF TypeOK
    <3>. QED
      BY <3>1, <3>2, FS_CardinalityType
  <2>17. Cardinality(Later) + Cardinality(Committing) + faults >= Retention
    BY <2>8, <2>9, <2>10, <2>12, <2>13, <2>14, <2>15, <2>16, OperatorAssumption
  <2>. QED
    BY <2>17 DEF Later
<1>2. Spec => []GoneIsFault
  BY GoneInit, GoneStep, Invariant, PTL DEF Spec
<1>. QED
  BY <1>1, <1>2, Invariant, PTL DEF Spec, ExpiresAfterRetention

=============================================================================
