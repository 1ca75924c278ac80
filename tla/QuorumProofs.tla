---------------------------- MODULE QuorumProofs -----------------------------
(***************************************************************************)
(* Which signatures OperatorSet accepts, for any keys and proofs: the one   *)
(* pass of _validateSignatures finds a quorum if and only if there is one,  *)
(* and all operators of a registered set are one.                           *)
(***************************************************************************)
EXTENDS OperatorSetProofs, DataFacts

Numbers(p, N) ==
  /\ N \in Nat
  /\ p.operators \in [1 .. N -> Nat]
  /\ p.weights \in [1 .. N -> Nat]
  /\ p.threshold \in Nat

\* Every set that is registered or named by a proof is one of numbers.
LEMMA ParamsNumbers ==
  ASSUME NEW p \in Params
  PROVE  \E N : Numbers(p, N)
<1>1. PICK key \in Keygen : p = Encoded(key)
  BY DEF Params
<1>. DEFINE t == key.participants
            L == Len(t)
            s == Sorted(t)
<1>2. t \in Seq(Nat \X Nat) /\ key.threshold \in Nat
  BY KeygenAssumption
<1>3. L \in Nat /\ DOMAIN t = 1 .. L /\ t \in [1 .. L -> Nat \X Nat]
  BY <1>2
<1>4. s \in {[i \in DOMAIN t |-> t[q[i]]] : q \in Bijection(DOMAIN t, DOMAIN t)}
  <2>. HIDE DEF L, t
  <2>1. PICK q \in Bijection(1 .. L, 1 .. L) :
          \A i, j \in 1 .. L : i < j => t[q[i]][1] <= t[q[j]][1]
    BY <1>3, SortedExists
  <2>2. \E u \in {[i \in DOMAIN t |-> t[k[i]]] : k \in Bijection(DOMAIN t, DOMAIN t)} :
          \A i, j \in DOMAIN t : i < j => u[i][1] <= u[j][1]
    <3>. DEFINE u == [i \in DOMAIN t |-> t[q[i]]]
    <3>1. u \in {[i \in DOMAIN t |-> t[k[i]]] : k \in Bijection(DOMAIN t, DOMAIN t)}
      BY <1>3
    <3>2. \A i, j \in DOMAIN t : i < j => u[i][1] <= u[j][1]
      BY <1>3, <2>1
    <3>. HIDE DEF u
    <3>. QED
      BY <3>1, <3>2
  <2>. QED
    BY <2>2 DEF Sorted
<1>5. s \in [1 .. L -> Nat \X Nat]
  <2>1. PICK q \in Bijection(DOMAIN t, DOMAIN t) : s = [i \in DOMAIN t |-> t[q[i]]]
    BY <1>4
  <2>2. \A i \in DOMAIN t : q[i] \in DOMAIN t
    BY DEF Bijection, Injection
  <2>. HIDE DEF L, t, s
  <2>. QED
    BY <1>3, <2>1, <2>2
<1>6. Numbers(p, L)
  <2>1. /\ p.operators = [i \in DOMAIN s |-> s[i][1]]
        /\ p.weights = [i \in DOMAIN s |-> s[i][2]]
        /\ p.threshold = key.threshold
    BY <1>1 DEF Encoded
  <2>. HIDE DEF L, t, s
  <2>. QED
    BY <1>2, <1>3, <1>5, <2>1 DEF Numbers
<1>. QED
  BY <1>6


\* TotalWeight adds up all weights.
LEMMA WeightsFold ==
  ASSUME NEW p, NEW N, Numbers(p, N)
  PROVE  TotalWeight(p) = SumAt(p.weights, 1 .. N)
<1>. DEFINE w == p.weights
            step == [x \in 1 .. N |-> [z \in Nat |-> z + w[x]]]
            Iter(g) == g = [s \in SUBSET (DOMAIN w) |->
                              IF s = {} THEN 0 ELSE g[s \ {Max(s)}] + w[Max(s)]]
            iter == CHOOSE g : Iter(g)
<1>0. N \in Nat /\ DOMAIN w = 1 .. N /\ \A i \in 1 .. N : w[i] \in Nat
  BY DEF Numbers
<1>1. TotalWeight(p) = iter[DOMAIN w]
  BY DEF TotalWeight, FoldLeft, MapThenFoldSet
<1>2. \A x \in 1 .. N, z \in Nat : step[x][z] = z + w[x] /\ step[x][z] \in Nat
  BY <1>0
<1>3. Iter(iter)
  <2>1. PICK f \in [SUBSET (1 .. N) -> Nat] : IsLeftFold(f, N, 0, step)
    <3>1. 0 \in Nat
      OBVIOUS
    <3>. HIDE DEF step, w
    <3>2. \A x \in 1 .. N, z \in Nat : step[x][z] \in Nat
      BY <1>2
    <3>. QED
      BY <1>0, <3>1, <3>2, LeftRecursion
  <2>2. \A s \in SUBSET (1 .. N) : s # {} => Max(s) \in s
    BY <1>0, Largest
  <2>. HIDE DEF step, w
  <2>3. ASSUME NEW s \in SUBSET (1 .. N), s # {}
        PROVE  f[s] = f[s \ {Max(s)}] + w[Max(s)]
    BY <1>2, <2>1, <2>2, <2>3 DEF IsLeftFold
  <2>4. Iter(f)
    BY <1>0, <2>1, <2>3 DEF IsLeftFold
  <2>. HIDE DEF Iter
  <2>. QED
    BY <2>4
<1>4. /\ iter[{}] = 0
      /\ \A k \in 1 .. N : iter[1 .. k] = iter[1 .. (k - 1)] + w[k]
  <2>. HIDE DEF step, w
  <2>1. \A s \in SUBSET (1 .. N) :
          iter[s] = IF s = {} THEN 0 ELSE iter[s \ {Max(s)}] + w[Max(s)]
    <3>. HIDE DEF iter
    <3>. QED
      BY <1>0, <1>3
  <2>. HIDE DEF iter
  <2>. QED
    BY <1>0, <2>1, LeftToRight
<1>. DEFINE T == {k \in 0 .. N : iter[1 .. k] = SumAt(w, 1 .. k)}
<1>5. 0 .. N \subseteq T
  <2>. HIDE DEF iter, step, w
  <2>0. IsFiniteSet(1 .. N)
    BY <1>0, FS_Interval
  <2>1. 0 \in T
    <3>1. 1 .. 0 = {} /\ 0 \in 0 .. N
      BY <1>0
    <3>2. SumAt(w, {}) = 0
      BY <1>0, <2>0, SumFacts
    <3>. QED
      BY <1>4, <3>1, <3>2
  <2>2. ASSUME NEW k \in 0 .. N, k \in T, k < N PROVE k + 1 \in T
    <3>1. /\ k + 1 \in 1 .. N /\ k + 1 \in 0 .. N /\ (k + 1) - 1 = k
          /\ 1 .. k \in SUBSET (1 .. N) /\ k + 1 \notin 1 .. k
          /\ (1 .. k) \cup {k + 1} = 1 .. (k + 1)
      BY <1>0, <2>2
    <3>2. SumAt(w, (1 .. k) \cup {k + 1}) = SumAt(w, 1 .. k) + w[k + 1]
      <4>1. \A A \in SUBSET (1 .. N), x \in 1 .. N :
              x \notin A => SumAt(w, A \cup {x}) = SumAt(w, A) + w[x]
        BY <1>0, <2>0, SumFacts
      <4>. QED
        BY <3>1, <4>1
    <3>3. iter[1 .. (k + 1)] = iter[1 .. k] + w[k + 1]
      BY <1>4, <3>1
    <3>. QED
      BY <2>2, <3>1, <3>2, <3>3
  <2>. HIDE DEF T
  <2>. QED
    BY <1>0, <2>1, <2>2, InductUpTo
<1>6. iter[1 .. N] = SumAt(w, 1 .. N)
  <2>1. N \in 0 .. N
    BY <1>0
  <2>. HIDE DEF iter
  <2>. QED
    BY <1>5, <2>1
<1>. QED
  BY <1>0, <1>1, <1>6

-----------------------------------------------------------------------------
(* The pass of _validateSignatures, signature by signature                 *)

Pass == [at : Nat, weight : Nat, end : {"none", "ok", "MalformedSigners"}]

\* i is the operator that Matched finds for the signer.
Finds(p, pass, signer, i) ==
  /\ i \in DOMAIN p.operators
  /\ i > pass.at
  /\ p.operators[i] = signer

Counted(p, pass, i) ==
  [at |-> i, weight |-> pass.weight + p.weights[i],
   end |-> IF pass.weight + p.weights[i] >= p.threshold THEN "ok" ELSE "none"]

\* What one signature does: nothing once the pass has ended, else it is of no operator
\* ahead, or it is counted.
LEMMA MatchedFacts ==
  ASSUME NEW p, NEW N, Numbers(p, N), NEW pass \in Pass, NEW signer
  PROVE  /\ Matched(p, pass, signer) \in Pass
         /\ pass.end # "none" => Matched(p, pass, signer) = pass
         /\ pass.end = "none" =>
              \/ /\ \A i : ~Finds(p, pass, signer, i)
                 /\ Matched(p, pass, signer) = [pass EXCEPT !.end = "MalformedSigners"]
              \/ \E i : /\ Finds(p, pass, signer, i)
                        /\ Matched(p, pass, signer) = Counted(p, pass, i)
<1>. DEFINE ahead == {i \in DOMAIN p.operators : i > pass.at /\ p.operators[i] = signer}
<1>0. /\ N \in Nat /\ DOMAIN p.operators = 1 .. N
      /\ \A i \in 1 .. N : p.weights[i] \in Nat
  BY DEF Numbers
<1>1. pass.end # "none" => Matched(p, pass, signer) = pass
  BY DEF Matched
<1>2. CASE pass.end = "none" /\ ahead = {}
  <2>1. Matched(p, pass, signer) = [pass EXCEPT !.end = "MalformedSigners"]
    BY <1>2 DEF Matched
  <2>2. \A i : ~Finds(p, pass, signer, i)
    BY <1>2 DEF Finds
  <2>3. [pass EXCEPT !.end = "MalformedSigners"] \in Pass
    BY DEF Pass
  <2>. QED
    BY <1>1, <2>1, <2>2, <2>3
<1>3. CASE pass.end = "none" /\ ahead # {}
  <2>. DEFINE i == Min(ahead)
  <2>1. i \in ahead
    <3>1. ahead \in SUBSET Nat
      BY <1>0
    <3>2. \E x \in ahead : \A y \in ahead : x <= y
      <4>. HIDE DEF ahead
      <4>. QED
        BY <1>3, <3>1, Least
    <3>. HIDE DEF ahead
    <3>. QED
      BY <3>2 DEF Min
  <2>2. Matched(p, pass, signer) = Counted(p, pass, i)
    BY <1>3 DEF Matched, Counted
  <2>. HIDE DEF i
  <2>3. Finds(p, pass, signer, i)
    BY <2>1 DEF Finds
  <2>4. Counted(p, pass, i) \in Pass
    BY <1>0, <2>1 DEF Pass, Counted
  <2>. QED
    BY <1>1, <1>3, <2>2, <2>3, <2>4
<1>4. CASE pass.end # "none"
  BY <1>1, <1>4
<1>. QED
  BY <1>2, <1>3, <1>4

IsPass(p, s, n, pass) ==
  /\ pass \in [0 .. n -> Pass]
  /\ pass[0] = Begun
  /\ \A k \in 1 .. n : pass[k] = Matched(p, pass[k - 1], s[k])

Verdict(pass) ==
  IF pass.end = "ok" THEN "ok"
  ELSE IF pass.end = "none" THEN "LowSignaturesWeight" ELSE "MalformedSigners"

\* _validateSignatures goes through the signatures one by one.
LEMMA PassFold ==
  ASSUME NEW p, NEW N, Numbers(p, N), NEW s, NEW n \in Nat, DOMAIN s = 1 .. n
  PROVE  \E pass : IsPass(p, s, n, pass) /\ ValidateSignatures(p, s) = Verdict(pass[n])
<1>. DEFINE step == [x \in 1 .. n |-> [z \in Pass |-> Matched(p, z, s[x])]]
            Iter(g) == g = [u \in SUBSET (DOMAIN s) |->
                              IF u = {} THEN Begun
                              ELSE Matched(p, g[u \ {Max(u)}], s[Max(u)])]
            iter == CHOOSE g : Iter(g)
            end == iter[DOMAIN s]
<1>1. ValidateSignatures(p, s) = Verdict(end)
  BY DEF ValidateSignatures, Verdict, FoldLeft, MapThenFoldSet
<1>2. \A x \in 1 .. n, z \in Pass : step[x][z] = Matched(p, z, s[x])
  OBVIOUS
<1>3. \A x \in 1 .. n, z \in Pass : step[x][z] \in Pass
  BY <1>2, MatchedFacts
<1>4. Begun \in Pass
  BY DEF Begun, Pass
<1>. HIDE DEF step
<1>5. PICK f \in [SUBSET (1 .. n) -> Pass] : IsLeftFold(f, n, Begun, step)
  BY <1>3, <1>4, LeftRecursion
<1>6. \A u \in SUBSET (1 .. n) : u # {} => Max(u) \in u
  BY Largest
<1>7. ASSUME NEW u \in SUBSET (1 .. n), u # {}
      PROVE  f[u] = Matched(p, f[u \ {Max(u)}], s[Max(u)])
  BY <1>2, <1>5, <1>6, <1>7 DEF IsLeftFold
<1>8. Iter(iter)
  <2>1. Iter(f)
    BY <1>5, <1>7 DEF IsLeftFold
  <2>. HIDE DEF Iter
  <2>. QED
    BY <2>1
<1>9. \A u \in SUBSET (1 .. n) :
        iter[u] = IF u = {} THEN Begun ELSE Matched(p, iter[u \ {Max(u)}], s[Max(u)])
  <2>. HIDE DEF iter
  <2>. QED
    BY <1>8
<1>. HIDE DEF iter
<1>10. /\ iter[{}] = Begun
       /\ \A k \in 1 .. n : iter[1 .. k] = Matched(p, iter[1 .. (k - 1)], s[k])
  BY <1>9, LeftToRight
<1>. DEFINE T == {k \in 0 .. n : iter[1 .. k] \in Pass}
            pass == [k \in 0 .. n |-> iter[1 .. k]]
<1>11. 0 .. n \subseteq T
  <2>1. 0 \in T
    BY <1>4, <1>10
  <2>2. ASSUME NEW k \in 0 .. n, k \in T, k < n PROVE k + 1 \in T
    <3>1. k + 1 \in 1 .. n /\ k + 1 \in 0 .. n /\ (k + 1) - 1 = k
      BY <2>2
    <3>2. iter[1 .. (k + 1)] = Matched(p, iter[1 .. k], s[k + 1])
      BY <1>10, <3>1
    <3>3. Matched(p, iter[1 .. k], s[k + 1]) \in Pass
      BY <2>2, MatchedFacts
    <3>. QED
      BY <3>1, <3>2, <3>3
  <2>. HIDE DEF T
  <2>. QED
    BY <2>1, <2>2, InductUpTo
<1>12. IsPass(p, s, n, pass)
  <2>1. pass \in [0 .. n -> Pass]
    BY <1>11
  <2>2. pass[0] = Begun
    <3>1. 0 \in 0 .. n /\ 1 .. 0 = {}
      OBVIOUS
    <3>. QED
      BY <1>10, <3>1
  <2>3. ASSUME NEW k \in 1 .. n PROVE pass[k] = Matched(p, pass[k - 1], s[k])
    <3>1. k \in 0 .. n /\ k - 1 \in 0 .. n
      OBVIOUS
    <3>. QED
      BY <1>10, <3>1
  <2>. HIDE DEF pass
  <2>. QED
    BY <2>1, <2>2, <2>3 DEF IsPass
<1>13. pass[n] = end
  <2>1. n \in 0 .. n
    OBVIOUS
  <2>. QED
    BY <2>1
<1>. HIDE DEF pass, end
<1>. QED
  BY <1>1, <1>12, <1>13

-----------------------------------------------------------------------------
(* The pass finds the quorums                                              *)

First(s, k) == {s[i] : i \in 1 .. k}

\* The first k signatures are of different operators, in ascending order.
Clean(p, s, k) ==
  /\ \A i \in 1 .. k : s[i] \in Range(p.operators)
  /\ \A i, j \in 1 .. k : i < j => s[i] < s[j]

\* None of the first k signatures reaches the threshold.
Light(p, s, k) == \A j \in 1 .. k : ~(WeightOf(p, First(s, j)) >= p.threshold)

\* Where the pass stands after k signatures.
Stands(p, s, k, pass) ==
  \/ /\ pass.end = "none"
     /\ Clean(p, s, k)
     /\ Light(p, s, k)
     /\ pass.weight = WeightOf(p, First(s, k))
     /\ k = 0 => pass.at = 0
     /\ k > 0 => pass.at \in DOMAIN p.operators /\ p.operators[pass.at] = s[k]
  \/ /\ pass.end = "ok"
     /\ \E j \in 1 .. k : Clean(p, s, j) /\ WeightOf(p, First(s, j)) >= p.threshold
  \/ /\ pass.end = "MalformedSigners"
     /\ \E j \in 1 .. k : ~Clean(p, s, j) /\ Light(p, s, j - 1)

\* Without repeated operators, one signer more weighs what that operator weighs.
LEMMA OneSignerMore ==
  ASSUME NEW p, NEW N, Numbers(p, N), IsWellFormed(p)
  PROVE  /\ WeightOf(p, {}) = 0
         /\ \A S, i : i \in DOMAIN p.operators /\ p.operators[i] \notin S =>
              WeightOf(p, S \cup {p.operators[i]}) = WeightOf(p, S) + p.weights[i]
<1>. DEFINE At(S) == {i \in DOMAIN p.operators : p.operators[i] \in S}
            w == p.weights
<1>0. /\ N \in Nat /\ DOMAIN p.operators = 1 .. N /\ IsFiniteSet(1 .. N)
      /\ \A i \in 1 .. N : w[i] \in Nat
  <2>1. N \in Nat
    BY DEF Numbers
  <2>2. IsFiniteSet(1 .. N)
    BY <2>1, FS_Interval
  <2>. QED
    BY <2>1, <2>2 DEF Numbers
<1>1. \A S : WeightOf(p, S) = SumAt(w, At(S))
  BY DEF WeightOf, SumAt, MapThenSumSet
<1>2. \A i, j \in 1 .. N : p.operators[i] = p.operators[j] => i = j
  <2>1. p.operators \in [1 .. N -> Nat]
    BY DEF Numbers
  <2>2. \A i, j \in 1 .. N : i < j => p.operators[i] < p.operators[j]
    BY <1>0 DEF IsWellFormed
  <2>. QED
    BY <1>0, <2>1, <2>2
<1>3. SumAt(w, {}) = 0
  <2>. HIDE DEF w
  <2>. QED
    BY <1>0, SumFacts
<1>4. \A A \in SUBSET (1 .. N), x \in 1 .. N :
        x \notin A => SumAt(w, A \cup {x}) = SumAt(w, A) + w[x]
  <2>. HIDE DEF w
  <2>. QED
    BY <1>0, SumFacts
<1>5. ASSUME NEW S, NEW i \in DOMAIN p.operators, p.operators[i] \notin S
      PROVE  WeightOf(p, S \cup {p.operators[i]}) = WeightOf(p, S) + w[i]
  <2>1. /\ At(S \cup {p.operators[i]}) = At(S) \cup {i}
        /\ i \notin At(S) /\ At(S) \in SUBSET (1 .. N) /\ i \in 1 .. N
    BY <1>0, <1>2, <1>5
  <2>. HIDE DEF At, w
  <2>. QED
    BY <1>1, <1>4, <2>1
<1>6. At({}) = {}
  OBVIOUS
<1>. HIDE DEF At
<1>. QED
  BY <1>1, <1>3, <1>5, <1>6

\* The next signature leaves the pass where it stands for one signature more.
LEMMA StandsStep ==
  ASSUME NEW p, NEW N, Numbers(p, N), IsWellFormed(p), NEW s, NEW k \in Nat,
         NEW pass \in Pass, Stands(p, s, k, pass)
  PROVE  Stands(p, s, k + 1, Matched(p, pass, s[k + 1]))
<1>. DEFINE y == s[k + 1]
            new == Matched(p, pass, y)
            op == p.operators
<1>0. /\ N \in Nat /\ DOMAIN op = 1 .. N
      /\ \A i \in 1 .. N : op[i] \in Nat
      /\ \A i, j \in 1 .. N : i < j => op[i] < op[j]
      /\ \A x : x \in Range(op) <=> \E i \in 1 .. N : op[i] = x
  BY DEF Numbers, IsWellFormed, Range
<1>1. /\ \A j \in 1 .. k + 1 : j \in 1 .. k \/ j = k + 1
      /\ \A j \in 1 .. k : j \in 1 .. k + 1
      /\ k + 1 \in 1 .. k + 1 /\ (k + 1) - 1 = k
  OBVIOUS
<1>2. pass.end \in {"none", "ok", "MalformedSigners"} /\ pass.at \in Nat /\ pass.weight \in Nat
  BY DEF Pass
<1>3. CASE pass.end # "none"
  <2>1. new = pass
    BY <1>3, MatchedFacts
  <2>. QED
    BY <1>1, <1>3, <2>1 DEF Stands
<1>4. CASE pass.end = "none" /\ \A i : ~Finds(p, pass, y, i)
  <2>1. new = [pass EXCEPT !.end = "MalformedSigners"]
    BY <1>4, MatchedFacts DEF Finds
  <2>2. ASSUME Clean(p, s, k + 1) PROVE FALSE
    <3>1. PICK i \in 1 .. N : op[i] = y
      BY <1>0, <1>1, <2>2 DEF Clean
    <3>2. ~(i > pass.at)
      BY <1>0, <1>4, <3>1 DEF Finds
    <3>3. k > 0 /\ pass.at \in 1 .. N /\ op[pass.at] = s[k]
      BY <1>0, <1>4, <3>1, <3>2 DEF Stands
    <3>4. s[k] < y
      BY <1>1, <2>2, <3>3 DEF Clean
    <3>. QED
      BY <1>0, <3>1, <3>2, <3>3, <3>4
  <2>3. Light(p, s, k)
    BY <1>4 DEF Stands
  <2>4. new.end = "MalformedSigners"
    BY <2>1 DEF Pass
  <2>. QED
    BY <1>1, <2>2, <2>3, <2>4 DEF Stands
<1>5. ASSUME pass.end = "none", NEW i, Finds(p, pass, y, i), new = Counted(p, pass, i)
      PROVE  Stands(p, s, k + 1, new)
  <2>1. i \in 1 .. N /\ i > pass.at /\ op[i] = y
    BY <1>0, <1>5 DEF Finds
  <2>2. /\ Clean(p, s, k) /\ Light(p, s, k)
        /\ pass.weight = WeightOf(p, First(s, k))
        /\ k > 0 => pass.at \in 1 .. N /\ op[pass.at] = s[k]
    BY <1>0, <1>5 DEF Stands
  <2>3. \A a \in 1 .. k : s[a] \in Nat
    BY <1>0, <2>2 DEF Clean
  <2>4. ASSUME NEW a \in 1 .. k PROVE s[a] < y
    <3>1. k > 0 /\ k \in 1 .. k
      OBVIOUS
    <3>2. s[k] < y
      BY <1>0, <2>1, <2>2, <3>1
    <3>3. a = k \/ s[a] < s[k]
      BY <2>2, <3>1 DEF Clean
    <3>. QED
      BY <1>0, <2>1, <2>3, <3>1, <3>2, <3>3
  <2>5. Clean(p, s, k + 1)
    <3>1. \A a \in 1 .. k + 1 : s[a] \in Range(op)
      BY <1>0, <1>1, <2>1, <2>2 DEF Clean
    <3>2. ASSUME NEW a \in 1 .. k + 1, NEW b \in 1 .. k + 1, a < b PROVE s[a] < s[b]
      <4>1. a \in 1 .. k
        BY <3>2
      <4>2. CASE b = k + 1
        BY <2>4, <4>1, <4>2
      <4>3. CASE b \in 1 .. k
        BY <2>2, <3>2, <4>1, <4>3 DEF Clean
      <4>. QED
        BY <1>1, <4>2, <4>3
    <3>. QED
      BY <3>1, <3>2 DEF Clean
  <2>6. First(s, k + 1) = First(s, k) \cup {op[i]}
    BY <1>1, <2>1 DEF First
  <2>7. op[i] \notin First(s, k)
    BY <1>0, <2>1, <2>4 DEF First
  <2>8. WeightOf(p, First(s, k + 1)) = pass.weight + p.weights[i]
    <3>1. \A S, j : j \in DOMAIN p.operators /\ p.operators[j] \notin S =>
            WeightOf(p, S \cup {p.operators[j]}) = WeightOf(p, S) + p.weights[j]
      BY OneSignerMore
    <3>2. WeightOf(p, First(s, k) \cup {p.operators[i]})
            = WeightOf(p, First(s, k)) + p.weights[i]
      BY <1>0, <2>1, <2>7, <3>1
    <3>. QED
      BY <2>2, <2>6, <3>2
  <2>9. /\ new.at = i
        /\ new.weight = WeightOf(p, First(s, k + 1))
        /\ new.end = IF WeightOf(p, First(s, k + 1)) >= p.threshold THEN "ok" ELSE "none"
    BY <1>5, <2>8 DEF Counted
  <2>. HIDE DEF new
  <2>10. CASE WeightOf(p, First(s, k + 1)) >= p.threshold
    BY <1>1, <2>5, <2>9, <2>10 DEF Stands
  <2>11. CASE ~(WeightOf(p, First(s, k + 1)) >= p.threshold)
    <3>1. Light(p, s, k + 1)
      BY <1>1, <2>2, <2>11 DEF Light
    <3>. QED
      BY <1>0, <2>1, <2>5, <2>9, <2>11, <3>1 DEF Stands
  <2>. QED
    BY <2>10, <2>11
<1>6. pass.end = "none" =>
        \/ \A i : ~Finds(p, pass, y, i)
        \/ \E i : Finds(p, pass, y, i) /\ new = Counted(p, pass, i)
  BY MatchedFacts
<1>. QED
  BY <1>3, <1>4, <1>5, <1>6

\* One pass that forgets what it has seen finds the quorums.
LEMMA PassFindsQuorum ==
  ASSUME NEW p, NEW N, Numbers(p, N), IsWellFormed(p),
         NEW s, NEW n \in Nat, DOMAIN s = 1 .. n
  PROVE  ValidateSignatures(p, s) = "ok" <=> HasQuorum(p, s)
<1>1. PICK pass : IsPass(p, s, n, pass) /\ ValidateSignatures(p, s) = Verdict(pass[n])
  BY PassFold
<1>. DEFINE T == {k \in 0 .. n : Stands(p, s, k, pass[k])}
<1>2. 0 \in T
  <2>1. 1 .. 0 = {} /\ First(s, 0) = {}
    BY DEF First
  <2>2. pass[0] = Begun
    BY <1>1 DEF IsPass
  <2>3. WeightOf(p, First(s, 0)) = 0
    BY <2>1, OneSignerMore
  <2>. QED
    BY <2>1, <2>2, <2>3 DEF Stands, Clean, Light, Begun
<1>3. ASSUME NEW k \in 0 .. n, k \in T, k < n PROVE k + 1 \in T
  <2>1. k \in Nat /\ k + 1 \in 1 .. n /\ k + 1 \in 0 .. n /\ (k + 1) - 1 = k
    BY <1>3
  <2>2. pass[k] \in Pass /\ pass[k + 1] = Matched(p, pass[k], s[k + 1])
    BY <1>1, <2>1 DEF IsPass
  <2>3. Stands(p, s, k, pass[k])
    BY <1>3
  <2>. QED
    BY <2>1, <2>2, <2>3, StandsStep
<1>4. Stands(p, s, n, pass[n])
  <2>1. 0 .. n \subseteq T
    <3>. HIDE DEF T
    <3>. QED
      BY <1>2, <1>3, InductUpTo
  <2>. QED
    BY <2>1
<1>5. HasQuorum(p, s) <=>
        \E j \in 1 .. n : Clean(p, s, j) /\ WeightOf(p, First(s, j)) >= p.threshold
  BY DEF HasQuorum, Clean, First
<1>6. ValidateSignatures(p, s) = "ok" <=> pass[n].end = "ok"
  BY <1>1 DEF Verdict
<1>7. CASE pass[n].end = "none"
  BY <1>4, <1>5, <1>6, <1>7 DEF Stands, Light
<1>8. CASE pass[n].end = "ok"
  BY <1>4, <1>5, <1>6, <1>8 DEF Stands
<1>9. CASE pass[n].end = "MalformedSigners"
  <2>1. PICK j \in 1 .. n : ~Clean(p, s, j) /\ Light(p, s, j - 1)
    BY <1>4, <1>9 DEF Stands
  <2>2. ASSUME NEW i \in 1 .. n, Clean(p, s, i), WeightOf(p, First(s, i)) >= p.threshold
        PROVE  FALSE
    <3>1. CASE i < j
      <4>1. i \in 1 .. (j - 1)
        BY <3>1
      <4>. QED
        BY <2>1, <2>2, <4>1 DEF Light
    <3>2. CASE ~(i < j)
      <4>1. \A a \in 1 .. j : a \in 1 .. i
        BY <3>2
      <4>. QED
        BY <2>1, <2>2, <4>1 DEF Clean
    <3>. QED
      BY <3>1, <3>2
  <2>. QED
    BY <1>5, <1>6, <1>9, <2>2
<1>. QED
  BY <1>4, <1>7, <1>8, <1>9 DEF Stands

\* All operators of a well-formed set, in the order of the set, are a quorum.
LEMMA AllOperatorsPass ==
  ASSUME NEW p, NEW N, Numbers(p, N), IsWellFormed(p)
  PROVE  ValidateSignatures(p, p.operators) = "ok"
<1>. DEFINE op == p.operators
<1>0. /\ N \in Nat /\ DOMAIN op = 1 .. N
      /\ \A i, j \in 1 .. N : i < j => op[i] < op[j]
      /\ op # <<>>
  BY DEF Numbers, IsWellFormed
<1>1. N \in 1 .. N
  <2>1. CASE N = 0
    <3>1. op \in [1 .. 0 -> Nat]
      BY <2>1 DEF Numbers
    <3>2. op = <<>>
      BY <3>1
    <3>. QED
      BY <1>0, <3>2
  <2>. QED
    BY <1>0, <2>1
<1>2. WeightOf(p, {op[i] : i \in 1 .. N}) = SumAt(p.weights, 1 .. N)
  <2>1. {i \in DOMAIN op : op[i] \in {op[j] : j \in 1 .. N}} = 1 .. N
    BY <1>0
  <2>2. \A S : WeightOf(p, S) = SumAt(p.weights, {i \in DOMAIN op : op[i] \in S})
    BY DEF WeightOf, SumAt, MapThenSumSet
  <2>. HIDE DEF op
  <2>. QED
    BY <2>1, <2>2
<1>3. TotalWeight(p) >= p.threshold
  BY DEF IsWellFormed
<1>4. TotalWeight(p) = SumAt(p.weights, 1 .. N)
  BY WeightsFold
<1>5. \A i \in 1 .. N : op[i] \in Range(op)
  BY <1>0 DEF Range
<1>6. HasQuorum(p, op)
  BY <1>0, <1>1, <1>2, <1>3, <1>4, <1>5 DEF HasQuorum
<1>. QED
  BY <1>0, <1>6, PassFindsQuorum

-----------------------------------------------------------------------------
(* Registered sets and answers                                             *)

\* What is registered, or about to be, has passed the checks of createOperatorEpoch.
SetsAreWellFormed ==
  /\ \A r \in Busy : IsWellFormed(params[r])
  /\ \A n \in DOMAIN row : IsWellFormed(row[n])

\* An answer other than InvalidOperators is about a registered set, and tells what
\* _validateSignatures said of the signatures.
Judged ==
  \A v \in Validation :
    /\ val[v] # "over" => answer[v] = "none"
    /\ answer[v] \notin {"none", "InvalidOperators"} =>
         /\ IsWellFormed(proof[v])
         /\ proof[v] \in Params
         /\ answer[v] \in {"true", "false"} <=> ValidateSignatures(proof[v], signed[v]) = "ok"

LEMMA SetsStep ==
  TypeOK /\ IInv /\ SetsAreWellFormed /\ [Next]_vars => SetsAreWellFormed'
<1>. SUFFICES ASSUME TypeOK, IInv, SetsAreWellFormed, [Next]_vars PROVE SetsAreWellFormed'
  OBVIOUS
<1>1. ASSUME NEW r \in Transfer, TransferOperatorship(r) PROVE SetsAreWellFormed'
  <2>1. PICK p \in Params :
          /\ params' = [params EXCEPT ![r] = p]
          /\ Goto(r, IF IsWellFormed(p) THEN "check" ELSE "failed")
    BY <1>1 DEF TransferOperatorship
  <2>2. row' = row /\ params'[r] = p
    BY <1>1, <2>1 DEF TransferOperatorship, TypeOK
  <2>3. reg'[r] \in {"check", "insert", "commit"} => IsWellFormed(p)
    BY <2>1 DEF Goto, TypeOK
  <2>4. \A q \in Transfer \ {r} : reg'[q] = reg[q] /\ params'[q] = params[q]
    BY <2>1 DEF Goto, TypeOK
  <2>. QED
    BY <2>2, <2>3, <2>4 DEF SetsAreWellFormed, Busy
<1>2. ASSUME NEW r \in Transfer, FindDuplicate(r) \/ Insert(r) PROVE SetsAreWellFormed'
  <2>1. UNCHANGED <<params, row>> /\ Busy' \subseteq Busy
    BY <1>2 DEF FindDuplicate, Insert, Goto, TypeOK, Busy
  <2>. QED
    BY <2>1 DEF SetsAreWellFormed
<1>3. ASSUME NEW r \in Transfer, Commit(r) \/ TransferFails(r) PROVE SetsAreWellFormed'
  <2>1. UNCHANGED params /\ Busy' \subseteq Busy /\ r \in Busy
    BY <1>3 DEF Commit, TransferFails, Goto, TypeOK, Busy
  <2>2. UNCHANGED row \/ (reg[r] = "commit" /\ Adds(r))
    BY <1>3 DEF Commit, TransferFails
  <2>3. CASE UNCHANGED row
    BY <2>1, <2>3 DEF SetsAreWellFormed
  <2>4. CASE reg[r] = "commit" /\ Adds(r)
    <3>1. /\ DOMAIN row' = DOMAIN row \cup {id[r]}
          /\ row'[id[r]] = params[r]
          /\ \A n \in DOMAIN row : row'[n] = row[n]
      BY <2>4, Added DEF IInv
    <3>. QED
      BY <2>1, <3>1 DEF SetsAreWellFormed
  <2>. QED
    BY <2>2, <2>3, <2>4
<1>4. ASSUME NEW v \in Validation,
             ValidateProof(v) \/ FindOperatorshipEpoch(v) \/ GetCurrentEpoch(v)
               \/ ValidationFails(v)
      PROVE  SetsAreWellFormed'
  <2>1. UNCHANGED <<reg, params, row>>
    BY <1>4 DEF ValidateProof, FindOperatorshipEpoch, GetCurrentEpoch, ValidationFails, regVars
  <2>. QED
    BY <2>1 DEF SetsAreWellFormed, Busy
<1>5. CASE UNCHANGED vars
  BY <1>5 DEF vars, SetsAreWellFormed, Busy
<1>. QED
  BY <1>1, <1>2, <1>3, <1>4, <1>5 DEF Next

LEMMA JudgedStep ==
  TypeOK /\ IInv /\ SetsAreWellFormed /\ Judged /\ [Next]_vars => Judged'
<1>. SUFFICES ASSUME TypeOK, IInv, SetsAreWellFormed, Judged, [Next]_vars PROVE Judged'
  OBVIOUS
<1>1. ASSUME UNCHANGED valVars PROVE Judged'
  BY <1>1 DEF valVars, Judged
<1>2. ASSUME NEW r \in Transfer,
             \/ TransferOperatorship(r) \/ FindDuplicate(r) \/ Insert(r)
             \/ Commit(r) \/ TransferFails(r)
      PROVE  UNCHANGED valVars
  BY <1>2 DEF TransferOperatorship, FindDuplicate, Insert, Commit, TransferFails
<1>3. ASSUME NEW v \in Validation, ValidateProof(v) PROVE Judged'
  BY <1>3 DEF ValidateProof, Judged, TypeOK
<1>4. ASSUME NEW v \in Validation, FindOperatorshipEpoch(v) \/ ValidationFails(v) PROVE Judged'
  BY <1>4 DEF FindOperatorshipEpoch, ValidationFails, Judged, TypeOK
<1>5. ASSUME NEW v \in Validation, GetCurrentEpoch(v) PROVE Judged'
  <2>1. PICK epoch \in 0 .. next, signers \in Signatures :
          /\ signed' = [signed EXCEPT ![v] = signers]
          /\ answer' = [answer EXCEPT ![v] =
                          Judge(v, epoch, ValidateSignatures(proof[v], signers))]
    BY <1>5 DEF GetCurrentEpoch
  <2>. DEFINE verdict == ValidateSignatures(proof[v], signers)
  <2>2. /\ proof' = proof /\ val'[v] = "over"
        /\ signed'[v] = signers /\ answer'[v] = Judge(v, epoch, verdict)
    BY <1>5, <2>1 DEF GetCurrentEpoch, TypeOK
  <2>3. \A u \in Validation \ {v} :
          val'[u] = val[u] /\ signed'[u] = signed[u] /\ answer'[u] = answer[u]
    BY <1>5, <2>1 DEF GetCurrentEpoch, TypeOK
  <2>4. verdict \in {"ok", "LowSignaturesWeight", "MalformedSigners"}
    BY Verdicts
  <2>. HIDE DEF verdict
  <2>5. ASSUME Judge(v, epoch, verdict) # "InvalidOperators"
        PROVE  /\ IsWellFormed(proof[v]) /\ proof[v] \in Params
               /\ Judge(v, epoch, verdict) \in {"true", "false"} <=> verdict = "ok"
    <3>1. found[v] # 0
      BY <2>5 DEF Judge, IsExpired
    <3>2. found[v] \in DOMAIN row /\ row[found[v]] = proof[v]
      BY <3>1 DEF IInv, FoundIsRow
    <3>3. Judge(v, epoch, verdict) \in {"true", "false"} <=> verdict = "ok"
      BY <2>4, <2>5 DEF Judge
    <3>. QED
      BY <3>2, <3>3 DEF SetsAreWellFormed, TypeOK
  <2>6. /\ val'[v] # "over" => answer'[v] = "none"
        /\ answer'[v] \notin {"none", "InvalidOperators"} =>
             /\ IsWellFormed(proof'[v])
             /\ proof'[v] \in Params
             /\ answer'[v] \in {"true", "false"} <=> ValidateSignatures(proof'[v], signed'[v]) = "ok"
    BY <2>2, <2>5 DEF verdict
  <2>. QED
    BY <2>2, <2>3, <2>6 DEF Judged
<1>6. CASE UNCHANGED vars
  BY <1>1, <1>6 DEF vars, valVars
<1>. QED
  BY <1>1, <1>2, <1>3, <1>4, <1>5, <1>6 DEF Next

LEMMA QuorumInvariant == Spec => [](TypeOK /\ SetsAreWellFormed /\ Judged)
<1>1. Init => SetsAreWellFormed /\ Judged
  BY DEF Init, SetsAreWellFormed, Judged, Busy
<1>. QED
  BY <1>1, Invariant, SetsStep, JudgedStep, PTL DEF Spec

\* No set is registered that locks its operators out (DatabaseClient.ts 335-352 against
\* authHandler.ts 31-60).
THEOREM QuorumAlwaysPossible == Spec => []QuorumPossible
<1>1. TypeOK /\ SetsAreWellFormed => QuorumPossible
  <2>. SUFFICES ASSUME TypeOK, SetsAreWellFormed, NEW n \in DOMAIN row
                PROVE  ValidateSignatures(row[n], row[n].operators) = "ok"
    BY DEF QuorumPossible
  <2>1. row[n] \in Params /\ IsWellFormed(row[n])
    BY DEF TypeOK, SetsAreWellFormed
  <2>2. PICK N : Numbers(row[n], N)
    BY <2>1, ParamsNumbers
  <2>. QED
    BY <2>1, <2>2, AllOperatorsPass
<1>. QED
  BY <1>1, QuorumInvariant, PTL

\* A proof of a registered set is accepted if and only if its first signatures are a
\* quorum (authHandler.ts 31-60).
THEOREM QuorumAlwaysSigned == Spec => []QuorumSigned
<1>1. TypeOK /\ Judged => QuorumSigned
  <2>. SUFFICES ASSUME TypeOK, Judged, NEW v \in Validation,
                       answer[v] \notin {"none", "InvalidOperators"}
                PROVE  answer[v] \in {"true", "false"} <=> HasQuorum(proof[v], signed[v])
    BY DEF QuorumSigned
  <2>1. /\ IsWellFormed(proof[v])
        /\ proof[v] \in Params
        /\ answer[v] \in {"true", "false"} <=> ValidateSignatures(proof[v], signed[v]) = "ok"
    BY DEF Judged
  <2>2. PICK N : Numbers(proof[v], N)
    BY <2>1, ParamsNumbers
  <2>3. PICK n \in Nat : DOMAIN signed[v] = 1 .. n
    <3>1. signed[v] \in Signatures
      BY DEF TypeOK
    <3>. QED
      BY <3>1, OperatorAssumption DEF Signatures, BoundedSeq, SeqOf
  <2>4. ValidateSignatures(proof[v], signed[v]) = "ok" <=> HasQuorum(proof[v], signed[v])
    BY <2>1, <2>2, <2>3, PassFindsQuorum
  <2>. QED
    BY <2>1, <2>4
<1>. QED
  BY <1>1, QuorumInvariant, PTL

=============================================================================
