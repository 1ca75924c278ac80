------------------------------ MODULE DataFacts ------------------------------
(***************************************************************************)
(* What the folds of the community modules compute, and what can be sorted. *)
(* Induction is over sets: the provers cannot instantiate a theorem with an *)
(* operator parameter, but can with the set of the values it holds for.     *)
(***************************************************************************)
EXTENDS SequencesExt, FiniteSetTheorems, WellFoundedInduction, TLAPS

\* A set of numbers has a least one.
LEMMA Least ==
  ASSUME NEW T \in SUBSET Nat, T # {}
  PROVE  \E x \in T : \A y \in T : x <= y
<1>1. PICK x \in T : \A y \in T : ~ (<<y, x>> \in OpToRel(<, Nat))
  BY WFMin, NatLessThanWellFounded
<1>2. \A y \in T : ~(y < x)
  BY <1>1 DEF OpToRel
<1>. QED
  BY <1>2

\* Induction over the numbers, with a set for the predicate.
LEMMA Induct ==
  ASSUME NEW T, 0 \in T, \A n \in Nat : n \in T => n + 1 \in T
  PROVE  Nat \subseteq T
<1>. SUFFICES ASSUME Nat \ T # {} PROVE FALSE
  OBVIOUS
<1>1. PICK x \in Nat \ T : \A y \in Nat \ T : x <= y
  BY Least
<1>2. x # 0 /\ x - 1 \in Nat
  BY <1>1
<1>3. x - 1 \in T
  BY <1>1, <1>2
<1>. QED
  BY <1>1, <1>2, <1>3

\* Induction over the first numbers.
LEMMA InductUpTo ==
  ASSUME NEW N \in Nat, NEW T, 0 \in T, \A n \in 0 .. N : n \in T /\ n < N => n + 1 \in T
  PROVE  0 .. N \subseteq T
<1>. DEFINE U == {n \in Nat : n <= N => n \in T}
<1>1. 0 \in U
  OBVIOUS
<1>2. \A n \in Nat : n \in U => n + 1 \in U
  OBVIOUS
<1>3. Nat \subseteq U
  <2>. HIDE DEF U
  <2>. QED
    BY <1>1, <1>2, Induct
<1>. QED
  BY <1>3

\* Induction over the subsets of a finite set.
LEMMA InductSets ==
  ASSUME NEW D, IsFiniteSet(D), NEW T,
         \A A \in SUBSET D : (\A x \in A : A \ {x} \in T) => A \in T
  PROVE  SUBSET D \subseteq T
<1>. DEFINE U == {n \in Nat : \A A \in SUBSET D : Cardinality(A) = n => A \in T}
<1>0. \A A \in SUBSET D : IsFiniteSet(A) /\ Cardinality(A) \in Nat
  BY FS_Subset, FS_CardinalityType
<1>1. 0 \in U
  <2>1. \A A \in SUBSET D : Cardinality(A) = 0 => A = {}
    BY <1>0, FS_EmptySet
  <2>. QED
    BY <2>1
<1>2. ASSUME NEW n \in Nat, n \in U PROVE n + 1 \in U
  <2>. SUFFICES ASSUME NEW A \in SUBSET D, Cardinality(A) = n + 1 PROVE A \in T
    OBVIOUS
  <2>1. ASSUME NEW x \in A PROVE A \ {x} \in T
    <3>1. Cardinality(A \ {x}) = n
      BY <1>0, FS_RemoveElement
    <3>. QED
      BY <1>2, <3>1
  <2>. QED
    BY <2>1
<1>3. Nat \subseteq U
  <2>. HIDE DEF U
  <2>. QED
    BY <1>1, <1>2, Induct
<1>. QED
  BY <1>0, <1>3

-----------------------------------------------------------------------------
(* Recursion over the subsets of a finite set                              *)

\* f folds the subsets of S, taking the element picked first.
IsFold(f, S, base, step, pick) ==
  \A s \in SUBSET S :
    f[s] = IF s = {} THEN base ELSE step[pick[s]][f[s \ {pick[s]}]]

\* A fold is well defined: whichever element is picked first, some function goes on
\* with the others.
LEMMA Recursion ==
  ASSUME NEW S, IsFiniteSet(S), NEW X, NEW base \in X, NEW step, NEW pick,
         \A x \in S, z \in X : step[x][z] \in X,
         \A s \in SUBSET S : s # {} => pick[s] \in s
  PROVE  \E f \in [SUBSET S -> X] : IsFold(f, S, base, step, pick)
<1>. DEFINE Small(n) == {s \in SUBSET S : Cardinality(s) <= n}
            Value(f, s) == IF s = {} THEN base ELSE step[pick[s]][f[s \ {pick[s]}]]
            Good(f, n) == f \in [Small(n) -> X] /\ \A s \in Small(n) : f[s] = Value(f, s)
            T == {n \in Nat : \E f : Good(f, n)}
<1>0. \A s \in SUBSET S : IsFiniteSet(s) /\ Cardinality(s) \in Nat
  BY FS_Subset, FS_CardinalityType
<1>1. 0 \in T
  <2>1. \A s \in Small(0) : s = {}
    BY <1>0, FS_EmptySet
  <2>. DEFINE f == [s \in Small(0) |-> base]
  <2>2. Good(f, 0)
    BY <2>1
  <2>. QED
    BY <2>2
<1>2. ASSUME NEW n \in Nat, n \in T PROVE n + 1 \in T
  <2>1. PICK f : Good(f, n)
    BY <1>2
  <2>. DEFINE g == [s \in Small(n + 1) |-> Value(f, s)]
  <2>2. ASSUME NEW s \in Small(n + 1), s # {} PROVE s \ {pick[s]} \in Small(n)
    BY <1>0, <2>2, FS_RemoveElement
  <2>3. Small(n) \subseteq Small(n + 1)
    BY <1>0
  <2>4. \A s \in Small(n) : g[s] = f[s]
    BY <2>1, <2>3
  <2>5. \A s \in Small(n + 1) : g[s] = Value(g, s)
    BY <2>2, <2>4
  <2>6. g \in [Small(n + 1) -> X]
    <3>. SUFFICES ASSUME NEW s \in Small(n + 1), s # {} PROVE Value(f, s) \in X
      OBVIOUS
    <3>1. f[s \ {pick[s]}] \in X /\ pick[s] \in S
      BY <2>1, <2>2
    <3>. QED
      BY <3>1
  <2>. HIDE DEF g
  <2>7. Good(g, n + 1)
    BY <2>5, <2>6
  <2>. HIDE DEF Good
  <2>. QED
    BY <2>7
<1>3. Cardinality(S) \in T
  <2>. HIDE DEF T
  <2>. QED
    BY <1>0, <1>1, <1>2, Induct
<1>4. PICK f : Good(f, Cardinality(S))
  BY <1>3
<1>5. Small(Cardinality(S)) = SUBSET S
  BY FS_Subset
<1>. QED
  BY <1>4, <1>5 DEF IsFold

-----------------------------------------------------------------------------
(* FoldLeft picks the largest index                                        *)

\* A set of positive numbers up to a bound has its maximum.
LEMMA Largest ==
  ASSUME NEW N \in Nat, NEW s \in SUBSET (1 .. N), s # {}
  PROVE  Max(s) \in s /\ \A y \in s : Max(s) >= y
<1>. DEFINE Bounds == {b \in Nat : \A y \in s : b >= y}
<1>1. PICK b \in Bounds : \A c \in Bounds : b <= c
  <2>1. N \in Bounds
    OBVIOUS
  <2>. HIDE DEF Bounds
  <2>. QED
    BY <2>1, Least DEF Bounds
<1>2. b \in s
  <2>. SUFFICES ASSUME b \notin s PROVE FALSE
    OBVIOUS
  <2>0. PICK z \in s : TRUE
    OBVIOUS
  <2>1. b \in Nat /\ b - 1 \in Nat /\ \A y \in s : b - 1 >= y
    BY <2>0
  <2>2. b - 1 \in Bounds
    BY <2>1
  <2>. HIDE DEF Bounds
  <2>. QED
    BY <1>1, <2>1, <2>2
<1>3. \E x \in s : \A y \in s : x >= y
  BY <1>2
<1>. QED
  BY <1>3 DEF Max

LEMMA LargestUpTo ==
  ASSUME NEW k \in Nat \ {0}
  PROVE  Max(1 .. k) = k
<1>1. k \in 1 .. k /\ \A y \in 1 .. k : k >= y
  OBVIOUS
<1>2. \A x \in 1 .. k : (\A y \in 1 .. k : x >= y) => x = k
  BY <1>1
<1>3. Max(1 .. k) \in 1 .. k /\ \A y \in 1 .. k : Max(1 .. k) >= y
  BY <1>1 DEF Max
<1>. QED
  BY <1>2, <1>3

\* f folds the sets of first numbers, taking the largest first.
IsLeftFold(f, N, base, step) ==
  \A s \in SUBSET (1 .. N) :
    f[s] = IF s = {} THEN base ELSE step[Max(s)][f[s \ {Max(s)}]]

\* The recursion of FoldLeft has a solution ...
LEMMA LeftRecursion ==
  ASSUME NEW N \in Nat, NEW X, NEW base \in X, NEW step,
         \A x \in 1 .. N, z \in X : step[x][z] \in X
  PROVE  \E f \in [SUBSET (1 .. N) -> X] : IsLeftFold(f, N, base, step)
<1>. DEFINE pick == [s \in SUBSET (1 .. N) |-> Max(s)]
<1>1. \A s \in SUBSET (1 .. N) : s # {} => pick[s] \in s
  BY Largest
<1>2. IsFiniteSet(1 .. N)
  <2>1. 1 \in Int /\ N \in Int
    OBVIOUS
  <2>. QED
    BY <2>1, FS_Interval
<1>. HIDE DEF pick
<1>3. PICK f \in [SUBSET (1 .. N) -> X] : IsFold(f, 1 .. N, base, step, pick)
  BY <1>1, <1>2, Recursion
<1>4. \A s \in SUBSET (1 .. N) : pick[s] = Max(s)
  BY DEF pick
<1>5. IsLeftFold(f, N, base, step)
  BY <1>3, <1>4 DEF IsFold, IsLeftFold
<1>. QED
  BY <1>5

\* ... which goes through the sequence from left to right.
LEMMA LeftToRight ==
  ASSUME NEW N \in Nat, NEW k \in 1 .. N
  PROVE  /\ 1 .. k \in SUBSET (1 .. N) /\ 1 .. k # {}
         /\ Max(1 .. k) = k
         /\ (1 .. k) \ {k} = 1 .. (k - 1)
<1>1. Max(1 .. k) = k
  BY LargestUpTo
<1>. QED
  BY <1>1

-----------------------------------------------------------------------------
(* MapThenSumSet picks any element                                         *)

\* The sum of the numbers w has at the indices in A.
SumAt(w, A) == MapThenSumSet(LAMBDA i : w[i], A)

\* F sums w over every subset of D, whatever is picked first.
SumsUp(F, pick, w, D) ==
  \A A \in SUBSET D :
    /\ A # {} => pick[A] \in A
    /\ F[A] = IF A = {} THEN 0 ELSE w[pick[A]] + F[A \ {pick[A]}]
    /\ F[A] \in Nat
    /\ SumAt(w, A) = F[A]

\* One function gives the sums over all subsets.
LEMMA SumRecursion ==
  ASSUME NEW D, IsFiniteSet(D), NEW w, \A x \in D : w[x] \in Nat
  PROVE  \E F, pick : SumsUp(F, pick, w, D)
<1>. DEFINE pick == [s \in SUBSET D |-> CHOOSE x \in s : TRUE]
            step == [x \in D |-> [z \in Nat |-> w[x] + z]]
            Iter(g, A) == g = [s \in SUBSET A |->
                                IF s = {} THEN 0
                                ELSE w[CHOOSE x \in s : TRUE] + g[s \ {CHOOSE x \in s : TRUE}]]
            iter(A) == CHOOSE g : Iter(g, A)
<1>1. \A s \in SUBSET D : pick[s] = CHOOSE x \in s : TRUE
  OBVIOUS
<1>2. \A s \in SUBSET D : s # {} => pick[s] \in s
  OBVIOUS
<1>3. \A x \in D, z \in Nat : step[x][z] = w[x] + z /\ step[x][z] \in Nat
  OBVIOUS
<1>4. \A A \in SUBSET D : SumAt(w, A) = iter(A)[A]
  BY DEF SumAt, MapThenSumSet, MapThenFoldSet
<1>. HIDE DEF pick, step
<1>5. PICK F \in [SUBSET D -> Nat] : IsFold(F, D, 0, step, pick)
  <2>1. 0 \in Nat
    OBVIOUS
  <2>. QED
    BY <1>2, <1>3, <2>1, Recursion
<1>6. \A A \in SUBSET D : F[A] = IF A = {} THEN 0 ELSE w[pick[A]] + F[A \ {pick[A]}]
  BY <1>2, <1>3, <1>5 DEF IsFold
<1>7. ASSUME NEW A \in SUBSET D PROVE iter(A)[A] = F[A]
  <2>1. Iter([s \in SUBSET A |-> F[s]], A)
    BY <1>1, <1>2, <1>6
  <2>2. Iter(iter(A), A)
    <3>. HIDE DEF Iter
    <3>. QED
      BY <2>1
  <2>. DEFINE i == iter(A)
              T == {s \in SUBSET A : i[s] = F[s]}
  <2>3. \A s \in SUBSET A :
          i[s] = IF s = {} THEN 0 ELSE w[pick[s]] + i[s \ {pick[s]}]
    <3>1. \A s \in SUBSET A :
            i[s] = IF s = {} THEN 0
                   ELSE w[CHOOSE x \in s : TRUE] + i[s \ {CHOOSE x \in s : TRUE}]
      <4>. HIDE DEF iter
      <4>. QED
        BY <2>2
    <3>2. \A s \in SUBSET A : pick[s] = CHOOSE x \in s : TRUE
      BY <1>1
    <3>. HIDE DEF i
    <3>. QED
      BY <3>1, <3>2
  <2>. HIDE DEF i, iter
  <2>4. ASSUME NEW s \in SUBSET A, \A x \in s : s \ {x} \in T PROVE s \in T
    BY <1>2, <1>6, <2>3, <2>4
  <2>5. IsFiniteSet(A)
    BY FS_Subset
  <2>6. SUBSET A \subseteq T
    <3>. HIDE DEF T
    <3>. QED
      BY <2>4, <2>5, InductSets
  <2>7. i[A] = F[A]
    BY <2>6
  <2>. QED
    BY <2>7 DEF i
<1>. HIDE DEF iter
<1>8. SumsUp(F, pick, w, D)
  BY <1>2, <1>4, <1>6, <1>7 DEF SumsUp
<1>. QED
  BY <1>8

\* The sum over no index, and over one index more.
LEMMA SumFacts ==
  ASSUME NEW D, IsFiniteSet(D), NEW w, \A x \in D : w[x] \in Nat
  PROVE  /\ SumAt(w, {}) = 0
         /\ \A A \in SUBSET D : SumAt(w, A) \in Nat
         /\ \A A \in SUBSET D, x \in D : x \notin A => SumAt(w, A \cup {x}) = SumAt(w, A) + w[x]
<1>1. PICK F, pick : SumsUp(F, pick, w, D)
  BY SumRecursion
<1>. DEFINE T == {A \in SUBSET D : \A x \in D \ A : F[A \cup {x}] = F[A] + w[x]}
<1>2. ASSUME NEW A \in SUBSET D, \A x \in A : A \ {x} \in T PROVE A \in T
  <2>. SUFFICES ASSUME NEW x \in D \ A PROVE F[A \cup {x}] = F[A] + w[x]
    OBVIOUS
  <2>. DEFINE B == A \cup {x}
              y == pick[B]
  <2>. SUFFICES F[B] = F[A] + w[x]
    OBVIOUS
  <2>1. B \in SUBSET D /\ y \in B /\ F[B] = w[y] + F[B \ {y}]
    BY <1>1 DEF SumsUp
  <2>2. CASE y = x
    <3>1. B \ {y} = A
      BY <2>2
    <3>2. F[A] \in Nat /\ w[x] \in Nat
      BY <1>1 DEF SumsUp
    <3>. HIDE DEF y, B, T
    <3>3. F[B] = w[x] + F[A]
      BY <2>1, <2>2, <3>1
    <3>. QED
      BY <3>2, <3>3
  <2>3. CASE y # x
    <3>. HIDE DEF y
    <3>1. y \in A /\ B \ {y} = (A \ {y}) \cup {x} /\ (A \ {y}) \cup {y} = A
      BY <2>1, <2>3
    <3>2. F[(A \ {y}) \cup {x}] = F[A \ {y}] + w[x] /\ F[A] = F[A \ {y}] + w[y]
      BY <1>2, <3>1
    <3>3. F[A \ {y}] \in Nat /\ w[x] \in Nat /\ w[y] \in Nat
      BY <1>1, <3>1 DEF SumsUp
    <3>. HIDE DEF B, T
    <3>. QED
      BY <2>1, <3>1, <3>2, <3>3
  <2>. QED
    BY <2>2, <2>3
<1>3. SUBSET D \subseteq T
  <2>. HIDE DEF T
  <2>1. \A A \in SUBSET D : (\A x \in A : A \ {x} \in T) => A \in T
    BY <1>2
  <2>. QED
    BY <2>1, InductSets
<1>4. \A A \in SUBSET D, x \in D : x \notin A => F[A \cup {x}] = F[A] + w[x]
  BY <1>3
<1>5. /\ SumAt(w, {}) = 0
      /\ \A A \in SUBSET D : SumAt(w, A) = F[A] /\ F[A] \in Nat
  BY <1>1 DEF SumsUp
<1>6. ASSUME NEW A \in SUBSET D, NEW x \in D, x \notin A
      PROVE  SumAt(w, A \cup {x}) = SumAt(w, A) + w[x]
  <2>1. A \cup {x} \in SUBSET D
    OBVIOUS
  <2>. HIDE DEF T
  <2>2. SumAt(w, A \cup {x}) = F[A \cup {x}] /\ SumAt(w, A) = F[A]
    BY <1>5, <2>1
  <2>. QED
    BY <1>4, <1>6, <2>2
<1>. QED
  BY <1>5, <1>6

-----------------------------------------------------------------------------
(* Sorting                                                                 *)

\* Of the first numbers, one has the largest value.
LEMMA Heaviest ==
  ASSUME NEW n \in Nat, NEW v \in [1 .. n + 1 -> Nat]
  PROVE  \E m \in 1 .. n + 1 : \A i \in 1 .. n + 1 : v[i] <= v[m]
<1>. DEFINE Best(m, k) == m \in 1 .. k + 1 /\ \A i \in 1 .. k + 1 : v[i] <= v[m]
            U == {k \in 0 .. n : \E m : Best(m, k)}
<1>1. 0 \in U
  <2>1. Best(1, 0)
    OBVIOUS
  <2>. QED
    BY <2>1
<1>2. ASSUME NEW k \in 0 .. n, k \in U, k < n PROVE k + 1 \in U
  <2>1. PICK m : Best(m, k)
    BY <1>2
  <2>2. \A i \in 1 .. (k + 1) + 1 : i \in 1 .. k + 1 \/ i = k + 2
    OBVIOUS
  <2>3. m \in 1 .. n + 1 /\ k + 2 \in 1 .. n + 1 /\ \A i \in 1 .. n + 1 : v[i] \in Nat
    BY <1>2, <2>1
  <2>4. CASE v[k + 2] <= v[m]
    <3>1. Best(m, k + 1)
      BY <2>1, <2>2, <2>3, <2>4
    <3>. HIDE DEF Best
    <3>. QED
      BY <1>2, <3>1
  <2>5. CASE ~(v[k + 2] <= v[m])
    <3>1. \A i \in 1 .. k + 1 : i \in 1 .. n + 1 /\ v[i] <= v[k + 2]
      BY <1>2, <2>1, <2>3, <2>5
    <3>2. Best(k + 2, k + 1)
      BY <2>2, <2>3, <3>1
    <3>. HIDE DEF Best
    <3>. QED
      BY <1>2, <3>2
  <2>. QED
    BY <2>4, <2>5
<1>3. n \in U
  <2>1. n \in 0 .. n
    OBVIOUS
  <2>. HIDE DEF U
  <2>. QED
    BY <1>1, <1>2, <2>1, InductUpTo
<1>. QED
  BY <1>3

\* An order of the first n, with m put last and n + 1 in its place, is one of n + 1.
LEMMA PutLast ==
  ASSUME NEW n \in Nat, NEW m \in 1 .. n + 1, NEW p \in Bijection(1 .. n, 1 .. n), NEW q,
         q = [i \in 1 .. n + 1 |-> IF i = n + 1 THEN m ELSE IF p[i] = m THEN n + 1 ELSE p[i]]
  PROVE  q \in Bijection(1 .. n + 1, 1 .. n + 1)
<1>1. /\ p \in [1 .. n -> 1 .. n]
      /\ \A i, j \in 1 .. n : p[i] = p[j] => i = j
      /\ \A k \in 1 .. n : \E i \in 1 .. n : p[i] = k
  BY DEF Bijection, Injection, Surjection, IsInjective
<1>2. \A i \in 1 .. n + 1 : i \in 1 .. n \/ i = n + 1
  OBVIOUS
<1>3. /\ q[n + 1] = m
      /\ \A i \in 1 .. n : p[i] = m => q[i] = n + 1
      /\ \A i \in 1 .. n : p[i] # m => q[i] = p[i]
  OBVIOUS
<1>4. q \in [1 .. n + 1 -> 1 .. n + 1]
  <2>1. ASSUME NEW i \in 1 .. n + 1 PROVE q[i] \in 1 .. n + 1
    <3>1. CASE i = n + 1
      BY <1>3, <3>1
    <3>2. CASE i \in 1 .. n /\ p[i] = m
      BY <1>3, <3>2
    <3>3. CASE i \in 1 .. n /\ p[i] # m
      <4>1. p[i] \in 1 .. n /\ q[i] = p[i]
        BY <1>1, <1>3, <3>3
      <4>. QED
        BY <4>1
    <3>. QED
      BY <1>2, <3>1, <3>2, <3>3
  <2>2. q = [i \in 1 .. n + 1 |-> q[i]]
    OBVIOUS
  <2>. QED
    BY <2>1, <2>2
<1>5. ASSUME NEW i \in 1 .. n + 1, NEW j \in 1 .. n + 1, q[i] = q[j] PROVE i = j
  <2>1. \A a \in 1 .. n : p[a] # n + 1 /\ q[a] # m
    BY <1>1, <1>3
  <2>2. CASE i \in 1 .. n /\ j \in 1 .. n
    <3>1. p[i] = p[j]
      BY <1>3, <1>5, <2>1, <2>2
    <3>. QED
      BY <1>1, <2>2, <3>1
  <2>. QED
    BY <1>2, <1>3, <1>5, <2>1, <2>2
<1>6. ASSUME NEW k \in 1 .. n + 1 PROVE \E i \in 1 .. n + 1 : q[i] = k
  <2>1. CASE k = m
    BY <1>3, <2>1
  <2>2. CASE k # m /\ k \in 1 .. n
    <3>1. PICK i \in 1 .. n : p[i] = k
      BY <1>1, <2>2
    <3>2. q[i] = k /\ i \in 1 .. n + 1
      BY <1>3, <2>2, <3>1
    <3>. QED
      BY <3>2
  <2>3. CASE k # m /\ k = n + 1
    <3>1. m \in 1 .. n
      BY <2>3
    <3>. QED
      BY <1>1, <1>3, <2>3, <3>1
  <2>. QED
    BY <1>2, <2>1, <2>2, <2>3
<1>. QED
  BY <1>4, <1>5, <1>6 DEF Bijection, Injection, Surjection, IsInjective

\* Any pairs can be put in the order of their first numbers.
LEMMA SortedExists ==
  ASSUME NEW L \in Nat, NEW t \in [1 .. L -> Nat \X Nat]
  PROVE  \E p \in Bijection(1 .. L, 1 .. L) : \A i, j \in 1 .. L : i < j => t[p[i]][1] <= t[p[j]][1]
<1>. DEFINE InOrder(p, s, n) ==
              /\ p \in Bijection(1 .. n, 1 .. n)
              /\ \A i, j \in 1 .. n : i < j => s[p[i]][1] <= s[p[j]][1]
            T == {n \in Nat : \A s \in [1 .. n -> Nat \X Nat] : \E p : InOrder(p, s, n)}
<1>1. 0 \in T
  <2>. SUFFICES ASSUME NEW s \in [1 .. 0 -> Nat \X Nat] PROVE \E p : InOrder(p, s, 0)
    OBVIOUS
  <2>1. 1 .. 0 = {}
    OBVIOUS
  <2>2. [i \in 1 .. 0 |-> i] \in Bijection(1 .. 0, 1 .. 0)
    BY <2>1 DEF Bijection, Injection, Surjection, IsInjective
  <2>. QED
    BY <2>1, <2>2
<1>2. ASSUME NEW n \in Nat, n \in T PROVE n + 1 \in T
  <2>. HIDE DEF InOrder
  <2>. SUFFICES ASSUME NEW s \in [1 .. n + 1 -> Nat \X Nat] PROVE \E p : InOrder(p, s, n + 1)
    OBVIOUS
  <2>. USE DEF InOrder
  <2>1. PICK m \in 1 .. n + 1 : \A i \in 1 .. n + 1 : s[i][1] <= s[m][1]
    <3>. DEFINE v == [i \in 1 .. n + 1 |-> s[i][1]]
    <3>1. v \in [1 .. n + 1 -> Nat]
      OBVIOUS
    <3>2. PICK m \in 1 .. n + 1 : \A i \in 1 .. n + 1 : v[i] <= v[m]
      <4>. HIDE DEF v
      <4>. QED
        BY <3>1, Heaviest
    <3>. QED
      BY <3>2
  <2>. DEFINE r == [i \in 1 .. n |-> IF i = m THEN s[n + 1] ELSE s[i]]
  <2>2. PICK p : InOrder(p, r, n)
    <3>1. r \in [1 .. n -> Nat \X Nat]
      OBVIOUS
    <3>. HIDE DEF r, InOrder
    <3>. QED
      BY <1>2, <3>1
  <2>. DEFINE q == [i \in 1 .. n + 1 |->
                      IF i = n + 1 THEN m ELSE IF p[i] = m THEN n + 1 ELSE p[i]]
  <2>3. \A i \in 1 .. n : p[i] \in 1 .. n
    BY <2>2 DEF Bijection, Injection
  <2>8. q \in Bijection(1 .. n + 1, 1 .. n + 1)
    <3>. HIDE DEF r
    <3>. QED
      BY <2>2, PutLast
  <2>5. q \in [1 .. n + 1 -> 1 .. n + 1]
    BY <2>8 DEF Bijection, Injection
  <2>9. \A i \in 1 .. n : s[q[i]] = r[p[i]]
    BY <2>3
  <2>10. ASSUME NEW i \in 1 .. n + 1, NEW j \in 1 .. n + 1, i < j
         PROVE  s[q[i]][1] <= s[q[j]][1]
    <3>1. CASE j = n + 1
      BY <2>1, <2>5, <3>1
    <3>2. CASE j # n + 1
      <4>1. i \in 1 .. n /\ j \in 1 .. n
        BY <2>10, <3>2
      <4>. QED
        BY <2>2, <2>9, <2>10, <4>1
    <3>. QED
      BY <3>1, <3>2
  <2>11. InOrder(q, s, n + 1)
    BY <2>8, <2>10
  <2>. QED
    BY <2>11
<1>3. L \in T
  <2>. HIDE DEF T
  <2>. QED
    BY <1>1, <1>2, Induct
<1>. QED
  BY <1>3

=============================================================================
