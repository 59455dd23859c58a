-------------------------- MODULE InductionLemmas --------------------------
(***************************************************************************)
(* Induction in terms of sets, for the proofs about what recursive         *)
(* functions and folds compute: sets of natural numbers have smallest      *)
(* elements, and a recursion over the subsets of a finite set has a        *)
(* solution.                                                               *)
(***************************************************************************)
EXTENDS Integers, FiniteSets, FiniteSetTheorems, WellFoundedInduction, TLAPS

(* Every set of natural numbers that is not empty has a smallest element. *)
LEMMA SmallestExists ==
  ASSUME NEW T \in SUBSET Nat, T # {}
  PROVE  \E x \in T : \A y \in T : x <= y
<1> DEFINE R == OpToRel(<, Nat)
<1>1. \A x, y \in Nat : <<x, y>> \in R <=> x < y
  BY DEF OpToRel
<1>2. IsWellFoundedOn(R, Nat)
  BY NatLessThanWellFounded
<1> HIDE DEF R
<1>3. PICK x \in T : \A y \in T : ~(<<y, x>> \in R)
  BY <1>2, WFMin
<1>4. \A y \in T : ~(y < x)
  BY <1>1, <1>3
<1>5. \A y \in T : y \in Nat /\ x \in Nat
  OBVIOUS
<1> QED
  BY <1>4, <1>5

(* Induction on the natural numbers. *)
LEMMA SetInduction ==
  ASSUME NEW T, 0 \in T, \A n \in Nat : n \in T => n + 1 \in T
  PROVE  Nat \subseteq T
<1> SUFFICES ASSUME Nat \ T # {} PROVE FALSE
  OBVIOUS
<1>1. PICK x \in Nat \ T : \A y \in Nat \ T : x <= y
  BY SmallestExists
<1>2. x # 0 /\ x - 1 \in Nat
  BY <1>1
<1>3. x - 1 \in T
  BY <1>1, <1>2
<1> QED
  BY <1>1, <1>2, <1>3

(* Every bounded set of natural numbers that is not empty has a largest    *)
(* element.                                                                *)
LEMMA LargestExists ==
  ASSUME NEW n \in Nat, NEW T \in SUBSET (0 .. n), T # {}
  PROVE  \E x \in T : \A y \in T : y <= x
<1> DEFINE U == {n - y : y \in T}
<1>0. \A y \in T : y \in Nat /\ n - y \in Nat /\ n - y \in U
  OBVIOUS
<1>1. U \in SUBSET Nat /\ U # {}
  BY <1>0
<1>2. PICK u \in U : \A v \in U : u <= v
  BY <1>1, SmallestExists
<1>3. PICK x \in T : u = n - x
  OBVIOUS
<1>4. \A y \in T : n - x <= n - y
  BY <1>0, <1>2, <1>3
<1>5. \A y \in T : y <= x
  BY <1>0, <1>4
<1> QED
  BY <1>5

(* Induction on the subsets of a finite set. *)
LEMMA SubsetInduction ==
  ASSUME NEW S, IsFiniteSet(S), NEW T, {} \in T,
         \A s \in SUBSET S : s # {} /\ (\A e \in s : s \ {e} \in T) => s \in T
  PROVE  SUBSET S \subseteq T
<1> DEFINE N == {n \in Nat : \A s \in SUBSET S : Cardinality(s) = n => s \in T}
<1>1. \A s \in SUBSET S : IsFiniteSet(s) /\ Cardinality(s) \in Nat
  BY FS_Subset, FS_CardinalityType
<1>2. 0 \in N
  BY <1>1, FS_EmptySet
<1>3. ASSUME NEW n \in Nat, n \in N
      PROVE  n + 1 \in N
  <2> SUFFICES ASSUME NEW s \in SUBSET S, Cardinality(s) = n + 1
               PROVE  s \in T
    OBVIOUS
  <2>1. s # {}
    BY <1>1, FS_EmptySet
  <2>2. \A e \in s : s \ {e} \in T
    <3> SUFFICES ASSUME NEW e \in s PROVE s \ {e} \in T
      OBVIOUS
    <3>1. Cardinality(s \ {e}) = n
      BY <1>1, FS_RemoveElement
    <3> QED
      BY <1>3, <3>1
  <2> QED
    BY <2>1, <2>2
<1> HIDE DEF N
<1>4. Nat \subseteq N
  BY <1>2, <1>3, SetInduction
<1> QED
  BY <1>1, <1>4 DEF N

(* The functions that choose an element of every subset that has one. *)
Choosers(S) == {x \in [(SUBSET S) \ {{}} -> S] : \A s \in DOMAIN x : x[s] \in s}

(* What a fold over the subsets of S computes, from base with op. *)
FoldsOf(S, V, base, op, x) ==
  {F \in [SUBSET S -> V] :
     /\ F[{}] = base
     /\ \A s \in SUBSET S : s # {} => F[s] = op[<<x[s], F[s \ {x[s]}]>>]}

(* The recursion of the folds over sets: x chooses the element of a subset *)
(* that is taken out, op combines it with the value of the rest.           *)
LEMMA SubsetRecursion ==
  ASSUME NEW S, IsFiniteSet(S), NEW V, NEW base \in V, NEW op \in [S \X V -> V],
         NEW x \in Choosers(S)
  PROVE  FoldsOf(S, V, base, op, x) # {}
<1>0. \A s \in SUBSET S : s # {} => x[s] \in s
  BY DEF Choosers
<1> DEFINE Step(F) == [s \in SUBSET S |-> IF s = {} THEN base ELSE op[<<x[s], F[s \ {x[s]}]>>]]
           Good(F, n) == \A s \in SUBSET S : Cardinality(s) <= n => F[s] = Step(F)[s]
           N == {n \in Nat : \E F \in [SUBSET S -> V] : Good(F, n)}
<1>1. \A s \in SUBSET S : /\ IsFiniteSet(s) /\ Cardinality(s) \in Nat
                          /\ Cardinality(s) <= Cardinality(S)
  BY FS_Subset, FS_CardinalityType
<1>2. \A F \in [SUBSET S -> V] : Step(F) \in [SUBSET S -> V]
  BY <1>0
<1>3. 0 \in N
  <2> DEFINE F == [s \in SUBSET S |-> base]
  <2>1. F \in [SUBSET S -> V]
    OBVIOUS
  <2>2. \A s \in SUBSET S : Cardinality(s) <= 0 => s = {}
    BY <1>1, FS_EmptySet
  <2>3. Good(F, 0)
    BY <2>2
  <2> QED
    BY <2>1, <2>3
<1>4. ASSUME NEW n \in Nat, n \in N
      PROVE  n + 1 \in N
  <2>1. PICK F \in [SUBSET S -> V] : Good(F, n)
    BY <1>4
  <2> DEFINE G == Step(F)
  <2>2. G \in [SUBSET S -> V]
    BY <1>2
  <2>3. ASSUME NEW s \in SUBSET S, Cardinality(s) <= n + 1, s # {}
        PROVE  G[s] = Step(G)[s]
    <3> DEFINE r == s \ {x[s]}
    <3>1. r \in SUBSET S /\ x[s] \in s
      BY <1>0, <2>3
    <3>2. Cardinality(r) <= n
      BY <1>1, <2>3, <3>1, FS_RemoveElement
    <3>3. F[r] = G[r]
      BY <2>1, <3>1, <3>2
    <3>4. G[s] = op[<<x[s], F[r]>>] /\ Step(G)[s] = op[<<x[s], G[r]>>]
      BY <2>3
    <3> QED
      BY <3>3, <3>4
  <2>4. \A s \in SUBSET S : s = {} => G[s] = Step(G)[s]
    OBVIOUS
  <2> HIDE DEF G
  <2>5. Good(G, n + 1)
    BY <2>3, <2>4
  <2>6. \E H \in [SUBSET S -> V] : Good(H, n + 1)
    <3> HIDE DEF Good
    <3> QED
      BY <2>2, <2>5
  <2> HIDE DEF Good
  <2> QED
    BY <2>6
<1>5. Nat \subseteq N
  <2> HIDE DEF N
  <2> QED
    BY <1>3, <1>4, SetInduction
<1>6. Cardinality(S) \in N
  <2> HIDE DEF N
  <2> QED
    BY <1>5, FS_CardinalityType
<1>7. PICK F \in [SUBSET S -> V] : Good(F, Cardinality(S))
  BY <1>6
<1>8. F = Step(F)
  BY <1>1, <1>2, <1>7
<1>9. /\ F[{}] = base
      /\ \A s \in SUBSET S : s # {} => F[s] = op[<<x[s], F[s \ {x[s]}]>>]
  BY <1>8
<1> QED
  BY <1>9 DEF FoldsOf

(* Division with remainder. *)
LEMMA Division ==
  ASSUME NEW a \in Nat, NEW d \in Nat \ {0}
  PROVE  a % d \in 0 .. d - 1 /\ a \div d \in Nat /\ a = (a \div d) * d + (a % d)
<1> DEFINE T == {q \in 0 .. a : q * d <= a}
<1>1. 0 \in T
  OBVIOUS
<1>2. PICK q \in T : \A y \in T : y <= q
  BY <1>1, LargestExists
<1>3. q \in Nat /\ q * d \in Nat /\ q * d <= a /\ (q + 1) * d = q * d + d
  BY <1>2
<1>4. a < q * d + d
  <2> SUFFICES ASSUME q * d + d <= a PROVE FALSE
    BY <1>3
  <2>1. q + 1 <= (q + 1) * d
    <3>1. \A b \in Nat : b <= b * d
      OBVIOUS
    <3> QED
      BY <1>3, <3>1
  <2>2. q + 1 \in T
    BY <1>3, <2>1
  <2> QED
    BY <1>2, <1>3, <2>2
<1> DEFINE r == a - q * d
<1>5. r \in 0 .. d - 1 /\ a = q * d + r
  BY <1>3, <1>4
<1> HIDE DEF r
<1>6. (q * d + r) % d = r /\ (q * d + r) \div d = q
  BY <1>3, <1>5
<1> QED
  BY <1>3, <1>5, <1>6

-----------------------------------------------------------------------------
(***************************************************************************)
(* Powers of two, counted as sets of subsets.                              *)
(***************************************************************************)
LEMMA PowerOfZero == 2 ^ 0 = 1
<1>1. Cardinality({}) = 0 /\ IsFiniteSet({})
  BY FS_EmptySet
<1>2. Cardinality(SUBSET {}) = 2 ^ 0
  BY <1>1, FS_SUBSET
<1>3. SUBSET {} = {{}}
  OBVIOUS
<1> QED
  BY <1>2, <1>3, FS_Singleton

(* A subset of 1 .. n + 1 is one of 1 .. n, with n + 1 or without. *)
LEMMA PowerOfNext ==
  ASSUME NEW n \in Nat
  PROVE  2 ^ n \in Nat /\ 2 ^ (n + 1) = 2 * 2 ^ n
<1> DEFINE S == 1 .. n
           A == SUBSET S
           B == {s \cup {n + 1} : s \in A}
<1>1. IsFiniteSet(S) /\ Cardinality(S) = n
  BY FS_Interval
<1>2. IsFiniteSet(A) /\ Cardinality(A) = 2 ^ n
  BY <1>1, FS_SUBSET
<1>3. IsFiniteSet(1 .. n + 1) /\ Cardinality(1 .. n + 1) = n + 1
  BY FS_Interval
<1>4. Cardinality(SUBSET (1 .. n + 1)) = 2 ^ (n + 1)
  BY <1>3, FS_SUBSET
<1>5. n + 1 \notin S
  OBVIOUS
<1>6. IsFiniteSet(B) /\ Cardinality(B) = Cardinality(A)
  <2> DEFINE f == [s \in A |-> s \cup {n + 1}]
  <2>1. f \in Bijection(A, B)
    <3>1. \A s, t \in A : s \cup {n + 1} = t \cup {n + 1} => s = t
      BY <1>5
    <3>4. \A s \in A : s \cup {n + 1} \in B
      OBVIOUS
    <3>2. f \in [A -> B] /\ (\A s, t \in A : f[s] = f[t] => s = t)
      <4> HIDE DEF A, B
      <4> QED
        BY <3>1, <3>4
    <3>3. \A b \in B : \E s \in A : f[s] = b
      OBVIOUS
    <3> QED
      BY <3>2, <3>3 DEF Bijection, Injection, Surjection, IsInjective
  <2> HIDE DEF f, A, B
  <2>2. ExistsBijection(A, B)
    BY <2>1 DEF ExistsBijection
  <2> QED
    BY <1>2, <2>2, FS_Bijection
<1>7. A \cap B = {}
  BY <1>5
<1>8. A \cup B = SUBSET (1 .. n + 1)
  <2>1. 1 .. n + 1 = S \cup {n + 1}
    OBVIOUS
  <2>2. \A t \in SUBSET (S \cup {n + 1}) : t \in A \cup B
    <3> SUFFICES ASSUME NEW t \in SUBSET (S \cup {n + 1}), t \notin A PROVE t \in B
      OBVIOUS
    <3>1. n + 1 \in t /\ t \ {n + 1} \in A
      OBVIOUS
    <3>2. t = (t \ {n + 1}) \cup {n + 1}
      BY <3>1
    <3> QED
      BY <3>1, <3>2
  <2>3. A \cup B \subseteq SUBSET (S \cup {n + 1})
    OBVIOUS
  <2> HIDE DEF S, A, B
  <2> QED
    BY <2>1, <2>2, <2>3
<1> HIDE DEF A, B, S
<1>9. Cardinality(A \cup B) = Cardinality(A) + Cardinality(B) - Cardinality(A \cap B)
  BY <1>2, <1>6, FS_Union
<1>10. Cardinality(A \cap B) = 0 /\ Cardinality(A) \in Nat
  BY <1>2, <1>7, FS_EmptySet, FS_CardinalityType
<1>11. 2 ^ n \in Nat /\ 2 ^ (n + 1) = 2 ^ n + 2 ^ n - 0
  BY <1>2, <1>4, <1>6, <1>8, <1>9, <1>10
<1>12. \A e \in Nat : e + e - 0 = 2 * e
  OBVIOUS
<1> QED
  BY <1>11, <1>12

(* Powers of two are positive. *)
LEMMA PowerType ==
  ASSUME NEW n \in Nat
  PROVE  2 ^ n \in Nat \ {0}
<1> DEFINE T == {m \in Nat : 2 ^ m # 0}
<1>1. 0 \in T
  BY PowerOfZero
<1>2. \A m \in Nat : m \in T => m + 1 \in T
  BY PowerOfNext
<1> HIDE DEF T
<1>3. n \in T
  BY <1>1, <1>2, SetInduction
<1> QED
  BY <1>3, PowerOfNext DEF T

(* A power of a sum is the product of the powers. *)
LEMMA PowerOfSum ==
  ASSUME NEW a \in Nat, NEW b \in Nat
  PROVE  2 ^ (a + b) = 2 ^ a * 2 ^ b
<1> DEFINE T == {m \in Nat : 2 ^ (a + m) = 2 ^ a * 2 ^ m}
<1>1. 0 \in T
  <2>1. a + 0 = a /\ 2 ^ a \in Nat
    BY PowerOfNext
  <2> QED
    BY <2>1, PowerOfZero
<1>2. ASSUME NEW m \in Nat, m \in T
      PROVE  m + 1 \in T
  <2>1. /\ 2 ^ (a + m) = 2 ^ a * 2 ^ m
        /\ 2 ^ (a + m + 1) = 2 * 2 ^ (a + m) /\ 2 ^ (m + 1) = 2 * 2 ^ m
        /\ 2 ^ a \in Nat /\ 2 ^ m \in Nat
    BY <1>2, PowerOfNext
  <2>2. \A x, y \in Nat : 2 * (x * y) = x * (2 * y)
    OBVIOUS
  <2>3. a + m + 1 = a + (m + 1)
    OBVIOUS
  <2> QED
    BY <2>1, <2>2, <2>3
<1> HIDE DEF T
<1>3. b \in T
  BY <1>1, <1>2, SetInduction
<1> QED
  BY <1>3 DEF T

-----------------------------------------------------------------------------
(* The states of n rounds of a loop that starts in s0.                     *)
RunsOf(S, s0, op, n) ==
  {f \in [0 .. n -> S] : f[0] = s0 /\ \A m \in 1 .. n : f[m] = op[f[m - 1]]}

(* Every loop has its rounds. *)
LEMMA LoopRuns ==
  ASSUME NEW S, NEW s0 \in S, NEW op \in [S -> S], NEW n \in Nat
  PROVE  RunsOf(S, s0, op, n) # {}
<1> DEFINE T == {m \in Nat : RunsOf(S, s0, op, m) # {}}
<1>1. 0 \in T
  <2> DEFINE f == [k \in 0 .. 0 |-> s0]
  <2>1. f \in RunsOf(S, s0, op, 0)
    BY DEF RunsOf
  <2> QED
    BY <2>1
<1>2. ASSUME NEW m \in Nat, m \in T
      PROVE  m + 1 \in T
  <2>1. PICK f \in RunsOf(S, s0, op, m) : TRUE
    BY <1>2
  <2>2. f \in [0 .. m -> S] /\ f[0] = s0 /\ \A k \in 1 .. m : f[k] = op[f[k - 1]]
    BY <2>1 DEF RunsOf
  <2> DEFINE g == [k \in 0 .. m + 1 |-> IF k = m + 1 THEN op[f[m]] ELSE f[k]]
  <2>3. m \in 0 .. m /\ f[m] \in S /\ op[f[m]] \in S
    BY <2>2
  <2>4. \A k \in 0 .. m : k \in 0 .. m + 1 /\ k # m + 1 /\ g[k] = f[k]
    OBVIOUS
  <2>5. g[m + 1] = op[f[m]] /\ g \in [0 .. m + 1 -> S]
    BY <2>2, <2>3
  <2> HIDE DEF g
  <2>6. g[0] = s0 /\ g[m] = f[m]
    BY <2>2, <2>4
  <2>7. ASSUME NEW k \in 1 .. m + 1
        PROVE  g[k] = op[g[k - 1]]
    <3>1. CASE k = m + 1
      <4>1. k - 1 = m
        BY <3>1
      <4> QED
        BY <2>5, <2>6, <3>1, <4>1
    <3>2. CASE k # m + 1
      <4>1. k \in 1 .. m /\ k \in 0 .. m /\ k - 1 \in 0 .. m
        BY <3>2
      <4> QED
        BY <2>2, <2>4, <4>1
    <3> QED
      BY <3>1, <3>2
  <2>8. g \in RunsOf(S, s0, op, m + 1)
    BY <2>5, <2>6, <2>7 DEF RunsOf
  <2> QED
    BY <2>8
<1>3. n \in T
  <2> HIDE DEF T
  <2> QED
    BY <1>1, <1>2, SetInduction
<1> QED
  BY <1>3

(* A loop whose rank falls until it has come to its end.                   *)
LEMMA LoopEnds ==
  ASSUME NEW S, NEW s0 \in S, NEW op \in [S -> S], NEW rank \in [S -> Nat],
         \A s \in S : op[s] = s \/ rank[op[s]] < rank[s],
         NEW n \in Nat, rank[s0] <= n, NEW f \in RunsOf(S, s0, op, n)
  PROVE  f[n] \in S /\ op[f[n]] = f[n]
<1>0. f \in [0 .. n -> S] /\ f[0] = s0 /\ \A k \in 1 .. n : f[k] = op[f[k - 1]]
  BY DEF RunsOf
<1> DEFINE T == {m \in Nat : m <= n => rank[f[m]] + m <= n \/ op[f[m]] = f[m]}
<1>1. 0 \in T
  <2>1. rank[s0] \in Nat /\ f[0] = s0
    BY <1>0
  <2>2. rank[f[0]] + 0 <= n
    BY <2>1
  <2> QED
    BY <2>2
<1>2. ASSUME NEW m \in Nat, m \in T, m + 1 <= n
      PROVE  rank[f[m + 1]] + (m + 1) <= n \/ op[f[m + 1]] = f[m + 1]
  <2>1. m \in 0 .. n /\ m + 1 \in 0 .. n /\ m + 1 \in 1 .. n /\ (m + 1) - 1 = m /\ m <= n
    BY <1>2
  <2>2. f[m + 1] = op[f[m]] /\ f[m] \in S /\ f[m + 1] \in S
    BY <1>0, <2>1
  <2>3. rank[f[m]] \in Nat /\ rank[f[m + 1]] \in Nat
    BY <2>2
  <2>4. CASE op[f[m]] = f[m]
    BY <2>2, <2>4
  <2>5. CASE op[f[m]] # f[m]
    <3>1. rank[f[m + 1]] < rank[f[m]] /\ rank[f[m]] + m <= n
      BY <1>2, <2>1, <2>2, <2>5
    <3> QED
      BY <2>3, <3>1
  <2> QED
    BY <2>4, <2>5
<1>3. \A m \in Nat : m \in T => m + 1 \in T
  BY <1>2
<1>4. n \in T
  <2> HIDE DEF T
  <2> QED
    BY <1>1, <1>3, SetInduction
<1>5. n \in 0 .. n /\ f[n] \in S /\ op[f[n]] \in S
  BY <1>0
<1>6. op[f[n]] = f[n]
  <2> SUFFICES ASSUME op[f[n]] # f[n] PROVE FALSE
    OBVIOUS
  <2>1. rank[f[n]] + n <= n /\ rank[op[f[n]]] < rank[f[n]]
    BY <1>4, <1>5
  <2>2. rank[f[n]] \in Nat /\ rank[op[f[n]]] \in Nat
    BY <1>5
  <2> QED
    BY <2>1, <2>2
<1> QED
  BY <1>5, <1>6

(* Whatever obeys the recursion of a loop is its run.                      *)
LEMMA LoopIsRun ==
  ASSUME NEW S, NEW s0 \in S, NEW op \in [S -> S], NEW n \in Nat, NEW g,
         DOMAIN g = 0 .. n, g = [m \in DOMAIN g |-> g[m]], g[0] = s0,
         \A m \in 1 .. n : g[m - 1] \in S => g[m] = op[g[m - 1]]
  PROVE  g \in RunsOf(S, s0, op, n)
<1> DEFINE T == {m \in Nat : m <= n => g[m] \in S}
<1>1. 0 \in T
  OBVIOUS
<1>2. ASSUME NEW m \in Nat, m \in T, m + 1 <= n
      PROVE  g[m + 1] \in S
  <2>1. m + 1 \in 1 .. n /\ (m + 1) - 1 = m /\ m <= n
    BY <1>2
  <2>2. g[m] \in S
    BY <1>2, <2>1
  <2>3. g[m + 1] = op[g[m]]
    BY <2>1, <2>2
  <2> QED
    BY <2>2, <2>3
<1>3. \A m \in Nat : m \in T => m + 1 \in T
  BY <1>2
<1>4. Nat \subseteq T
  <2> HIDE DEF T
  <2> QED
    BY <1>1, <1>3, SetInduction
<1>5. \A m \in 0 .. n : g[m] \in S
  BY <1>4
<1>6. \A m \in 1 .. n : g[m] = op[g[m - 1]]
  <2> SUFFICES ASSUME NEW m \in 1 .. n PROVE g[m] = op[g[m - 1]]
    OBVIOUS
  <2>1. m - 1 \in 0 .. n
    OBVIOUS
  <2> QED
    BY <1>5, <2>1
<1>7. g \in [0 .. n -> S]
  BY <1>5
<1> QED
  BY <1>6, <1>7 DEF RunsOf

=============================================================================
