------------------------------ MODULE FoldProofs ------------------------------
(***************************************************************************)
(* Sums over finite sets and folds over sequences, for the properties that *)
(* count: the nonces, the funds, the gas of a block, the replayed chain.   *)
(*                                                                         *)
(* The induction theorems of the library take a predicate as a parameter;  *)
(* here a predicate is the set of what satisfies it, and induction is the  *)
(* well-foundedness of the order on Nat.                                   *)
(***************************************************************************)
EXTENDS Integers, Sequences, FiniteSetsExt, SequencesExt, FiniteSetTheorems, TLAPS

LEMMA NatSetInduction ==
    ASSUME NEW T, 0 \in T, \A n \in Nat : n \in T => n + 1 \in T
    PROVE  Nat \subseteq T
<1> DEFINE R == OpToRel(<, Nat)
           D == Nat \ T
<1> SUFFICES ASSUME D # {} PROVE FALSE
  OBVIOUS
<1>1. PICK x \in D : \A y \in D : ~ (<<y, x>> \in R)
  <2>1. IsWellFoundedOn(R, Nat)
    BY NatLessThanWellFounded
  <2> HIDE DEF R
  <2> QED BY <2>1, WFMin
<1>2. x \in Nat /\ x # 0 /\ x - 1 \in Nat
  OBVIOUS
<1>3. <<x - 1, x>> \in R
  BY <1>2 DEF OpToRel
<1> HIDE DEF R
<1>4. x - 1 \in D
  <2>1. x - 1 \in T => (x - 1) + 1 \in T
    BY <1>2
  <2> QED BY <1>2, <2>1
<1> QED BY <1>1, <1>3, <1>4

(* What holds of the empty set and survives the addition of an element     *)
(* holds of a finite set.                                                  *)
LEMMA FiniteSetInduction ==
    ASSUME NEW S, IsFiniteSet(S), NEW T, {} \in T,
           \A s \in SUBSET S, x \in S : s \in T /\ x \notin s => s \cup {x} \in T
    PROVE  S \in T
<1> DEFINE N == {n \in Nat : \A s \in SUBSET S : Cardinality(s) = n => s \in T}
<1>1. \A s \in SUBSET S : IsFiniteSet(s) /\ Cardinality(s) \in Nat
  BY FS_Subset, FS_CardinalityType
<1>2. 0 \in N
  BY <1>1, FS_EmptySet
<1>3. ASSUME NEW n \in Nat, n \in N
      PROVE  n + 1 \in N
  <2> SUFFICES ASSUME NEW s \in SUBSET S, Cardinality(s) = n + 1
               PROVE  s \in T
    BY <1>3
  <2>1. s # {}
    BY FS_EmptySet
  <2>2. PICK x \in s : TRUE
    BY <2>1
  <2>3. Cardinality(s \ {x}) = n
    <3>1. IsFiniteSet(s) /\ x \in s
      BY <1>1
    <3>2. Cardinality(s \ {x}) = Cardinality(s) - 1
      BY <3>1, FS_RemoveElement
    <3> QED BY <3>2
  <2>4. s \ {x} \in T
    BY <1>3, <2>3
  <2>5. (s \ {x}) \cup {x} \in T
    BY <2>4
  <2> QED BY <2>5
<1>4. Nat \subseteq N
  <2> HIDE DEF N
  <2> QED BY <1>2, <1>3, NatSetInduction
<1> QED BY <1>1, <1>4

-----------------------------------------------------------------------------
(* The function by which the community modules define a fold exists.       *)

(* g folds the finite subsets of S, an element at a time: c picks it and G *)
(* combines it with the fold of the others.                                *)
Folds(g, S, c, base, G) ==
    \A s \in SUBSET S : g[s] = IF s = {} THEN base ELSE G[<<c[s], g[s \ {c[s]}]>>]

LEMMA FoldExists ==
    ASSUME NEW S, IsFiniteSet(S), NEW c, \A s \in SUBSET S : s # {} => c[s] \in s,
           NEW V, NEW base \in V, NEW G \in [S \X V -> V]
    PROVE  \E g \in [SUBSET S -> V] : Folds(g, S, c, base, G)
<1> DEFINE Eq(g, s) == g[s] = IF s = {} THEN base ELSE G[<<c[s], g[s \ {c[s]}]>>]
           N == {n \in Nat : \E g \in [SUBSET S -> V] :
                               \A s \in SUBSET S : Cardinality(s) =< n => Eq(g, s)}
<1>1. \A s \in SUBSET S : IsFiniteSet(s) /\ Cardinality(s) \in Nat
  BY FS_Subset, FS_CardinalityType
<1>2. 0 \in N
  <2> DEFINE g == [s \in SUBSET S |-> base]
  <2>1. g \in [SUBSET S -> V]
    OBVIOUS
  <2>2. \A s \in SUBSET S : Cardinality(s) =< 0 => s = {}
    BY <1>1, FS_EmptySet
  <2>3. \A s \in SUBSET S : Cardinality(s) =< 0 => Eq(g, s)
    BY <2>2
  <2> HIDE DEF g
  <2> QED BY <2>1, <2>3
<1>3. ASSUME NEW n \in Nat, n \in N
      PROVE  n + 1 \in N
  <2>1. PICK f \in [SUBSET S -> V] : \A s \in SUBSET S : Cardinality(s) =< n => Eq(f, s)
    BY <1>3
  <2> DEFINE g == [s \in SUBSET S |-> IF s = {} THEN base ELSE G[<<c[s], f[s \ {c[s]}]>>]]
  <2>2. g \in [SUBSET S -> V]
    OBVIOUS
  <2>3. \A s \in SUBSET S : Cardinality(s) =< n => g[s] = f[s]
    BY <2>1
  <2>4. ASSUME NEW s \in SUBSET S, Cardinality(s) =< n + 1
        PROVE  Eq(g, s)
    <3>1. CASE s = {}
      BY <3>1
    <3>2. CASE s # {}
      <4>1. c[s] \in s /\ s \ {c[s]} \in SUBSET S
        BY <3>2
      <4>2. Cardinality(s \ {c[s]}) = Cardinality(s) - 1
        BY <1>1, <4>1, FS_RemoveElement
      <4>3. Cardinality(s \ {c[s]}) =< n
        BY <1>1, <2>4, <4>2
      <4>4. g[s \ {c[s]}] = f[s \ {c[s]}]
        BY <2>3, <4>1, <4>3
      <4>5. g[s] = G[<<c[s], f[s \ {c[s]}]>>]
        BY <3>2
      <4> QED BY <3>2, <4>4, <4>5
    <3> QED BY <3>1, <3>2
  <2> HIDE DEF g, Eq
  <2>5. \E e \in [SUBSET S -> V] : \A s \in SUBSET S : Cardinality(s) =< n + 1 => Eq(e, s)
    BY <2>2, <2>4
  <2> QED BY <2>5
<1>4. Nat \subseteq N
  <2> HIDE DEF N
  <2> QED BY <1>2, <1>3, NatSetInduction
<1>5. Cardinality(S) \in N
  BY <1>1, <1>4
<1>6. PICK g \in [SUBSET S -> V] :
           \A s \in SUBSET S : Cardinality(s) =< Cardinality(S) => Eq(g, s)
  BY <1>5
<1>7. \A s \in SUBSET S : Cardinality(s) =< Cardinality(S)
  BY FS_Subset
<1> QED BY <1>6, <1>7 DEF Folds

-----------------------------------------------------------------------------
(* Sums.                                                                   *)

SumOf(f, S) == MapThenSumSet(LAMBDA x : f[x], S)

(* g[s] is the sum of f over s, by the recursion of MapThenSumSet.         *)
IsSum(g, S, f) ==
    \A s \in SUBSET S :
        g[s] = IF s = {} THEN 0
               ELSE f[CHOOSE x \in s : TRUE] + g[s \ {CHOOSE x \in s : TRUE}]

LEMMA IsSumUnique ==
    ASSUME NEW S, NEW T \in SUBSET S, IsFiniteSet(T), NEW f, NEW g, NEW h,
           IsSum(g, S, f), IsSum(h, T, f)
    PROVE  g[T] = h[T]
<1> DEFINE N == {n \in Nat : \A s \in SUBSET T : Cardinality(s) = n => g[s] = h[s]}
<1>1. \A s \in SUBSET T : IsFiniteSet(s) /\ Cardinality(s) \in Nat
  BY FS_Subset, FS_CardinalityType
<1>2. 0 \in N
  <2>1. \A s \in SUBSET T : Cardinality(s) = 0 => s = {}
    BY <1>1, FS_EmptySet
  <2> QED BY <2>1 DEF IsSum
<1>3. ASSUME NEW n \in Nat, n \in N
      PROVE  n + 1 \in N
  <2> SUFFICES ASSUME NEW s \in SUBSET T, Cardinality(s) = n + 1
               PROVE  g[s] = h[s]
    BY <1>3
  <2> DEFINE x == CHOOSE x \in s : TRUE
  <2>1. s # {} /\ x \in s
    BY FS_EmptySet
  <2>2. g[s] = f[x] + g[s \ {x}] /\ h[s] = f[x] + h[s \ {x}]
    BY <2>1 DEF IsSum
  <2> HIDE DEF x
  <2>3. Cardinality(s \ {x}) = n
    <3>1. Cardinality(s \ {x}) = Cardinality(s) - 1
      BY <1>1, <2>1, FS_RemoveElement
    <3> QED BY <3>1
  <2>4. g[s \ {x}] = h[s \ {x}]
    BY <1>3, <2>3
  <2> QED BY <2>2, <2>4
<1>4. Nat \subseteq N
  <2> HIDE DEF N
  <2> QED BY <1>2, <1>3, NatSetInduction
<1> QED BY <1>1, <1>4

(* The sum over a finite set is the value of such a function.              *)
LEMMA SumRecursion ==
    ASSUME NEW S, IsFiniteSet(S), NEW f \in [S -> Int]
    PROVE  \E g \in [SUBSET S -> Int] : IsSum(g, S, f) /\ SumOf(f, S) = g[S]
<1> DEFINE c == [s \in SUBSET S |-> CHOOSE x \in s : TRUE]
           G == [p \in S \X Int |-> f[p[1]] + p[2]]
           rhs(h) == [s \in SUBSET S |->
                        IF s = {} THEN 0
                        ELSE f[CHOOSE x \in s : TRUE] + h[s \ {CHOOSE x \in s : TRUE}]]
           iter == CHOOSE h : h = rhs(h)
<1>1. \A s \in SUBSET S : s # {} => c[s] \in s
  OBVIOUS
<1>2. G \in [S \X Int -> Int] /\ \A x \in S, v \in Int : G[<<x, v>>] = f[x] + v
  OBVIOUS
<1>3. PICK sum \in [SUBSET S -> Int] : Folds(sum, S, c, 0, G)
  <2> HIDE DEF c, G
  <2>1. 0 \in Int /\ G \in [S \X Int -> Int]
    BY <1>2
  <2>2. \E g \in [SUBSET S -> Int] : Folds(g, S, c, 0, G)
    BY ONLY IsFiniteSet(S), <1>1, <2>1, FoldExists
  <2> QED BY <2>2
<1>4. IsSum(sum, S, f)
  <2> SUFFICES ASSUME NEW s \in SUBSET S, s # {}
               PROVE  sum[s] = f[c[s]] + sum[s \ {c[s]}]
    BY <1>3 DEF Folds, IsSum
  <2>1. c[s] \in S /\ sum[s \ {c[s]}] \in Int
    BY <1>1
  <2>2. sum[s] = G[<<c[s], sum[s \ {c[s]}]>>]
    BY <1>3 DEF Folds
  <2> HIDE DEF c, G
  <2> QED BY <1>2, <2>1, <2>2
<1>5. sum = rhs(sum)
  BY <1>4 DEF IsSum
<1> HIDE DEF c, G
<1>6. iter = rhs(iter)
  <2> HIDE DEF rhs
  <2> QED BY <1>5
<1>7. IsSum(iter, S, f)
  <2> HIDE DEF iter
  <2> QED BY <1>6 DEF IsSum
<1>8. SumOf(f, S) = iter[S]
  BY DEF SumOf, MapThenSumSet, MapThenFoldSet
<1> HIDE DEF iter
<1>9. iter[S] = sum[S]
  BY <1>4, <1>7, IsSumUnique
<1> QED BY <1>4, <1>8, <1>9

(* The sum does not depend on the order in which the elements are taken.   *)
LEMMA IsSumRemove ==
    ASSUME NEW S, IsFiniteSet(S), NEW f, \A y \in S : f[y] \in Int,
           NEW g, \A s \in SUBSET S : g[s] \in Int,
           IsSum(g, S, f), NEW t \in SUBSET S, NEW z \in t
    PROVE  g[t] = f[z] + g[t \ {z}]
<1> DEFINE N == {n \in Nat : \A s \in SUBSET S, x \in S :
                               Cardinality(s) = n /\ x \in s => g[s] = f[x] + g[s \ {x}]}
<1>1. \A s \in SUBSET S : IsFiniteSet(s) /\ Cardinality(s) \in Nat
  BY FS_Subset, FS_CardinalityType
<1>2. 0 \in N
  BY <1>1, FS_EmptySet
<1>3. ASSUME NEW n \in Nat, n \in N
      PROVE  n + 1 \in N
  <2> SUFFICES ASSUME NEW s \in SUBSET S, NEW x \in S, Cardinality(s) = n + 1, x \in s
               PROVE  g[s] = f[x] + g[s \ {x}]
    BY <1>3
  <2> DEFINE y == CHOOSE y \in s : TRUE
  <2>1. y \in s /\ y \in S /\ g[s] = f[y] + g[s \ {y}]
    BY DEF IsSum
  <2> HIDE DEF y
  <2>2. CASE y = x
    BY <2>1, <2>2
  <2>3. CASE y # x
    <3>1. Cardinality(s \ {y}) = n /\ Cardinality(s \ {x}) = n
      <4>1. /\ Cardinality(s \ {y}) = Cardinality(s) - 1
            /\ Cardinality(s \ {x}) = Cardinality(s) - 1
        BY <1>1, <2>1, FS_RemoveElement
      <4> QED BY <4>1
    <3>2. g[s \ {y}] = f[x] + g[(s \ {y}) \ {x}]
      BY <1>3, <2>3, <3>1
    <3>3. g[s \ {x}] = f[y] + g[(s \ {x}) \ {y}]
      BY <1>3, <2>1, <2>3, <3>1
    <3>4. (s \ {y}) \ {x} = (s \ {x}) \ {y}
      OBVIOUS
    <3>5. g[(s \ {x}) \ {y}] \in Int /\ f[x] \in Int /\ f[y] \in Int
      BY <2>1
    <3> DEFINE r == g[(s \ {x}) \ {y}]
    <3>6. g[s] = f[y] + (f[x] + r) /\ g[s \ {x}] = f[y] + r /\ r \in Int
      BY <2>1, <3>2, <3>3, <3>4, <3>5
    <3> HIDE DEF r
    <3> QED BY <3>5, <3>6
  <2> QED BY <2>2, <2>3
<1>4. Nat \subseteq N
  <2> HIDE DEF N
  <2> QED BY <1>2, <1>3, NatSetInduction
<1> QED BY <1>1, <1>4

LEMMA IsSumRemoveLast ==
    ASSUME NEW S, IsFiniteSet(S), NEW f, \A y \in S : f[y] \in Int,
           NEW g, \A s \in SUBSET S : g[s] \in Int, IsSum(g, S, f), NEW x \in S
    PROVE  g[S] = f[x] + g[S \ {x}]
<1>1. S \in SUBSET S
  OBVIOUS
<1> QED BY <1>1, IsSumRemove, Z3

(* What the proofs cite.                                                   *)

LEMMA SumEmpty ==
    ASSUME NEW f
    PROVE  SumOf(f, {}) = 0
<1> DEFINE rhs(h) == [s \in SUBSET {} |->
                        IF s = {} THEN 0
                        ELSE f[CHOOSE x \in s : TRUE] + h[s \ {CHOOSE x \in s : TRUE}]]
           iter == CHOOSE h : h = rhs(h)
           zero == [s \in SUBSET {} |-> 0]
<1>1. zero = rhs(zero)
  OBVIOUS
<1>2. iter = rhs(iter)
  <2> HIDE DEF rhs, zero
  <2> QED BY <1>1
<1>3. iter[{}] = 0
  <2> HIDE DEF iter
  <2> QED BY <1>2
<1> QED BY <1>3 DEF SumOf, MapThenSumSet, MapThenFoldSet

(* Only the values of f on S count.                                        *)
LEMMA SumCongruence ==
    ASSUME NEW S, NEW f, NEW g, \A x \in S : f[x] = g[x]
    PROVE  SumOf(f, S) = SumOf(g, S)
<1> DEFINE left(h) == [s \in SUBSET S |->
                         IF s = {} THEN 0
                         ELSE f[CHOOSE x \in s : TRUE] + h[s \ {CHOOSE x \in s : TRUE}]]
           right(h) == [s \in SUBSET S |->
                          IF s = {} THEN 0
                          ELSE g[CHOOSE x \in s : TRUE] + h[s \ {CHOOSE x \in s : TRUE}]]
<1>1. \A h : left(h) = right(h)
  OBVIOUS
<1>2. (CHOOSE h : h = left(h)) = CHOOSE h : h = right(h)
  <2> HIDE DEF left, right
  <2> QED BY <1>1
<1> QED BY <1>2 DEF SumOf, MapThenSumSet, MapThenFoldSet

LEMMA SumRemove ==
    ASSUME NEW S, IsFiniteSet(S), NEW f, \A y \in S : f[y] \in Int, NEW x \in S
    PROVE  /\ SumOf(f, S) = f[x] + SumOf(f, S \ {x})
           /\ SumOf(f, S) \in Int
           /\ SumOf(f, S \ {x}) \in Int
<1> DEFINE F == [y \in S |-> f[y]]
           T == S \ {x}
           H == [y \in T |-> f[y]]
<1>1. F \in [S -> Int] /\ H \in [T -> Int] /\ IsFiniteSet(T)
  BY FS_RemoveElement
<1>2. SumOf(F, S) = SumOf(f, S) /\ SumOf(H, T) = SumOf(f, T)
  <2>1. SumOf(F, S) = SumOf(f, S)
    BY SumCongruence
  <2>2. SumOf(H, T) = SumOf(f, T)
    BY SumCongruence
  <2> QED BY <2>1, <2>2
<1>3. F[x] = f[x] /\ \A y \in T : F[y] = H[y]
  OBVIOUS
<1> HIDE DEF F, H
<1>4. PICK g \in [SUBSET S -> Int] : IsSum(g, S, F) /\ SumOf(F, S) = g[S]
  BY <1>1, SumRecursion
<1>5. PICK h \in [SUBSET T -> Int] : IsSum(h, T, H) /\ SumOf(H, T) = h[T]
  <2> HIDE DEF T
  <2> QED BY <1>1, SumRecursion
<1>6. IsSum(h, T, F)
  <2> SUFFICES ASSUME NEW s \in SUBSET T, s # {}
               PROVE  h[s] = F[CHOOSE y \in s : TRUE] + h[s \ {CHOOSE y \in s : TRUE}]
    BY <1>5 DEF IsSum
  <2> DEFINE y == CHOOSE y \in s : TRUE
  <2>1. y \in T
    OBVIOUS
  <2>2. h[s] = H[y] + h[s \ {y}]
    BY <1>5 DEF IsSum
  <2> QED BY <1>3, <2>1, <2>2
<1>7. g[T] = h[T]
  BY <1>1, <1>4, <1>6, IsSumUnique
<1>8. g[S] = F[x] + g[S \ {x}]
  <2>1. /\ \A y \in S : F[y] \in Int
        /\ \A s \in SUBSET S : g[s] \in Int
        /\ IsSum(g, S, F)
    BY <1>1, <1>4
  <2> QED BY <2>1, IsSumRemoveLast
<1> QED BY <1>2, <1>3, <1>4, <1>5, <1>7, <1>8

LEMMA SumType ==
    ASSUME NEW S, IsFiniteSet(S), NEW f, \A y \in S : f[y] \in Int
    PROVE  SumOf(f, S) \in Int
<1>1. CASE S = {}
  BY <1>1, SumEmpty
<1>2. CASE S # {}
  BY <1>2, SumRemove
<1> QED BY <1>1, <1>2

LEMMA SumAdd ==
    ASSUME NEW S, IsFiniteSet(S), NEW f, NEW x, x \notin S,
           \A y \in S \cup {x} : f[y] \in Int
    PROVE  /\ SumOf(f, S \cup {x}) = f[x] + SumOf(f, S)
           /\ SumOf(f, S) \in Int
<1> DEFINE T == S \cup {x}
<1>1. IsFiniteSet(T) /\ x \in T /\ T \ {x} = S
  BY FS_AddElement
<1> HIDE DEF T
<1>2. \A y \in T : f[y] \in Int
  BY DEF T
<1>3. /\ SumOf(f, T) = f[x] + SumOf(f, T \ {x})
      /\ SumOf(f, T \ {x}) \in Int
  BY <1>1, <1>2, SumRemove
<1> QED BY <1>1, <1>3 DEF T

LEMMA SumNat ==
    ASSUME NEW S, IsFiniteSet(S), NEW f, \A y \in S : f[y] \in Nat
    PROVE  SumOf(f, S) \in Nat
<1> DEFINE T == {s \in SUBSET S : SumOf(f, s) \in Nat}
<1>1. {} \in T
  BY SumEmpty
<1>2. ASSUME NEW s \in SUBSET S, NEW x \in S, s \in T, x \notin s
      PROVE  s \cup {x} \in T
  <2>1. IsFiniteSet(s) /\ \A y \in s \cup {x} : f[y] \in Int
    BY FS_Subset
  <2>2. SumOf(f, s \cup {x}) = f[x] + SumOf(f, s)
    BY <1>2, <2>1, SumAdd
  <2>3. SumOf(f, s \cup {x}) \in Nat
    BY <1>2, <2>2
  <2> QED BY <2>3
<1> HIDE DEF T
<1>3. S \in T
  BY <1>1, <1>2, FiniteSetInduction
<1> QED BY <1>3 DEF T

(* No term of a sum of naturals exceeds it.                                *)
LEMMA SumCovers ==
    ASSUME NEW S, IsFiniteSet(S), NEW f, \A y \in S : f[y] \in Nat, NEW x \in S
    PROVE  f[x] =< SumOf(f, S)
<1>1. SumOf(f, S) = f[x] + SumOf(f, S \ {x})
  BY SumRemove
<1>2. IsFiniteSet(S \ {x})
  BY FS_Subset
<1>3. SumOf(f, S \ {x}) \in Nat
  BY <1>2, SumNat
<1> DEFINE others == SumOf(f, S \ {x})
<1>4. others \in Nat /\ f[x] \in Nat /\ SumOf(f, S) = f[x] + others
  BY <1>1, <1>3
<1> HIDE DEF others
<1> QED BY <1>4

-----------------------------------------------------------------------------
(* Folds from left to right.                                               *)

(* F[k] is the fold of the first k elements; H[<<v, k>>] is what the fold  *)
(* v of those before it and the k-th element give.                         *)
FoldsLeft(F, n, V, base, H) ==
    /\ F[0] = base
    /\ \A k \in 0..n : F[k] \in V
    /\ \A k \in 1..n : F[k] = H[<<F[k - 1], k>>]

FoldLeftIs(n, V, base, H, value) == \E F : FoldsLeft(F, n, V, base, H) /\ F[n] = value

(* iter is what FoldLeft folds with, up to the type of its values.         *)
FoldsByMax(iter, n, V, base, H) ==
    /\ iter[{}] = base
    /\ \A t \in SUBSET (1..n) :
          t # {} /\ iter[t \ {Max(t)}] \in V =>
              iter[t] = H[<<iter[t \ {Max(t)}], Max(t)>>]

FoldByMaxDefined(n, V, base, H) ==
    \E g \in [SUBSET (1..n) -> V] :
        \A t \in SUBSET (1..n) :
            g[t] = IF t = {} THEN base ELSE H[<<g[t \ {Max(t)}], Max(t)>>]

LEMMA MaxOfSubset ==
    ASSUME NEW n \in Nat
    PROVE  /\ \A t \in SUBSET (1..n) : t # {} => Max(t) \in t
           /\ \A k \in 1..n : Max(1..k) = k /\ (1..k) \ {k} = 1..(k - 1)
<1>1. ASSUME NEW t \in SUBSET (1..n), t # {}
      PROVE  Max(t) \in t
  <2> DEFINE D == {n - x : x \in t}
             R == OpToRel(<, Nat)
  <2>0. \A x \in t : x \in Nat /\ x =< n
    OBVIOUS
  <2>1. D \subseteq Nat /\ D # {}
    <3>1. \A x \in t : n - x \in Nat
      BY <2>0
    <3> QED BY <1>1, <3>1
  <2>2. PICK d \in D : \A e \in D : ~ (<<e, d>> \in R)
    <3>1. IsWellFoundedOn(R, Nat)
      BY NatLessThanWellFounded
    <3> HIDE DEF R, D
    <3> QED BY <2>1, <3>1, WFMin
  <2>3. \A e \in D : ~ (e < d)
    BY <2>1, <2>2 DEF OpToRel
  <2>4. PICK x \in t : d = n - x
    OBVIOUS
  <2>5. \A y \in t : x >= y
    <3> TAKE y \in t
    <3>1. n - y \in D
      OBVIOUS
    <3>2. ~ (n - y < n - x)
      BY <2>3, <2>4, <3>1
    <3>3. x \in Nat /\ y \in Nat
      BY <2>0
    <3> QED BY <3>2, <3>3
  <2> QED BY <2>5 DEF Max
<1>2. ASSUME NEW k \in 1..n
      PROVE  Max(1..k) = k /\ (1..k) \ {k} = 1..(k - 1)
  <2>1. k \in 1..k /\ \A y \in 1..k : k >= y
    OBVIOUS
  <2>2. \A x \in 1..k : (\A y \in 1..k : x >= y) => x = k
    BY <2>1
  <2>3. Max(1..k) = k
    BY <2>1, <2>2 DEF Max
  <2> QED BY <2>3
<1> QED BY <1>1, <1>2

LEMMA MinOfSet ==
    ASSUME NEW S, S \subseteq Nat, S # {}
    PROVE  Min(S) \in S /\ \A y \in S : Min(S) =< y
<1> DEFINE R == OpToRel(<, Nat)
<1>1. PICK x \in S : \A y \in S : ~ (<<y, x>> \in R)
  <2>1. IsWellFoundedOn(R, Nat)
    BY NatLessThanWellFounded
  <2> HIDE DEF R
  <2> QED BY <2>1, WFMin
<1>2. \A y \in S : x =< y
  <2> TAKE y \in S
  <2>1. x \in Nat /\ y \in Nat /\ ~ (y < x)
    BY <1>1 DEF OpToRel
  <2> QED BY <2>1
<1> QED BY <1>2 DEF Min

LEMMA FoldByMaxExists ==
    ASSUME NEW n \in Nat, NEW V, NEW base \in V, NEW H \in [V \X (1..n) -> V]
    PROVE  FoldByMaxDefined(n, V, base, H)
<1> DEFINE S == 1..n
           c == [t \in SUBSET S |-> Max(t)]
           G == [p \in S \X V |-> H[<<p[2], p[1]>>]]
<1>1. IsFiniteSet(S)
  BY FS_Interval
<1>2. \A t \in SUBSET S : t # {} => c[t] \in t
  BY MaxOfSubset
<1>3. G \in [S \X V -> V] /\ \A x \in S, v \in V : G[<<x, v>>] = H[<<v, x>>]
  OBVIOUS
<1>4. PICK g \in [SUBSET S -> V] : Folds(g, S, c, base, G)
  <2> HIDE DEF S, c, G
  <2>1. G \in [S \X V -> V]
    BY <1>3
  <2>2. \E h \in [SUBSET S -> V] : Folds(h, S, c, base, G)
    BY <1>1, <1>2, <2>1, FoldExists
  <2> QED BY <2>2
<1>5. ASSUME NEW t \in SUBSET S, t # {}
      PROVE  g[t] = H[<<g[t \ {Max(t)}], Max(t)>>]
  <2>1. c[t] = Max(t) /\ c[t] \in S /\ g[t \ {c[t]}] \in V
    BY <1>2, <1>5
  <2>2. g[t] = G[<<c[t], g[t \ {c[t]}]>>]
    BY <1>4, <1>5 DEF Folds
  <2> HIDE DEF G, c
  <2> QED BY <1>3, <2>1, <2>2
<1>6. g[{}] = base
  BY <1>4 DEF Folds
<1> QED BY <1>5, <1>6 DEF FoldByMaxDefined

LEMMA FoldByPrefixes ==
    ASSUME NEW n \in Nat, NEW V, NEW base \in V, NEW H \in [V \X (1..n) -> V],
           NEW iter, FoldsByMax(iter, n, V, base, H)
    PROVE  FoldLeftIs(n, V, base, H, iter[1..n])
<1> DEFINE F == [k \in 0..n |-> iter[1..k]]
           N == {k \in Nat : k =< n => iter[1..k] \in V}
<1>1. ASSUME NEW k \in 1..n, iter[1..(k - 1)] \in V
      PROVE  iter[1..k] = H[<<iter[1..(k - 1)], k>>] /\ iter[1..k] \in V
  <2>1. /\ 1..k \in SUBSET (1..n) /\ 1..k # {}
        /\ Max(1..k) = k /\ (1..k) \ {k} = 1..(k - 1)
    <3>1. Max(1..k) = k /\ (1..k) \ {k} = 1..(k - 1)
      BY MaxOfSubset
    <3>2. 1 \in 1..k
      OBVIOUS
    <3> QED BY <3>1, <3>2
  <2>2. iter[1..k] = H[<<iter[1..(k - 1)], k>>]
    BY <1>1, <2>1 DEF FoldsByMax
  <2>3. <<iter[1..(k - 1)], k>> \in V \X (1..n)
    BY <1>1
  <2> QED BY <2>2, <2>3
<1>2. 0 \in N
  BY DEF FoldsByMax
<1>3. ASSUME NEW k \in Nat, k \in N
      PROVE  k + 1 \in N
  <2> SUFFICES ASSUME k + 1 =< n PROVE iter[1..(k + 1)] \in V
    OBVIOUS
  <2>1. iter[1..((k + 1) - 1)] \in V /\ k + 1 \in 1..n
    BY <1>3
  <2> QED BY <1>1, <2>1
<1>4. Nat \subseteq N
  <2> HIDE DEF N
  <2> QED BY <1>2, <1>3, NatSetInduction
<1>5. \A k \in 0..n : iter[1..k] \in V
  BY <1>4
<1>6. ASSUME NEW k \in 1..n
      PROVE  F[k] = H[<<F[k - 1], k>>]
  <2>1. F[k] = iter[1..k] /\ F[k - 1] = iter[1..(k - 1)] /\ k - 1 \in 0..n
    OBVIOUS
  <2> HIDE DEF F
  <2> QED BY <1>1, <1>5, <2>1
<1>7. F[0] = base
  BY DEF FoldsByMax
<1>8. (\A k \in 0..n : F[k] \in V) /\ F[n] = iter[1..n]
  BY <1>5
<1> HIDE DEF F
<1> QED BY <1>6, <1>7, <1>8 DEF FoldsLeft, FoldLeftIs

(* Two folds with the same steps, over the same elements.                  *)
LEMMA FoldsLeftAgree ==
    ASSUME NEW n \in Nat, NEW m \in Nat, n =< m, NEW V, NEW base,
           NEW H, NEW J, \A v \in V, k \in 1..n : H[<<v, k>>] = J[<<v, k>>],
           NEW E, FoldsLeft(E, n, V, base, H), NEW F, FoldsLeft(F, m, V, base, J)
    PROVE  E[n] = F[n]
<1> DEFINE N == {k \in Nat : k =< n => E[k] = F[k]}
<1>1. 0 \in N
  BY DEF FoldsLeft
<1>2. ASSUME NEW k \in Nat, k \in N
      PROVE  k + 1 \in N
  <2> SUFFICES ASSUME k + 1 =< n PROVE E[k + 1] = F[k + 1]
    OBVIOUS
  <2>1. E[k] = F[k] /\ E[k] \in V
    BY <1>2 DEF FoldsLeft
  <2>2. k + 1 \in 1..n /\ k + 1 \in 1..m /\ (k + 1) - 1 = k
    OBVIOUS
  <2>3. E[k + 1] = H[<<E[k], k + 1>>] /\ F[k + 1] = J[<<F[k], k + 1>>]
    BY <2>2 DEF FoldsLeft
  <2> QED BY <2>1, <2>2, <2>3
<1>3. Nat \subseteq N
  <2> HIDE DEF N
  <2> QED BY <1>1, <1>2, NatSetInduction
<1> QED BY <1>3

LEMMA FoldOfNone ==
    ASSUME NEW V, NEW base, NEW H, NEW value, FoldLeftIs(0, V, base, H, value)
    PROVE  value = base
BY DEF FoldLeftIs, FoldsLeft

LEMMA FoldType ==
    ASSUME NEW n \in Nat, NEW V, NEW base, NEW H, NEW value, FoldLeftIs(n, V, base, H, value)
    PROVE  value \in V
BY DEF FoldLeftIs, FoldsLeft

(* One more element is one more step.                                      *)
LEMMA FoldOfMore ==
    ASSUME NEW n \in Nat, NEW V, NEW base,
           NEW H, NEW J, \A v \in V, k \in 1..n : H[<<v, k>>] = J[<<v, k>>],
           NEW less, FoldLeftIs(n, V, base, H, less),
           NEW more, FoldLeftIs(n + 1, V, base, J, more)
    PROVE  more = J[<<less, n + 1>>] /\ less \in V
<1>1. PICK E : FoldsLeft(E, n, V, base, H) /\ E[n] = less
  BY DEF FoldLeftIs
<1>2. PICK F : FoldsLeft(F, n + 1, V, base, J) /\ F[n + 1] = more
  BY DEF FoldLeftIs
<1>3. E[n] = F[n]
  <2>1. n + 1 \in Nat /\ n =< n + 1
    OBVIOUS
  <2> QED BY <1>1, <1>2, <2>1, FoldsLeftAgree
<1>4. F[n] \in V /\ F[n + 1] = J[<<F[n], n + 1>>]
  <2>1. n \in 0..(n + 1) /\ n + 1 \in 1..(n + 1) /\ (n + 1) - 1 = n
    OBVIOUS
  <2> QED BY <1>2, <2>1 DEF FoldsLeft
<1> QED BY <1>1, <1>2, <1>3, <1>4
-----------------------------------------------------------------------------
(* Sets that have no element in common are counted one after the other.    *)

LEMMA CountUnion ==
    ASSUME NEW n \in Nat, NEW B,
           \A k \in 1..n : IsFiniteSet(B[k]),
           \A j, k \in 1..n : j # k => B[j] \cap B[k] = {},
           NEW F, F[0] = 0, \A k \in 1..n : F[k] = F[k - 1] + Cardinality(B[k])
    PROVE  /\ IsFiniteSet(UNION {B[k] : k \in 1..n})
           /\ Cardinality(UNION {B[k] : k \in 1..n}) = F[n]
<1> DEFINE U(m) == UNION {B[k] : k \in 1..m}
           N == {m \in Nat : m =< n => IsFiniteSet(U(m)) /\ Cardinality(U(m)) = F[m]}
<1>1. 0 \in N
  <2>1. U(0) = {}
    OBVIOUS
  <2> HIDE DEF U
  <2> QED BY <2>1, FS_EmptySet
<1>2. ASSUME NEW m \in Nat, m \in N
      PROVE  m + 1 \in N
  <2> SUFFICES ASSUME m + 1 =< n
               PROVE  IsFiniteSet(U(m + 1)) /\ Cardinality(U(m + 1)) = F[m + 1]
    OBVIOUS
  <2>1. m + 1 \in 1..n /\ (m + 1) - 1 = m /\ m =< n
    OBVIOUS
  <2>2. U(m + 1) = U(m) \cup B[m + 1]
    <3>1. 1..(m + 1) = 1..m \cup {m + 1}
      OBVIOUS
    <3> QED BY <3>1
  <2>3. U(m) \cap B[m + 1] = {}
    <3>1. \A k \in 1..m : k \in 1..n /\ k # m + 1
      BY <2>1
    <3>2. \A k \in 1..m : B[k] \cap B[m + 1] = {}
      BY <2>1, <3>1
    <3> QED BY <3>2
  <2> HIDE DEF U
  <2>4. /\ IsFiniteSet(U(m)) /\ Cardinality(U(m)) = F[m]
        /\ IsFiniteSet(B[m + 1]) /\ F[m + 1] = F[m] + Cardinality(B[m + 1])
    BY <1>2, <2>1
  <2>5. /\ IsFiniteSet(U(m) \cup B[m + 1])
        /\ Cardinality(U(m) \cup B[m + 1]) =
              Cardinality(U(m)) + Cardinality(B[m + 1]) - Cardinality(U(m) \cap B[m + 1])
    BY <2>4, FS_Union
  <2>6. Cardinality(U(m)) \in Nat /\ Cardinality(B[m + 1]) \in Nat
    BY <2>4, FS_CardinalityType
  <2>7. Cardinality(U(m) \cap B[m + 1]) = 0
    BY <2>3, FS_EmptySet
  <2> DEFINE a == Cardinality(U(m))
             b == Cardinality(B[m + 1])
             both == Cardinality(U(m) \cup B[m + 1])
  <2>8. both = a + b /\ F[m + 1] = a + b
    <3>1. both = a + b - 0 /\ a \in Nat /\ b \in Nat
      BY <2>5, <2>6, <2>7
    <3>2. F[m + 1] = a + b
      BY <2>4
    <3> HIDE DEF a, b, both
    <3> QED BY <3>1, <3>2
  <2> QED BY <2>2, <2>5, <2>8
<1>3. Nat \subseteq N
  <2> HIDE DEF N
  <2> QED BY <1>1, <1>2, NatSetInduction
<1>4. n \in N
  BY <1>3
<1> QED BY <1>4
===============================================================================
