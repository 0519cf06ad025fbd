------------------------------ MODULE FoldLemmas ------------------------------
(***************************************************************************)
(* Induction as the proofs of this project need it, stated for sets instead *)
(* of predicates: over the natural numbers, over the subsets of a finite    *)
(* set, and for a function that is defined by recursion on those subsets,   *)
(* as the folds of the community modules are.                              *)
(***************************************************************************)
EXTENDS Integers, FiniteSets, SequencesExt, FiniteSetTheorems, TLAPS

\* A set of natural numbers has a least member.
LEMMA LeastOf ==
  ASSUME NEW T \in SUBSET Nat, T # {}
  PROVE  \E x \in T : \A y \in T : x <= y
<1>1. PICK x \in T : \A y \in T : <<y, x>> \notin OpToRel(<, Nat)
  BY WFMin, NatLessThanWellFounded
<1>2. \A y \in T : ~(y < x)
  BY <1>1 DEF OpToRel
<1> QED
  BY <1>2

\* A set that holds zero, and with a number its successor, holds every natural number.
LEMMA NatSetInduction ==
  ASSUME NEW S, 0 \in S, \A n \in Nat : n \in S => n + 1 \in S
  PROVE  Nat \subseteq S
<1> SUFFICES ASSUME Nat \ S # {} PROVE FALSE
  OBVIOUS
<1>1. PICK x \in Nat \ S : \A y \in Nat \ S : x <= y
  BY LeastOf
<1>2. x - 1 \in Nat /\ ~(x <= x - 1) /\ (x - 1) + 1 = x
  BY <1>1
<1> QED
  BY <1>1, <1>2

\* A family of subsets of a finite set that holds every subset whose parts with one member
\* less it holds, holds them all.
LEMMA SubsetInduction ==
  ASSUME NEW S, IsFiniteSet(S), NEW P,
         \A T \in SUBSET S : (\A x \in T : T \ {x} \in P) => T \in P
  PROVE  SUBSET S \subseteq P
<1> DEFINE Done == {n \in Nat : \A T \in SUBSET S : Cardinality(T) = n => T \in P}
<1>1. \A T \in SUBSET S : IsFiniteSet(T) /\ Cardinality(T) \in Nat
  BY FS_Subset, FS_CardinalityType
<1>2. 0 \in Done
  BY <1>1, FS_EmptySet
<1>3. ASSUME NEW n \in Nat, n \in Done PROVE n + 1 \in Done
  <2> SUFFICES ASSUME NEW T \in SUBSET S, Cardinality(T) = n + 1 PROVE T \in P
    OBVIOUS
  <2>1. ASSUME NEW x \in T PROVE Cardinality(T \ {x}) = n
    BY <1>1, FS_RemoveElement
  <2> QED
    BY <1>3, <2>1
<1> HIDE DEF Done
<1>4. Nat \subseteq Done
  BY <1>2, <1>3, NatSetInduction
<1> QED
  BY <1>1, <1>4 DEF Done

\* A strict order has a maximal member in every finite set that is not empty.
LEMMA MaximalOf ==
  ASSUME NEW S, IsFiniteSet(S), S # {}, NEW R,
         \A x \in S : <<x, x>> \notin R,
         \A x, y, z \in S : <<x, y>> \in R /\ <<y, z>> \in R => <<x, z>> \in R
  PROVE  \E m \in S : \A x \in S : <<m, x>> \notin R
<1> DEFINE P == {T \in SUBSET S : T = {} \/ \E m \in T : \A x \in T : <<m, x>> \notin R}
<1>1. ASSUME NEW T \in SUBSET S, \A x \in T : T \ {x} \in P PROVE T \in P
  <2> SUFFICES ASSUME T # {} PROVE \E m \in T : \A x \in T : <<m, x>> \notin R
    OBVIOUS
  <2>1. PICK y \in T : TRUE
    OBVIOUS
  <2>2. CASE T \ {y} = {}
    BY <2>1, <2>2
  <2>3. CASE T \ {y} # {}
    <3>1. PICK m \in T \ {y} : \A x \in T \ {y} : <<m, x>> \notin R
      BY <1>1, <2>1, <2>3
    <3>2. CASE <<m, y>> \notin R
      BY <3>1, <3>2
    <3>3. CASE <<m, y>> \in R
      BY <2>1, <3>1, <3>3
    <3> QED
      BY <3>2, <3>3
  <2> QED
    BY <2>2, <2>3
<1> HIDE DEF P
<1>2. SUBSET S \subseteq P
  BY <1>1, SubsetInduction
<1> QED
  BY <1>2 DEF P

LEMMA GreatestOf ==
  ASSUME NEW S \in SUBSET Int, IsFiniteSet(S), S # {}
  PROVE  \E m \in S : \A x \in S : m >= x
<1> DEFINE R == {p \in Int \X Int : p[1] < p[2]}
<1>1. \A x \in S : <<x, x>> \notin R
  OBVIOUS
<1>2. \A x, y, z \in S : <<x, y>> \in R /\ <<y, z>> \in R => <<x, z>> \in R
  OBVIOUS
<1>3. \A m, x \in S : <<m, x>> \notin R => m >= x
  OBVIOUS
<1> HIDE DEF R
<1>4. PICK m \in S : \A x \in S : <<m, x>> \notin R
  BY <1>1, <1>2, MaximalOf
<1> QED
  BY <1>3, <1>4

----------------------------------------------------------------------------
(* Recursion on the subsets of a finite set: ch takes a member out of a     *)
(* subset, op is the step.                                                 *)

Recursive(f, S, b, op, ch) ==
    \A T \in SUBSET S : f[T] = IF T = {} THEN b ELSE op[<<f[T \ {ch[T]}], ch[T]>>]

LEMMA RecursionExists ==
  ASSUME NEW S, IsFiniteSet(S), NEW A, NEW b \in A, NEW op \in [A \X S -> A],
         NEW ch, \A T \in SUBSET S : T # {} => ch[T] \in T
  PROVE  \E f \in [SUBSET S -> A] : Recursive(f, S, b, op, ch)
<1> DEFINE Upto(n) == {T \in SUBSET S : Cardinality(T) <= n}
           Solves(f, n) ==
             \A T \in Upto(n) : f[T] = IF T = {} THEN b ELSE op[<<f[T \ {ch[T]}], ch[T]>>]
           Done == {n \in Nat : \E f \in [SUBSET S -> A] : Solves(f, n)}
<1>1. \A T \in SUBSET S : IsFiniteSet(T) /\ Cardinality(T) \in Nat
  BY FS_Subset, FS_CardinalityType
<1>2. \A T \in SUBSET S : T # {} =>
         /\ T \ {ch[T]} \in SUBSET S
         /\ Cardinality(T \ {ch[T]}) = Cardinality(T) - 1
  BY <1>1, FS_RemoveElement
<1>3. 0 \in Done
  <2> DEFINE f == [T \in SUBSET S |-> b]
  <2>1. \A T \in Upto(0) : T = {}
    BY <1>1, FS_EmptySet
  <2>2. f \in [SUBSET S -> A] /\ Solves(f, 0)
    BY <2>1
  <2> QED
    BY <2>2
<1>4. ASSUME NEW n \in Nat, n \in Done PROVE n + 1 \in Done
  <2>1. PICK f \in [SUBSET S -> A] : Solves(f, n)
    BY <1>4
  <2> DEFINE Next(T) == IF T = {} THEN b ELSE op[<<f[T \ {ch[T]}], ch[T]>>]
             g == [T \in SUBSET S |-> IF T \in Upto(n) THEN f[T] ELSE Next(T)]
  <2>2. ASSUME NEW T \in SUBSET S PROVE Next(T) \in A
    <3>1. T # {} => f[T \ {ch[T]}] \in A /\ ch[T] \in S
      BY <1>2
    <3>2. \A a \in A, x \in S : op[<<a, x>>] \in A
      OBVIOUS
    <3> QED
      BY <3>1, <3>2
  <2>3. g \in [SUBSET S -> A]
    BY <2>2
  <2>4. ASSUME NEW T \in Upto(n + 1)
        PROVE  g[T] = IF T = {} THEN b ELSE op[<<g[T \ {ch[T]}], ch[T]>>]
    <3>1. g[T] = Next(T)
      BY <2>1, <2>4
    <3>2. T # {} => T \ {ch[T]} \in Upto(n)
      BY <1>1, <1>2, <2>4
    <3>3. T # {} => g[T \ {ch[T]}] = f[T \ {ch[T]}]
      BY <3>2
    <3> QED
      BY <3>1, <3>3
  <2>5. Solves(g, n + 1)
    BY <2>4
  <2> HIDE DEF g, Solves
  <2> QED
    BY <2>3, <2>5
<1>5. Nat \subseteq Done
  <2> HIDE DEF Done
  <2> QED
    BY <1>3, <1>4, NatSetInduction
<1>6. PICK f \in [SUBSET S -> A] : Solves(f, Cardinality(S))
  BY <1>1, <1>5
<1>7. \A T \in SUBSET S : T \in Upto(Cardinality(S))
  BY FS_Subset
<1> QED
  BY <1>6, <1>7 DEF Recursive

----------------------------------------------------------------------------
(* The left fold of a sequence of length n takes the greatest index last.   *)

LEMMA MaxOfIndices ==
  ASSUME NEW n \in Nat, NEW T \in SUBSET (1..n), T # {}
  PROVE  Max(T) \in T /\ \A x \in T : Max(T) >= x
<1>1. IsFiniteSet(1..n)
  BY FS_Interval
<1>2. IsFiniteSet(T)
  BY <1>1, FS_Subset
<1>3. T \in SUBSET Int
  OBVIOUS
<1>4. \E m \in T : \A x \in T : m >= x
  BY <1>2, <1>3, GreatestOf
<1> QED
  BY <1>4 DEF Max

LeftFold(f, n, b, op) ==
    \A T \in SUBSET (1..n) : f[T] = IF T = {} THEN b ELSE op[<<f[T \ {Max(T)}], Max(T)>>]

LEMMA LeftFoldExists ==
  ASSUME NEW n \in Nat, NEW A, NEW b \in A, NEW op \in [A \X (1..n) -> A]
  PROVE  \E f \in [SUBSET (1..n) -> A] : LeftFold(f, n, b, op)
<1> DEFINE S == 1..n  ch == [T \in SUBSET S |-> Max(T)]
<1>1. IsFiniteSet(S)
  BY FS_Interval
<1>2. \A T \in SUBSET S : T # {} => ch[T] \in T
  BY MaxOfIndices
<1>3. PICK f \in [SUBSET S -> A] : Recursive(f, S, b, op, ch)
  <2> HIDE DEF S, ch
  <2>1. op \in [A \X S -> A]
    BY DEF S
  <2> QED
    BY <1>1, <1>2, <2>1, RecursionExists
<1>4. LeftFold(f, n, b, op)
  BY <1>3 DEF Recursive, LeftFold
<1> QED
  BY <1>4

LEMMA LeftFoldIn ==
  ASSUME NEW n \in Nat, NEW A, NEW f, f[{}] \in A,
         \A T \in SUBSET (1..n) : T # {} /\ f[T \ {Max(T)}] \in A => f[T] \in A
  PROVE  f[1..n] \in A
<1> DEFINE P == {T \in SUBSET (1..n) : f[T] \in A}
<1>1. IsFiniteSet(1..n)
  BY FS_Interval
<1>2. ASSUME NEW T \in SUBSET (1..n), \A x \in T : T \ {x} \in P PROVE T \in P
  BY <1>2, MaxOfIndices
<1> HIDE DEF P
<1>3. SUBSET (1..n) \subseteq P
  BY <1>1, <1>2, SubsetInduction
<1> QED
  BY <1>3 DEF P

----------------------------------------------------------------------------
(* The members of a finite set of numbers in ascending order.               *)

Ascends(s) == \A i, j \in DOMAIN s : i < j => s[i] < s[j]

LEMMA AscendingExists ==
  ASSUME NEW S \in SUBSET Nat, IsFiniteSet(S)
  PROVE  \E s \in SetToSeqs(S) : Ascends(s)
<1> DEFINE P == {T \in SUBSET S : \E s \in SetToSeqs(T) : Ascends(s)}
<1>1. \A T \in SUBSET S : IsFiniteSet(T) /\ Cardinality(T) \in Nat
  BY FS_Subset, FS_CardinalityType
<1>2. ASSUME NEW T \in SUBSET S, \A x \in T : T \ {x} \in P PROVE T \in P
  <2>1. CASE T = {}
    <3>1. Cardinality(T) = 0
      BY <2>1, FS_EmptySet
    <3>2. <<>> \in [1..Cardinality(T) -> T]
      BY <3>1
    <3>3. <<>> \in SetToSeqs(T) /\ Ascends(<<>>)
      BY <3>1, <3>2 DEF SetToSeqs, Ascends
    <3> QED
      BY <3>3
  <2>2. CASE T # {}
    <3>1. PICK m \in T : \A x \in T : m >= x
      BY <1>1, <2>2, GreatestOf
    <3>2. PICK s \in SetToSeqs(T \ {m}) : Ascends(s)
      BY <1>2
    <3> DEFINE n == Cardinality(T \ {m})
               t == [i \in 1..(n + 1) |-> IF i = n + 1 THEN m ELSE s[i]]
    <3>3. Cardinality(T) = n + 1 /\ n \in Nat
      <4>1. T \ {m} \in SUBSET S
        OBVIOUS
      <4>2. n \in Nat /\ Cardinality(T) \in Nat /\ IsFiniteSet(T)
        BY <1>1, <4>1
      <4>3. n = Cardinality(T) - 1
        BY <4>2, FS_RemoveElement
      <4> QED
        BY <4>2, <4>3
    <3> HIDE DEF n
    <3>4. /\ s \in [1..n -> T \ {m}]
          /\ \A i, j \in 1..n : i # j => s[i] # s[j]
          /\ \A i, j \in 1..n : i < j => s[i] < s[j]
      BY <3>2 DEF SetToSeqs, Ascends, n
    <3>5. \A i \in 1..n : s[i] \in T /\ s[i] < m
      <4> SUFFICES ASSUME NEW i \in 1..n PROVE s[i] \in T /\ s[i] < m
        OBVIOUS
      <4>1. s[i] \in T \ {m}
        BY <3>4
      <4>2. s[i] \in Nat /\ m \in Nat /\ m >= s[i] /\ m # s[i]
        BY <3>1, <4>1
      <4> QED
        BY <4>1, <4>2
    <3>6. t \in [1..(n + 1) -> T]
      BY <3>1, <3>3, <3>5
    <3>7. \A i, j \in 1..(n + 1) : i < j => t[i] < t[j]
      BY <3>3, <3>4, <3>5
    <3>8. \A i, j \in 1..(n + 1) : i # j => t[i] # t[j]
      <4> SUFFICES ASSUME NEW i \in 1..(n + 1), NEW j \in 1..(n + 1), i < j PROVE t[i] # t[j]
        BY <3>3
      <4>1. t[i] \in Nat /\ t[j] \in Nat
        BY <3>6
      <4> HIDE DEF t
      <4> QED
        BY <3>7, <4>1
    <3> HIDE DEF t
    <3>9. t \in SetToSeqs(T) /\ Ascends(t)
      BY <3>3, <3>6, <3>7, <3>8 DEF SetToSeqs, Ascends
    <3> QED
      BY <3>9
  <2> QED
    BY <2>1, <2>2
<1> HIDE DEF P
<1>3. SUBSET S \subseteq P
  BY <1>2, SubsetInduction
<1> QED
  BY <1>3 DEF P

\* A sequence that holds every member of a finite set once holds nothing else.
LEMMA SetToSeqsIs ==
  ASSUME NEW S, IsFiniteSet(S), NEW s \in SetToSeqs(S)
  PROVE  s \in Seq(S) /\ Len(s) = Cardinality(S) /\ ToSet(s) = S
<1> DEFINE n == Cardinality(S)
<1>1. n \in Nat
  BY FS_CardinalityType
<1>2. IsFiniteSet(1..n) /\ Cardinality(1..n) = n
  BY <1>1, FS_Interval
<1> HIDE DEF n
<1>3. s \in [1..n -> S] /\ \A i, j \in 1..n : i # j => s[i] # s[j]
  BY DEF SetToSeqs, n
<1>4. s \in Injection(1..n, S)
  BY <1>3 DEF Injection, IsInjective
<1>5. s \in Surjection(1..n, S)
  BY <1>2, <1>4, FS_Injection DEF n
<1>6. \A x \in S : \E i \in 1..n : s[i] = x
  BY <1>5 DEF Surjection
<1> QED
  BY <1>1, <1>3, <1>6 DEF ToSet, n
=============================================================================
