----------------------------- MODULE FoldLemmas -----------------------------
(***************************************************************************)
(* Induction over data, and what it gives for the folds of the community   *)
(* modules that the models use: FlattenSeq, SumFunction, Min and Max.      *)
(*                                                                         *)
(* An induction theorem that takes a predicate cannot be instantiated by   *)
(* the provers.  The principle is used here in the form of a least         *)
(* counterexample, on sets of numbers.                                     *)
(***************************************************************************)
EXTENDS Integers, Sequences, FiniteSets, SequencesExt, SequenceTheorems,
        FiniteSetTheorems, NaturalsInduction, WellFoundedInduction, TLAPS

\* Every set of naturals that is not empty has a least element.
LEMMA LeastNatural ==
    ASSUME NEW T, T \subseteq Nat, T # {}
    PROVE  \E x \in T : \A y \in T : x <= y
<1>1. IsWellFoundedOn(OpToRel(<, Nat), Nat)
  BY NatLessThanWellFounded, Zenon
<1>2. PICK x \in T : \A y \in T : ~ (<<y, x>> \in OpToRel(<, Nat))
  BY <1>1, WFMin, Zenon
<1>3. \A y \in T : ~(y < x)
  BY <1>2 DEF OpToRel
<1>. QED
  BY <1>3

\* Induction up to n: a set that holds 0 and, with every number below n, the
\* one after it, holds all numbers up to n.
LEMMA InductionUpTo ==
    ASSUME NEW n \in Nat, NEW S, 0 \in S, \A i \in 0 .. n : i \in S /\ i < n => i + 1 \in S
    PROVE  \A i \in 0 .. n : i \in S
<1>. SUFFICES ASSUME NEW j \in 0 .. n, j \notin S PROVE FALSE
  OBVIOUS
<1>. DEFINE T == {i \in 0 .. n : i \notin S}
<1>1. T \subseteq Nat /\ T # {}
  OBVIOUS
<1>2. PICK i \in T : \A y \in T : i <= y
  <2>. HIDE DEF T
  <2>. QED
    BY <1>1, LeastNatural
<1>3. i \in 0 .. n /\ i \notin S /\ i # 0
  BY <1>2
<1>4. i - 1 \in 0 .. n /\ i - 1 < n /\ ~(i <= i - 1) /\ (i - 1) + 1 = i
  BY <1>3
<1>5. i - 1 \in S
  <2>1. i - 1 \notin T
    <3>. HIDE DEF T
    <3>. QED
      BY <1>2, <1>4
  <2>. QED
    BY <2>1, <1>4
<1>. QED
  BY <1>3, <1>4, <1>5

-----------------------------------------------------------------------------
(***************************************************************************)
(* FlattenSeq.                                                             *)
(***************************************************************************)
\* The partial concatenations of s.
IsFold(g, s, m) == \A i \in 1 .. m : g[i] = IF i = 1 THEN s[i] ELSE g[i - 1] \o s[i]

LEMMA FoldExists ==
    ASSUME NEW C, NEW s \in Seq(Seq(C))
    PROVE  \E g \in [1 .. Len(s) -> Seq(C)] : IsFold(g, s, Len(s))
<1>. DEFINE S == {m \in 0 .. Len(s) : \E g \in [1 .. m -> Seq(C)] : IsFold(g, s, m)}
<1>0. Len(s) \in Nat /\ \A i \in 1 .. Len(s) : s[i] \in Seq(C)
  OBVIOUS
<1>1. 0 \in S
  <2>1. [i \in 1 .. 0 |-> <<>>] \in [1 .. 0 -> Seq(C)]
    OBVIOUS
  <2>2. IsFold([i \in 1 .. 0 |-> <<>>], s, 0)
    BY DEF IsFold
  <2>3. \E g \in [1 .. 0 -> Seq(C)] : IsFold(g, s, 0)
    BY <2>1, <2>2
  <2>4. 0 \in 0 .. Len(s)
    BY <1>0
  <2>. QED
    BY <2>3, <2>4, Zenon
<1>2. ASSUME NEW m \in 0 .. Len(s), m \in S, m < Len(s) PROVE m + 1 \in S
  <2>1. PICK g \in [1 .. m -> Seq(C)] : IsFold(g, s, m)
    BY <1>2
  <2>2. m + 1 \in 1 .. Len(s) /\ m + 1 \in 0 .. Len(s) /\ m \in Nat
    BY <1>0, <1>2
  <2>. DEFINE last == IF m + 1 = 1 THEN s[m + 1] ELSE g[m] \o s[m + 1]
              h == [i \in 1 .. m + 1 |-> IF i = m + 1 THEN last ELSE g[i]]
  <2>3. last \in Seq(C)
    <3>1. CASE m = 0
      BY <1>0, <2>2, <3>1
    <3>2. CASE m # 0
      <4>1. g[m] \in Seq(C) /\ s[m + 1] \in Seq(C) /\ m + 1 # 1
        BY <1>0, <2>1, <2>2, <3>2
      <4>2. g[m] \o s[m + 1] \in Seq(C)
        BY <4>1, ConcatProperties
      <4>. QED
        BY <4>1, <4>2
    <3>. QED
      BY <3>1, <3>2
  <2>. HIDE DEF last
  <2>4. h \in [1 .. m + 1 -> Seq(C)]
    BY <2>1, <2>2, <2>3
  <2>5. ASSUME NEW i \in 1 .. m + 1
        PROVE  h[i] = IF i = 1 THEN s[i] ELSE h[i - 1] \o s[i]
    <3>1. CASE i = m + 1
      <4>1. m # 0 => h[m] = g[m]
        BY <2>2
      <4>2. h[i] = last /\ i - 1 = m
        BY <2>2, <3>1
      <4>. QED
        BY <2>2, <3>1, <4>1, <4>2 DEF last
    <3>2. CASE i # m + 1
      <4>1. i \in 1 .. m /\ h[i] = g[i]
        BY <2>2, <3>2
      <4>2. i # 1 => i - 1 \in 1 .. m /\ h[i - 1] = g[i - 1]
        BY <2>2, <4>1
      <4>. QED
        BY <2>1, <4>1, <4>2 DEF IsFold
    <3>. QED
      BY <3>1, <3>2
  <2>6. IsFold(h, s, m + 1)
    <3>. HIDE DEF h
    <3>. QED
      BY <2>5 DEF IsFold
  <2>. HIDE DEF h
  <2>. QED
    BY <2>2, <2>4, <2>6
<1>3. Len(s) \in S
  <2>. HIDE DEF S
  <2>1. \A i \in 0 .. Len(s) : i \in S
    BY <1>0, <1>1, <1>2, InductionUpTo
  <2>. QED
    BY <1>0, <2>1
<1>. QED
  BY <1>3

\* FlattenSeq is the last of the partial concatenations.
LEMMA FlattenIsFold ==
    ASSUME NEW C, NEW s \in Seq(Seq(C)), s # <<>>
    PROVE  \E g \in [1 .. Len(s) -> Seq(C)] :
             IsFold(g, s, Len(s)) /\ FlattenSeq(s) = g[Len(s)]
<1>0. Len(s) \in Nat \ {0} /\ \A i \in 1 .. Len(s) : s[i] \in Seq(C)
  OBVIOUS
<1>1. PICK g \in [1 .. Len(s) -> Seq(C)] : IsFold(g, s, Len(s))
  BY FoldExists
<1>. DEFINE F(f) == [i \in 1 .. Len(s) |-> IF i = 1 THEN s[i] ELSE f[i - 1] \o s[i]]
            c == CHOOSE f : f = F(f)
<1>2. g = F(g)
  BY <1>1 DEF IsFold
<1>3. c = F(c)
  <2>. HIDE DEF F
  <2>. QED
    BY <1>2
<1>4. FlattenSeq(s) = c[Len(s)]
  BY <1>0 DEF FlattenSeq
<1>. HIDE DEF c
<1>5. IsFold(c, s, Len(s)) /\ c = [i \in 1 .. Len(s) |-> c[i]]
  BY <1>3 DEF IsFold
<1>. DEFINE S == {m \in 0 .. Len(s) : m > 0 => c[m] = g[m]}
<1>6. 0 \in S
  BY <1>0
<1>7. ASSUME NEW m \in 0 .. Len(s), m \in S, m < Len(s) PROVE m + 1 \in S
  <2>1. m + 1 \in 1 .. Len(s) /\ m + 1 \in 0 .. Len(s) /\ (m + 1) - 1 = m /\ m \in Nat
    BY <1>0, <1>7
  <2>2. /\ c[m + 1] = IF m + 1 = 1 THEN s[m + 1] ELSE c[(m + 1) - 1] \o s[m + 1]
        /\ g[m + 1] = IF m + 1 = 1 THEN s[m + 1] ELSE g[(m + 1) - 1] \o s[m + 1]
    BY <1>1, <1>5, <2>1 DEF IsFold
  <2>3. m > 0 => c[m] = g[m]
    BY <1>7
  <2>. QED
    BY <2>1, <2>2, <2>3
<1>8. c[Len(s)] = g[Len(s)]
  <2>1. \A i \in 0 .. Len(s) : i \in S
    <3>. HIDE DEF S
    <3>. QED
      BY <1>0, <1>6, <1>7, InductionUpTo
  <2>. QED
    BY <1>0, <2>1
<1>. QED
  BY <1>1, <1>4, <1>8

\* The two parts of a concatenation.
LEMMA ConcatParts ==
    ASSUME NEW C, NEW s \in Seq(C), NEW t \in Seq(C)
    PROVE  /\ \A x \in 1 .. Len(s) : (s \o t)[x] = s[x]
           /\ \A x \in 1 .. Len(t) : (s \o t)[Len(s) + x] = t[x]
  BY ConcatProperties

-----------------------------------------------------------------------------
(***************************************************************************)
(* Finite sets.                                                            *)
(***************************************************************************)
\* Induction over the subsets of a finite set, one element at a time.
LEMMA RemovalInduction ==
    ASSUME NEW S, IsFiniteSet(S), NEW P, {} \in P,
           \A T \in SUBSET S : T # {} /\ (\A x \in T : T \ {x} \in P) => T \in P
    PROVE  \A T \in SUBSET S : T \in P
<1>. DEFINE n == Cardinality(S)
            K == {k \in 0 .. n : \A T \in SUBSET S : Cardinality(T) = k => T \in P}
<1>0. n \in Nat
  BY FS_CardinalityType
<1>1. \A T \in SUBSET S : IsFiniteSet(T) /\ Cardinality(T) \in 0 .. n
  BY <1>0, FS_Subset, FS_CardinalityType
<1>2. 0 \in K
  BY <1>0, <1>1, FS_EmptySet
<1>3. ASSUME NEW k \in 0 .. n, k \in K, k < n PROVE k + 1 \in K
  <2>1. k + 1 \in 0 .. n /\ k \in Nat
    BY <1>0, <1>3
  <2>2. ASSUME NEW T \in SUBSET S, Cardinality(T) = k + 1 PROVE T \in P
    <3>1. T # {}
      <4>1. k + 1 # 0
        BY <2>1
      <4>. QED
        BY <2>2, <4>1, FS_EmptySet, Zenon
    <3>2. ASSUME NEW x \in T PROVE T \ {x} \in P
      <4>1. Cardinality(T \ {x}) = Cardinality(T) - 1
        BY <1>1, <2>2, <3>2, FS_RemoveElement
      <4>2. Cardinality(T \ {x}) = k /\ T \ {x} \in SUBSET S
        BY <2>1, <2>2, <4>1
      <4>. QED
        BY <1>3, <4>2
    <3>. QED
      BY <3>1, <3>2
  <2>. QED
    BY <2>1, <2>2
<1>4. \A k \in 0 .. n : k \in K
  <2>. HIDE DEF n, K
  <2>. QED
    BY <1>0, <1>2, <1>3, InductionUpTo
<1>. QED
  BY <1>1, <1>4

\* The least and the greatest of a finite set of integers.
LEMMA FiniteExtremes ==
    ASSUME NEW S, IsFiniteSet(S), S # {}, S \subseteq Int
    PROVE  /\ Min(S) \in S /\ \A y \in S : Min(S) <= y
           /\ Max(S) \in S /\ \A y \in S : y <= Max(S)
<1>. DEFINE Ends(T) == /\ \E x \in T : \A y \in T : x <= y
                       /\ \E x \in T : \A y \in T : x >= y
            P == {T \in SUBSET S : T = {} \/ Ends(T)}
<1>1. {} \in P
  OBVIOUS
<1>2. ASSUME NEW T \in SUBSET S, T # {}, \A x \in T : T \ {x} \in P PROVE T \in P
  <2>1. PICK x \in T : TRUE
    BY <1>2
  <2>2. CASE T \ {x} = {}
    <3>1. T = {x} /\ x \in Int
      BY <2>1, <2>2
    <3>2. x <= x /\ x >= x
      BY <3>1
    <3>. QED
      BY <3>1, <3>2
  <2>3. CASE T \ {x} # {}
    <3>1. Ends(T \ {x})
      BY <1>2, <2>1, <2>3
    <3>2. PICK a \in T \ {x} : \A y \in T \ {x} : a <= y
      BY <3>1
    <3>3. PICK b \in T \ {x} : \A y \in T \ {x} : b >= y
      BY <3>1
    <3>4. x \in Int /\ a \in Int /\ b \in Int /\ \A y \in T : y \in Int
      BY <2>1, <3>2, <3>3
    <3>5. \E z \in T : \A y \in T : z <= y
      <4>1. CASE x <= a
        <5>1. \A y \in T : x <= y
          BY <3>2, <3>4, <4>1
        <5>. QED
          BY <2>1, <5>1
      <4>2. CASE ~(x <= a)
        <5>1. \A y \in T : a <= y
          BY <3>2, <3>4, <4>2
        <5>. QED
          BY <3>2, <5>1
      <4>. QED
        BY <4>1, <4>2
    <3>6. \E z \in T : \A y \in T : z >= y
      <4>1. CASE x >= b
        <5>1. \A y \in T : x >= y
          BY <3>3, <3>4, <4>1
        <5>. QED
          BY <2>1, <5>1
      <4>2. CASE ~(x >= b)
        <5>1. \A y \in T : b >= y
          BY <3>3, <3>4, <4>2
        <5>. QED
          BY <3>3, <5>1
      <4>. QED
        BY <4>1, <4>2
    <3>. QED
      BY <3>5, <3>6
  <2>. QED
    BY <2>2, <2>3
<1>3. S \in P
  <2>1. \A T \in SUBSET S : T \in P
    <3>. HIDE DEF P
    <3>. QED
      BY <1>1, <1>2, RemovalInduction
  <2>. QED
    BY <2>1
<1>4. Ends(S)
  BY <1>3
<1>5. Min(S) \in S /\ \A y \in S : Min(S) <= y
  BY <1>4 DEF Min
<1>6. Max(S) \in S /\ \A y \in S : Max(S) >= y
  BY <1>4 DEF Max
<1>. QED
  BY <1>5, <1>6

-----------------------------------------------------------------------------
(***************************************************************************)
(* SumFunctionOnSet: the elements may be taken in any order.               *)
(***************************************************************************)
Picked(s) == CHOOSE x \in s : TRUE

SumBody(g, f, s) == IF s = {} THEN 0 ELSE f[Picked(s)] + g[s \ {Picked(s)}]

\* g gives the partial sums of f on the subsets of S.
IsSum(g, f, S) == g = [s \in SUBSET S |-> SumBody(g, f, s)]

LEMMA SumIsChoice ==
    ASSUME NEW f, NEW S
    PROVE  SumFunctionOnSet(f, S) = (CHOOSE g : IsSum(g, f, S))[S]
  BY DEF SumFunctionOnSet, FoldFunctionOnSet, MapThenFoldSet, IsSum, SumBody, Picked

LEMMA PickedIn ==
    ASSUME NEW s, s # {} PROVE Picked(s) \in s
  BY DEF Picked

LEMMA SumExists ==
    ASSUME NEW f, NEW S, IsFiniteSet(S)
    PROVE  \E g : IsSum(g, f, S)
<1>. DEFINE n == Cardinality(S)
            Upto(k) == {s \in SUBSET S : Cardinality(s) <= k}
            K == {k \in 0 .. n : \E g : \A s \in Upto(k) : g[s] = SumBody(g, f, s)}
<1>0. n \in Nat
  BY FS_CardinalityType
<1>1. \A T \in SUBSET S : IsFiniteSet(T) /\ Cardinality(T) \in 0 .. n
  BY <1>0, FS_Subset, FS_CardinalityType
<1>2. 0 \in K
  <2>1. \A s \in Upto(0) : s = {}
    BY <1>1, FS_EmptySet
  <2>2. \A s \in Upto(0) : [t \in SUBSET S |-> 0][s] = SumBody([t \in SUBSET S |-> 0], f, s)
    BY <2>1 DEF SumBody
  <2>3. \E g : \A s \in Upto(0) : g[s] = SumBody(g, f, s)
    <3>. HIDE DEF Upto
    <3>. QED
      BY <2>2
  <2>. QED
    BY <1>0, <2>3
<1>3. ASSUME NEW k \in 0 .. n, k \in K, k < n PROVE k + 1 \in K
  <2>1. k + 1 \in 0 .. n /\ k \in Nat
    BY <1>0, <1>3
  <2>2. PICK g : \A s \in Upto(k) : g[s] = SumBody(g, f, s)
    BY <1>3
  <2>. DEFINE h == [s \in SUBSET S |-> IF s \in Upto(k) THEN g[s] ELSE SumBody(g, f, s)]
  <2>3. ASSUME NEW s \in Upto(k + 1) PROVE h[s] = SumBody(h, f, s)
    <3>1. s \in SUBSET S /\ h[s] = SumBody(g, f, s)
      BY <2>2
    <3>2. CASE s = {}
      BY <3>1, <3>2 DEF SumBody
    <3>3. CASE s # {}
      <4>1. Picked(s) \in s
        BY <3>3, PickedIn
      <4>2. IsFiniteSet(s) /\ Cardinality(s) \in Nat /\ Cardinality(s) <= k + 1
        BY <1>1, <3>1, <2>3
      <4>3. Cardinality(s \ {Picked(s)}) = Cardinality(s) - 1
        BY <4>1, <4>2, FS_RemoveElement
      <4>4. s \ {Picked(s)} \in Upto(k)
        BY <2>1, <3>1, <4>2, <4>3
      <4>5. h[s \ {Picked(s)}] = g[s \ {Picked(s)}]
        BY <3>1, <4>4
      <4>. HIDE DEF h
      <4>. QED
        BY <3>1, <4>5 DEF SumBody
    <3>. QED
      BY <3>2, <3>3
  <2>4. \E d : \A s \in Upto(k + 1) : d[s] = SumBody(d, f, s)
    <3>. HIDE DEF Upto, h
    <3>. QED
      BY <2>3
  <2>. QED
    BY <2>1, <2>4
<1>4. n \in K
  <2>1. \A k \in 0 .. n : k \in K
    <3>. HIDE DEF n, K
    <3>. QED
      BY <1>0, <1>2, <1>3, InductionUpTo
  <2>. QED
    BY <1>0, <2>1
<1>5. PICK g : \A s \in Upto(n) : g[s] = SumBody(g, f, s)
  BY <1>4
<1>6. \A s \in SUBSET S : g[s] = SumBody(g, f, s)
  BY <1>0, <1>1, <1>5
<1>. DEFINE h == [s \in SUBSET S |-> g[s]]
<1>7. ASSUME NEW s \in SUBSET S PROVE h[s] = SumBody(h, f, s)
  <2>1. s \ {Picked(s)} \in SUBSET S
    OBVIOUS
  <2>2. h[s] = SumBody(g, f, s) /\ h[s \ {Picked(s)}] = g[s \ {Picked(s)}]
    BY <1>6, <2>1
  <2>. HIDE DEF h
  <2>. QED
    BY <2>2 DEF SumBody
<1>8. h = [s \in SUBSET S |-> SumBody(h, f, s)]
  <2>1. h = [s \in SUBSET S |-> h[s]]
    OBVIOUS
  <2>. HIDE DEF h
  <2>. QED
    BY <1>7, <2>1
<1>. HIDE DEF h
<1>. QED
  BY <1>8 DEF IsSum

\* What the sum is does not depend on the set it is taken over.
LEMMA SumsAgree ==
    ASSUME NEW f, NEW S, IsFiniteSet(S), NEW U \in SUBSET S,
           NEW g, IsSum(g, f, S), NEW h, IsSum(h, f, U)
    PROVE  g[U] = h[U]
<1>. DEFINE P == {T \in SUBSET U : g[T] = h[T]}
<1>0. /\ \A s \in SUBSET U : g[s] = SumBody(g, f, s)
      /\ \A s \in SUBSET U : h[s] = SumBody(h, f, s)
  <2>1. \A s \in SUBSET S : g[s] = SumBody(g, f, s)
    BY DEF IsSum
  <2>2. \A s \in SUBSET U : h[s] = SumBody(h, f, s)
    BY DEF IsSum
  <2>. QED
    BY <2>1, <2>2
<1>1. {} \in P
  BY <1>0 DEF SumBody
<1>2. ASSUME NEW T \in SUBSET U, T # {}, \A x \in T : T \ {x} \in P PROVE T \in P
  <2>1. g[T \ {Picked(T)}] = h[T \ {Picked(T)}]
    BY <1>2, PickedIn
  <2>2. g[T] = h[T]
    BY <1>0, <1>2, <2>1 DEF SumBody
  <2>. QED
    BY <2>2
<1>3. \A T \in SUBSET U : T \in P
  <2>0. IsFiniteSet(U)
    BY FS_Subset
  <2>. HIDE DEF P
  <2>. QED
    BY <1>1, <1>2, <2>0, RemovalInduction
<1>. QED
  BY <1>3

\* The recursion of the sum.
LEMMA SumRecursion ==
    ASSUME NEW f, NEW S, IsFiniteSet(S)
    PROVE  SumFunctionOnSet(f, S) =
             IF S = {} THEN 0
             ELSE f[Picked(S)] + SumFunctionOnSet(f, S \ {Picked(S)})
<1>. DEFINE g == CHOOSE g : IsSum(g, f, S)
            U == S \ {Picked(S)}
            h == CHOOSE h : IsSum(h, f, U)
<1>0. IsFiniteSet(U) /\ U \in SUBSET S
  BY FS_Subset
<1>1. IsSum(g, f, S) /\ SumFunctionOnSet(f, S) = g[S]
  BY SumExists, SumIsChoice
<1>2. IsSum(h, f, U) /\ SumFunctionOnSet(f, U) = h[U]
  <2>. HIDE DEF U
  <2>. QED
    BY <1>0, SumExists, SumIsChoice
<1>3. g[U] = h[U]
  <2>. HIDE DEF g, h, U
  <2>. QED
    BY <1>0, <1>1, <1>2, SumsAgree
<1>4. g[S] = SumBody(g, f, S)
  <2>. HIDE DEF g
  <2>. QED
    BY <1>1 DEF IsSum
<1>. HIDE DEF g, h
<1>. QED
  BY <1>1, <1>2, <1>3, <1>4 DEF SumBody

LEMMA SumEmpty ==
    ASSUME NEW f PROVE SumFunctionOnSet(f, {}) = 0
  BY SumRecursion, FS_EmptySet

LEMMA SumType ==
    ASSUME NEW f, NEW S, IsFiniteSet(S), \A x \in S : f[x] \in Int
    PROVE  SumFunctionOnSet(f, S) \in Int
<1>. DEFINE P == {T \in SUBSET S : SumFunctionOnSet(f, T) \in Int}
<1>1. {} \in P
  BY SumEmpty
<1>2. ASSUME NEW T \in SUBSET S, T # {}, \A x \in T : T \ {x} \in P PROVE T \in P
  <2>1. IsFiniteSet(T) /\ Picked(T) \in T
    BY <1>2, FS_Subset, PickedIn
  <2>2. SumFunctionOnSet(f, T) = f[Picked(T)] + SumFunctionOnSet(f, T \ {Picked(T)})
    BY <1>2, <2>1, SumRecursion
  <2>3. f[Picked(T)] \in Int /\ SumFunctionOnSet(f, T \ {Picked(T)}) \in Int
    BY <1>2, <2>1
  <2>. QED
    BY <2>2, <2>3
<1>3. \A T \in SUBSET S : T \in P
  <2>. HIDE DEF P
  <2>. QED
    BY <1>1, <1>2, RemovalInduction
<1>. QED
  BY <1>3

\* Any element may be taken out first.
LEMMA SumAny ==
    ASSUME NEW f, NEW S, IsFiniteSet(S), \A x \in S : f[x] \in Int, NEW a \in S
    PROVE  SumFunctionOnSet(f, S) = f[a] + SumFunctionOnSet(f, S \ {a})
<1>. DEFINE Sm(T) == SumFunctionOnSet(f, T)
            P == {T \in SUBSET S : \A x \in T : Sm(T) = f[x] + Sm(T \ {x})}
<1>1. {} \in P
  OBVIOUS
<1>2. ASSUME NEW T \in SUBSET S, T # {}, \A x \in T : T \ {x} \in P PROVE T \in P
  <2>. DEFINE p == Picked(T)
  <2>1. IsFiniteSet(T) /\ p \in T
    BY <1>2, FS_Subset, PickedIn
  <2>2. Sm(T) = f[p] + Sm(T \ {p})
    BY <1>2, <2>1, SumRecursion
  <2>. HIDE DEF p
  <2>3. ASSUME NEW x \in T, x # p PROVE Sm(T) = f[x] + Sm(T \ {x})
    <3>1. Sm(T \ {p}) = f[x] + Sm((T \ {p}) \ {x})
      BY <1>2, <2>1, <2>3
    <3>2. Sm(T \ {x}) = f[p] + Sm((T \ {x}) \ {p})
      BY <1>2, <2>1, <2>3
    <3>3. (T \ {p}) \ {x} = (T \ {x}) \ {p}
      OBVIOUS
    <3>4. f[x] \in Int /\ f[p] \in Int
      BY <2>1, <2>3
    <3>5. Sm((T \ {x}) \ {p}) \in Int
      <4>1. IsFiniteSet((T \ {x}) \ {p}) /\ \A y \in (T \ {x}) \ {p} : f[y] \in Int
        BY FS_Subset
      <4>. QED
        BY <4>1, SumType
    <3>. HIDE DEF Sm
    <3>6. Sm(T) = f[p] + (f[x] + Sm((T \ {x}) \ {p}))
      BY <2>2, <3>1, <3>3, Zenon
    <3>. QED
      BY <3>2, <3>4, <3>5, <3>6
  <2>. HIDE DEF Sm
  <2>. QED
    BY <2>2, <2>3
<1>3. \A T \in SUBSET S : T \in P
  <2>. HIDE DEF P
  <2>. QED
    BY <1>1, <1>2, RemovalInduction
<1>4. \A x \in S : Sm(S) = f[x] + Sm(S \ {x})
  <2>. HIDE DEF Sm
  <2>. QED
    BY <1>3
<1>. QED
  BY <1>4

\* The sum depends on the values of the set only.
LEMMA SumCongruence ==
    ASSUME NEW f, NEW g, NEW S, IsFiniteSet(S), \A x \in S : f[x] = g[x]
    PROVE  SumFunctionOnSet(f, S) = SumFunctionOnSet(g, S)
<1>. DEFINE P == {T \in SUBSET S : SumFunctionOnSet(f, T) = SumFunctionOnSet(g, T)}
<1>1. {} \in P
  BY SumEmpty
<1>2. ASSUME NEW T \in SUBSET S, T # {}, \A x \in T : T \ {x} \in P PROVE T \in P
  <2>1. IsFiniteSet(T) /\ Picked(T) \in T
    BY <1>2, FS_Subset, PickedIn
  <2>2. /\ SumFunctionOnSet(f, T) = f[Picked(T)] + SumFunctionOnSet(f, T \ {Picked(T)})
        /\ SumFunctionOnSet(g, T) = g[Picked(T)] + SumFunctionOnSet(g, T \ {Picked(T)})
    BY <1>2, <2>1, SumRecursion
  <2>3. /\ f[Picked(T)] = g[Picked(T)]
        /\ SumFunctionOnSet(f, T \ {Picked(T)}) = SumFunctionOnSet(g, T \ {Picked(T)})
    BY <1>2, <2>1
  <2>4. SumFunctionOnSet(f, T) = SumFunctionOnSet(g, T)
    BY <2>2, <2>3, Zenon
  <2>. QED
    BY <2>4
<1>3. \A T \in SUBSET S : T \in P
  <2>. HIDE DEF P
  <2>. QED
    BY <1>1, <1>2, RemovalInduction
<1>. QED
  BY <1>3

\* The sum over two sets that have no element in common.
LEMMA SumUnion ==
    ASSUME NEW f, NEW A, IsFiniteSet(A), NEW B, IsFiniteSet(B), A \cap B = {},
           \A x \in A \cup B : f[x] \in Int
    PROVE  SumFunctionOnSet(f, A \cup B) = SumFunctionOnSet(f, A) + SumFunctionOnSet(f, B)
<1>. DEFINE Sm(T) == SumFunctionOnSet(f, T)
            P == {T \in SUBSET A : Sm(T \cup B) = Sm(T) + Sm(B)}
<1>0. Sm(B) \in Int
  BY SumType
<1>1. {} \in P
  <2>1. {} \cup B = B
    OBVIOUS
  <2>2. Sm({}) = 0
    BY SumEmpty
  <2>. HIDE DEF Sm
  <2>. QED
    BY <1>0, <2>1, <2>2
<1>2. ASSUME NEW T \in SUBSET A, T # {}, \A x \in T : T \ {x} \in P PROVE T \in P
  <2>. DEFINE p == Picked(T)
  <2>1. IsFiniteSet(T) /\ p \in T /\ IsFiniteSet(T \ {p}) /\ \A x \in T : f[x] \in Int
    BY <1>2, FS_Subset, PickedIn
  <2>. HIDE DEF p
  <2>2. IsFiniteSet(T \cup B) /\ \A x \in T \cup B : f[x] \in Int
    BY <2>1, FS_Union
  <2>3. Sm(T) = f[p] + Sm(T \ {p})
    BY <2>1, SumAny
  <2>4. Sm(T \cup B) = f[p] + Sm((T \cup B) \ {p})
    BY <2>1, <2>2, SumAny
  <2>5. (T \cup B) \ {p} = (T \ {p}) \cup B
    BY <2>1
  <2>6. f[p] \in Int /\ Sm(T \ {p}) \in Int
    BY <2>1, SumType
  <2>. HIDE DEF Sm
  <2>7. Sm((T \ {p}) \cup B) = Sm(T \ {p}) + Sm(B)
    BY <1>2, <2>1
  <2>8. Sm(T \cup B) = f[p] + (Sm(T \ {p}) + Sm(B))
    BY <2>4, <2>5, <2>7, Zenon
  <2>9. Sm(T \cup B) = Sm(T) + Sm(B)
    BY <1>0, <2>3, <2>6, <2>8
  <2>. QED
    BY <2>9
<1>3. \A T \in SUBSET A : T \in P
  <2>. HIDE DEF P
  <2>. QED
    BY <1>1, <1>2, RemovalInduction
<1>4. Sm(A \cup B) = Sm(A) + Sm(B)
  <2>. HIDE DEF Sm
  <2>. QED
    BY <1>3
<1>. QED
  BY <1>4

\* A sum of terms between lo and hi.
LEMMA SumBounds ==
    ASSUME NEW f, NEW S, IsFiniteSet(S), NEW lo \in Int, NEW hi \in Int,
           \A x \in S : f[x] \in Int /\ lo <= f[x] /\ f[x] <= hi
    PROVE  /\ Cardinality(S) * lo <= SumFunctionOnSet(f, S)
           /\ SumFunctionOnSet(f, S) <= Cardinality(S) * hi
<1>. DEFINE Sm(T) == SumFunctionOnSet(f, T)
            P == {T \in SUBSET S : /\ Cardinality(T) * lo <= Sm(T)
                                   /\ Sm(T) <= Cardinality(T) * hi}
<1>1. {} \in P
  <2>1. Sm({}) = 0 /\ Cardinality({}) = 0
    BY SumEmpty, FS_EmptySet
  <2>2. 0 * lo <= 0 /\ 0 <= 0 * hi
    OBVIOUS
  <2>. HIDE DEF Sm
  <2>. QED
    BY <2>1, <2>2
<1>2. ASSUME NEW T \in SUBSET S, T # {}, \A x \in T : T \ {x} \in P PROVE T \in P
  <2>. DEFINE p == Picked(T)
  <2>1. IsFiniteSet(T) /\ p \in T /\ IsFiniteSet(T \ {p}) /\ \A x \in T : f[x] \in Int
    BY <1>2, FS_Subset, PickedIn
  <2>. HIDE DEF p
  <2>2. Sm(T) = f[p] + Sm(T \ {p})
    BY <2>1, SumAny
  <2>3. f[p] \in Int /\ Sm(T \ {p}) \in Int /\ lo <= f[p] /\ f[p] <= hi
    BY <2>1, SumType
  <2>4. Cardinality(T \ {p}) = Cardinality(T) - 1 /\ Cardinality(T) \in Nat
    BY <2>1, FS_RemoveElement, FS_CardinalityType
  <2>. HIDE DEF Sm
  <2>5. Cardinality(T \ {p}) * lo <= Sm(T \ {p}) /\ Sm(T \ {p}) <= Cardinality(T \ {p}) * hi
    BY <1>2, <2>1
  <2>6. PICK c \in Nat : c = Cardinality(T)
    BY <2>4
  <2>7. (c - 1) * lo = c * lo - lo /\ (c - 1) * hi = c * hi - hi
    OBVIOUS
  <2>8. c * lo \in Int /\ c * hi \in Int
    OBVIOUS
  <2>9. c * lo <= Sm(T) /\ Sm(T) <= c * hi
    BY <2>2, <2>3, <2>4, <2>5, <2>6, <2>7, <2>8
  <2>. QED
    BY <2>6, <2>9
<1>3. \A T \in SUBSET S : T \in P
  <2>. HIDE DEF P
  <2>. QED
    BY <1>1, <1>2, RemovalInduction
<1>. QED
  BY <1>3

\* On S, q is the square of x and z is a quadratic form in x.
IsQuadratic(z, q, x, S, a, b, c) ==
    /\ \A i \in S : x[i] \in Int
    /\ \A i \in S : q[i] = x[i] * x[i]
    /\ \A i \in S : z[i] = a * q[i] + b * x[i] + c

\* The sum of a quadratic form in the terms.
LEMMA SumQuadratic ==
    ASSUME NEW x, NEW q, NEW z, NEW S, IsFiniteSet(S),
           NEW a \in Int, NEW b \in Int, NEW c \in Int,
           IsQuadratic(z, q, x, S, a, b, c)
    PROVE  SumFunctionOnSet(z, S) =
             a * SumFunctionOnSet(q, S) + b * SumFunctionOnSet(x, S) + c * Cardinality(S)
<1>. DEFINE Z(T) == SumFunctionOnSet(z, T)
            Q(T) == SumFunctionOnSet(q, T)
            X(T) == SumFunctionOnSet(x, T)
            P == {T \in SUBSET S : Z(T) = a * Q(T) + b * X(T) + c * Cardinality(T)}
<1>. USE DEF IsQuadratic
<1>0. \A i \in S : x[i] \in Int /\ q[i] \in Int /\ z[i] \in Int
  <2>. TAKE i \in S
  <2>1. x[i] \in Int
    OBVIOUS
  <2>2. x[i] * x[i] \in Int
    BY <2>1
  <2>3. a * (x[i] * x[i]) \in Int /\ b * x[i] \in Int
    BY <2>1, <2>2
  <2>. QED
    BY <2>1, <2>2, <2>3
<1>1. {} \in P
  <2>1. Z({}) = 0 /\ Q({}) = 0 /\ X({}) = 0 /\ Cardinality({}) = 0
    BY SumEmpty, FS_EmptySet
  <2>2. 0 = a * 0 + b * 0 + c * 0
    OBVIOUS
  <2>. HIDE DEF Z, Q, X
  <2>. QED
    BY <2>1, <2>2
<1>2. ASSUME NEW T \in SUBSET S, T # {}, \A i \in T : T \ {i} \in P PROVE T \in P
  <2>. DEFINE p == Picked(T)
              U == T \ {p}
  <2>1. IsFiniteSet(T) /\ p \in T /\ IsFiniteSet(U)
    BY <1>2, FS_Subset, PickedIn
  <2>. HIDE DEF p
  <2>2. Z(T) = z[p] + Z(U) /\ Q(T) = q[p] + Q(U) /\ X(T) = x[p] + X(U)
    <3>1. \A i \in T : x[i] \in Int /\ q[i] \in Int /\ z[i] \in Int
      BY <1>0
    <3>. QED
      BY <2>1, <3>1, SumAny
  <2>3. Z(U) \in Int /\ Q(U) \in Int /\ X(U) \in Int
    <3>1. \A i \in U : x[i] \in Int /\ q[i] \in Int /\ z[i] \in Int
      BY <1>0
    <3>. QED
      BY <2>1, <3>1, SumType
  <2>4. Cardinality(U) = Cardinality(T) - 1 /\ Cardinality(T) \in Nat
    BY <2>1, FS_RemoveElement, FS_CardinalityType
  <2>5. p \in S /\ U \in P
    BY <1>2, <2>1
  <2>. HIDE DEF Z, Q, X, U
  <2>6. Z(U) = a * Q(U) + b * X(U) + c * Cardinality(U)
    BY <2>5
  <2>7. x[p] \in Int /\ q[p] \in Int /\ z[p] = a * q[p] + b * x[p] + c
    BY <1>0, <2>5
  <2>8. PICK n \in Nat : n = Cardinality(T)
    BY <2>4
  <2>9. ASSUME NEW u \in Int, NEW v \in Int, NEW qp \in Int, NEW xp \in Int
        PROVE  (a * qp + b * xp + c) + (a * u + b * v + c * (n - 1))
                 = a * (qp + u) + b * (xp + v) + c * n
    OBVIOUS
  <2>10. Z(T) = a * Q(T) + b * X(T) + c * n
    BY <2>2, <2>3, <2>4, <2>6, <2>7, <2>8, <2>9
  <2>. QED
    BY <2>8, <2>10
<1>3. \A T \in SUBSET S : T \in P
  <2>. HIDE DEF P
  <2>. QED
    BY <1>1, <1>2, RemovalInduction
<1>. QED
  BY <1>3

\* A sum of naturals bounds each of its terms.
LEMMA SumOfNaturals ==
    ASSUME NEW f, NEW S, IsFiniteSet(S), \A x \in S : f[x] \in Nat
    PROVE  /\ SumFunctionOnSet(f, S) \in Nat
           /\ \A x \in S : f[x] <= SumFunctionOnSet(f, S)
<1>. DEFINE Sm(T) == SumFunctionOnSet(f, T)
            P == {T \in SUBSET S : Sm(T) \in Nat}
<1>1. {} \in P
  BY SumEmpty
<1>2. ASSUME NEW T \in SUBSET S, T # {}, \A x \in T : T \ {x} \in P PROVE T \in P
  <2>1. IsFiniteSet(T) /\ Picked(T) \in T
    BY <1>2, FS_Subset, PickedIn
  <2>2. Sm(T) = f[Picked(T)] + Sm(T \ {Picked(T)})
    BY <1>2, <2>1, SumRecursion
  <2>3. f[Picked(T)] \in Nat /\ Sm(T \ {Picked(T)}) \in Nat
    BY <1>2, <2>1
  <2>. QED
    BY <2>2, <2>3
<1>3. \A T \in SUBSET S : T \in P
  <2>. HIDE DEF P
  <2>. QED
    BY <1>1, <1>2, RemovalInduction
<1>4. ASSUME NEW x \in S PROVE f[x] <= Sm(S)
  <2>1. Sm(S) = f[x] + Sm(S \ {x})
    <3>1. \A y \in S : f[y] \in Int
      OBVIOUS
    <3>. QED
      BY <3>1, SumAny
  <2>2. Sm(S \ {x}) \in Nat /\ f[x] \in Nat
    BY <1>3
  <2>. HIDE DEF Sm
  <2>. QED
    BY <2>1, <2>2
<1>. QED
  BY <1>3, <1>4

\* h[b] is the sum of f over the elements of class b.
IsClassSum(h, f, k, E, B) ==
    /\ \A e \in E : k[e] \in B
    /\ \A b \in B : h[b] = SumFunctionOnSet(f, {e \in E : k[e] = b})

\* A sum taken class by class.
LEMMA SumOfClasses ==
    ASSUME NEW f, NEW E, IsFiniteSet(E), \A e \in E : f[e] \in Int,
           NEW k, NEW B, IsFiniteSet(B), NEW h, IsClassSum(h, f, k, E, B)
    PROVE  SumFunctionOnSet(h, B) = SumFunctionOnSet(f, E)
<1>. USE DEF IsClassSum
<1>. DEFINE Of(T) == {e \in E : k[e] \in T}
            P == {T \in SUBSET B : SumFunctionOnSet(h, T) = SumFunctionOnSet(f, Of(T))}
<1>0. \A b \in B : h[b] \in Int
  <2>. TAKE b \in B
  <2>1. IsFiniteSet({e \in E : k[e] = b}) /\ \A e \in {d \in E : k[d] = b} : f[e] \in Int
    BY FS_Subset
  <2>2. SumFunctionOnSet(f, {e \in E : k[e] = b}) \in Int
    BY <2>1, SumType, Zenon
  <2>. QED
    BY <2>2
<1>1. {} \in P
  <2>1. Of({}) = {}
    OBVIOUS
  <2>2. SumFunctionOnSet(h, {}) = SumFunctionOnSet(f, Of({}))
    BY <2>1, SumEmpty
  <2>. QED
    BY <2>2
<1>2. ASSUME NEW T \in SUBSET B, T # {}, \A b \in T : T \ {b} \in P PROVE T \in P
  <2>. DEFINE p == Picked(T)
  <2>1. IsFiniteSet(T) /\ p \in T
    BY <1>2, FS_Subset, PickedIn
  <2>. HIDE DEF p
  <2>2. SumFunctionOnSet(h, T) = h[p] + SumFunctionOnSet(h, T \ {p})
    <3>1. \A b \in T : h[b] \in Int
      BY <1>0
    <3>. QED
      BY <2>1, <3>1, SumAny
  <2>3. h[p] = SumFunctionOnSet(f, Of({p}))
    <3>1. Of({p}) = {e \in E : k[e] = p}
      OBVIOUS
    <3>2. p \in B
      BY <2>1
    <3>. QED
      BY <3>1, <3>2
  <2>4. SumFunctionOnSet(h, T \ {p}) = SumFunctionOnSet(f, Of(T \ {p}))
    BY <1>2, <2>1
  <2>5. Of({p}) \cup Of(T \ {p}) = Of(T) /\ Of({p}) \cap Of(T \ {p}) = {}
    BY <2>1
  <2>6. /\ IsFiniteSet(Of({p})) /\ IsFiniteSet(Of(T \ {p}))
        /\ \A e \in Of({p}) \cup Of(T \ {p}) : f[e] \in Int
    BY FS_Subset
  <2>. HIDE DEF Of
  <2>7. SumFunctionOnSet(f, Of({p}) \cup Of(T \ {p})) =
          SumFunctionOnSet(f, Of({p})) + SumFunctionOnSet(f, Of(T \ {p}))
    BY <2>5, <2>6, SumUnion
  <2>8. SumFunctionOnSet(h, T) = SumFunctionOnSet(f, Of(T))
    BY <2>2, <2>3, <2>4, <2>5, <2>7, Zenon
  <2>. QED
    BY <2>8
<1>3. \A T \in SUBSET B : T \in P
  <2>. HIDE DEF P
  <2>. QED
    BY <1>1, <1>2, RemovalInduction
<1>4. Of(B) = E
  OBVIOUS
<1>5. SumFunctionOnSet(h, B) = SumFunctionOnSet(f, Of(B))
  <2>. HIDE DEF Of
  <2>. QED
    BY <1>3
<1>. QED
  BY <1>4, <1>5

\* The sum over the first k + 1 places.
LEMMA SumPrefix ==
    ASSUME NEW f, NEW k \in Nat, \A x \in 1 .. k + 1 : f[x] \in Int
    PROVE  SumFunctionOnSet(f, 1 .. k + 1) = f[k + 1] + SumFunctionOnSet(f, 1 .. k)
<1>. DEFINE S == 1 .. k + 1
<1>1. IsFiniteSet(S) /\ k + 1 \in S /\ S \ {k + 1} = 1 .. k
  BY FS_Interval
<1>2. \A x \in S : f[x] \in Int
  OBVIOUS
<1>. HIDE DEF S
<1>3. SumFunctionOnSet(f, S) = f[k + 1] + SumFunctionOnSet(f, S \ {k + 1})
  BY <1>1, <1>2, SumAny
<1>. QED
  BY <1>1, <1>3, Zenon DEF S

\* The sum over a set with one more element.
LEMMA SumAdd ==
    ASSUME NEW f, NEW S, IsFiniteSet(S), NEW a, a \notin S, f[a] \in Int,
           \A x \in S : f[x] \in Int
    PROVE  SumFunctionOnSet(f, S \cup {a}) = f[a] + SumFunctionOnSet(f, S)
<1>1. PICK T : T = S \cup {a}
  OBVIOUS
<1>2. IsFiniteSet(T) /\ a \in T /\ T \ {a} = S /\ \A x \in T : f[x] \in Int
  BY <1>1, FS_AddElement
<1>3. SumFunctionOnSet(f, T) = f[a] + SumFunctionOnSet(f, T \ {a})
  BY <1>2, SumAny
<1>. QED
  BY <1>1, <1>2, <1>3, Zenon

=============================================================================
