-------------------------- MODULE StatisticsProofs --------------------------
(***************************************************************************)
(* Proofs for Statistics: the figures, the bands and the histograms of the *)
(* analysis are consistent for every number of runs and every sample.      *)
(***************************************************************************)
EXTENDS Statistics, FoldLemmas

\* What was read is what the kind says, and is a finite sequence of it.
StatTypeOK ==
    /\ kind \in {"figure", "series", "histogram"}
    /\ runs \in Seq(Inputs(kind))

\* Theorem: every reachable state of the reading of a dataset is well typed.
THEOREM StatisticsTypeCorrect == StatSpec => []StatTypeOK
<1>1. StatInit => StatTypeOK
  BY DEF StatInit, StatTypeOK
<1>2. StatTypeOK /\ [ReadRun]_statVars => StatTypeOK'
  <2>. SUFFICES ASSUME StatTypeOK, [ReadRun]_statVars PROVE StatTypeOK'
    OBVIOUS
  <2>1. CASE ReadRun
    <3>1. PICK input \in Inputs(kind) : runs' = Append(runs, input)
      BY <2>1 DEF ReadRun
    <3>2. Append(runs, input) \in Seq(Inputs(kind))
      BY <3>1, AppendProperties DEF StatTypeOK
    <3>3. kind' = kind
      BY <2>1 DEF ReadRun
    <3>. QED
      BY <3>1, <3>2, <3>3, Zenon DEF StatTypeOK
  <2>2. CASE UNCHANGED statVars
    BY <2>2 DEF StatTypeOK, statVars
  <2>. QED
    BY <2>1, <2>2
<1>. QED
  BY <1>1, <1>2, PTL DEF StatSpec

-----------------------------------------------------------------------------
(***************************************************************************)
(* Ranges.                                                                 *)
(***************************************************************************)
LEMMA RangeFinite ==
    ASSUME NEW D, IsFiniteSet(D), NEW f, f = [x \in D |-> f[x]]
    PROVE  IsFiniteSet(Range(f))
<1>1. f \in Surjection(D, Range(f))
  BY DEF Surjection, Range
<1>. QED
  BY <1>1, FS_Surjection

LEMMA BoundedSeqIsSeq ==
    ASSUME NEW C, NEW n \in Nat, NEW s \in BoundedSeq(C, n)
    PROVE  s \in Seq(C)
<1>1. PICK m \in 0 .. n : s \in [1 .. m -> C]
  BY DEF BoundedSeq, SeqOf
<1>. QED
  BY <1>1

\* The samples of a sequence that is not empty have a least and a greatest.
LEMMA SampleExtremes ==
    ASSUME NEW values \in Seq(Nat), values # <<>>
    PROVE  /\ IsFiniteSet(Range(values)) /\ Range(values) \subseteq Nat
           /\ Range(values) # {}
           /\ \A i \in 1 .. Len(values) : values[i] \in Range(values)
           /\ \A v \in Range(values) : \E i \in 1 .. Len(values) : values[i] = v
           /\ Min(Range(values)) \in Range(values)
           /\ \A v \in Range(values) : Min(Range(values)) <= v
           /\ Max(Range(values)) \in Range(values)
           /\ \A v \in Range(values) : v <= Max(Range(values))
<1>1. /\ Len(values) \in Nat \ {0} /\ DOMAIN values = 1 .. Len(values)
      /\ \A i \in 1 .. Len(values) : values[i] \in Nat
      /\ values = [i \in 1 .. Len(values) |-> values[i]]
  OBVIOUS
<1>2. IsFiniteSet(1 .. Len(values))
  BY <1>1, FS_Interval
<1>3. IsFiniteSet(Range(values))
  BY <1>1, <1>2, RangeFinite, Zenon
<1>4. /\ Range(values) \subseteq Nat
      /\ \A i \in 1 .. Len(values) : values[i] \in Range(values)
      /\ \A v \in Range(values) : \E i \in 1 .. Len(values) : values[i] = v
  BY <1>1 DEF Range
<1>5. Range(values) # {}
  <2>1. 1 \in 1 .. Len(values)
    BY <1>1
  <2>. QED
    BY <1>4, <2>1, Zenon
<1>6. Range(values) \subseteq Int
  BY <1>4
<1>. QED
  BY <1>3, <1>4, <1>5, <1>6, FiniteExtremes

-----------------------------------------------------------------------------
(***************************************************************************)
(* Sorted.                                                                 *)
(***************************************************************************)
LEMMA AtMostBounds ==
    ASSUME NEW values \in Seq(Nat)
    PROVE  /\ \A v \in Nat : AtMost(values, v) \in 0 .. Len(values)
           /\ \A v, w \in Nat : v <= w => AtMost(values, v) <= AtMost(values, w)
<1>. DEFINE Below(v) == {j \in DOMAIN values : values[j] <= v}
<1>0. Len(values) \in Nat /\ DOMAIN values = 1 .. Len(values)
  OBVIOUS
<1>1. IsFiniteSet(1 .. Len(values)) /\ Cardinality(1 .. Len(values)) = Len(values)
  BY <1>0, FS_Interval
<1>2. ASSUME NEW v \in Nat
      PROVE  IsFiniteSet(Below(v)) /\ Cardinality(Below(v)) \in 0 .. Len(values)
  <2>1. Below(v) \in SUBSET (1 .. Len(values))
    BY <1>0
  <2>. HIDE DEF Below
  <2>2. /\ IsFiniteSet(Below(v)) /\ Cardinality(Below(v)) \in Nat
        /\ Cardinality(Below(v)) <= Len(values)
    BY <1>1, <2>1, FS_Subset, FS_CardinalityType
  <2>. QED
    BY <1>0, <2>2
<1>3. ASSUME NEW v \in Nat, NEW w \in Nat, v <= w
      PROVE  Cardinality(Below(v)) <= Cardinality(Below(w))
  <2>1. \A j \in DOMAIN values : values[j] \in Nat
    OBVIOUS
  <2>2. Below(v) \in SUBSET Below(w)
    BY <1>3, <2>1
  <2>. HIDE DEF Below
  <2>. QED
    BY <1>2, <2>2, FS_Subset
<1>. QED
  BY <1>2, <1>3 DEF AtMost

\* The sorted samples are a sequence of samples, in order.
LEMMA SortedInOrder ==
    ASSUME NEW values \in Seq(Nat)
    PROVE  /\ Sorted(values) \in Seq(Nat) /\ Len(Sorted(values)) = Len(values)
           /\ \A i \in 1 .. Len(values) :
                 /\ Sorted(values)[i] \in Range(values)
                 /\ i <= AtMost(values, Sorted(values)[i])
                 /\ \A v \in Range(values) :
                      i <= AtMost(values, v) => Sorted(values)[i] <= v
           /\ \A i, j \in 1 .. Len(values) : i <= j => Sorted(values)[i] <= Sorted(values)[j]
<1>. DEFINE n == Len(values)
            s == Sorted(values)
            A(i) == {v \in Range(values) : i <= AtMost(values, v)}
<1>0. n \in Nat
  OBVIOUS
<1>1. /\ s = [i \in 1 .. n |-> Min(A(i))]
      /\ \A i \in 1 .. n : s[i] = Min(A(i))
  BY DEF Sorted
<1>. HIDE DEF s
<1>2. ASSUME NEW i \in 1 .. n
      PROVE  s[i] \in A(i) /\ \A v \in A(i) : s[i] <= v
  <2>1. values # <<>>
    BY <1>0, <1>2
  <2>2. /\ IsFiniteSet(Range(values)) /\ Range(values) \subseteq Nat
        /\ Max(Range(values)) \in Range(values)
        /\ \A j \in 1 .. n : values[j] \in Range(values)
        /\ \A v \in Range(values) : v <= Max(Range(values))
    BY <2>1, SampleExtremes
  <2>3. AtMost(values, Max(Range(values))) = n
    <3>1. {j \in DOMAIN values : values[j] <= Max(Range(values))} = 1 .. n
      BY <2>2
    <3>2. Cardinality(1 .. n) = n
      <4>. HIDE DEF n
      <4>. QED
        BY <1>0, FS_Interval
    <3>. QED
      BY <3>1, <3>2 DEF AtMost
  <2>4. Max(Range(values)) \in A(i)
    BY <1>0, <1>2, <2>2, <2>3
  <2>5. A(i) \in SUBSET Range(values) /\ A(i) \subseteq Int
    BY <2>2
  <2>6. IsFiniteSet(A(i))
    <3>. HIDE DEF A
    <3>. QED
      BY <2>2, <2>5, FS_Subset
  <2>. HIDE DEF A
  <2>. QED
    BY <1>1, <1>2, <2>4, <2>5, <2>6, FiniteExtremes
<1>3. Range(values) \subseteq Nat
  BY DEF Range
<1>4. \A i \in 1 .. n : s[i] \in Nat
  BY <1>2, <1>3
<1>5. s \in Seq(Nat) /\ Len(s) = n
  <2>1. s \in [1 .. n -> Nat]
    BY <1>1, <1>4
  <2>. QED
    BY <1>0, <2>1
<1>6. ASSUME NEW i \in 1 .. n, NEW j \in 1 .. n, i <= j PROVE s[i] <= s[j]
  <2>1. s[j] \in Range(values) /\ j <= AtMost(values, s[j])
    BY <1>2
  <2>2. AtMost(values, s[j]) \in Nat
    <3>1. s[j] \in Nat
      BY <1>4
    <3>2. AtMost(values, s[j]) \in 0 .. n
      BY <3>1, AtMostBounds, Zenon
    <3>. QED
      BY <1>0, <3>2
  <2>3. i <= AtMost(values, s[j])
    BY <1>0, <1>6, <2>1, <2>2
  <2>. QED
    BY <1>2, <2>1, <2>3
<1>. QED
  BY <1>2, <1>5, <1>6 DEF s

\* Theorem: Sorted keeps every sample as often as it was read, as sorted()
\* of metrics.percentile does: for every v its first places, as many as there
\* are samples up to v, are the places that hold a sample up to v.
THEOREM SortedKeepsSamples ==
    ASSUME NEW values \in Seq(Nat), NEW v \in Nat
    PROVE  {i \in 1 .. Len(values) : Sorted(values)[i] <= v} = 1 .. AtMost(values, v)
<1>. DEFINE n == Len(values)
            s == Sorted(values)
<1>0. n \in Nat /\ AtMost(values, v) \in 0 .. n
  BY AtMostBounds
<1>1. ASSUME NEW i \in 1 .. n, s[i] <= v PROVE i <= AtMost(values, v)
  <2>1. s[i] \in Nat /\ i <= AtMost(values, s[i])
    BY SortedInOrder
  <2>2. AtMost(values, s[i]) <= AtMost(values, v) /\ AtMost(values, s[i]) \in Nat
    <3>1. AtMost(values, s[i]) <= AtMost(values, v) /\ AtMost(values, s[i]) \in 0 .. n
      BY <1>1, <2>1, AtMostBounds, Zenon
    <3>. QED
      BY <1>0, <3>1
  <2>. QED
    BY <1>0, <2>1, <2>2
<1>2. ASSUME NEW i \in 1 .. n, i <= AtMost(values, v) PROVE s[i] <= v
  <2>. DEFINE B == {w \in Range(values) : w <= v}
              J == {j \in DOMAIN values : values[j] <= v}
  <2>1. J # {}
    <3>1. AtMost(values, v) = Cardinality(J)
      BY DEF AtMost
    <3>2. AtMost(values, v) # 0
      BY <1>0, <1>2
    <3>. QED
      BY <3>1, <3>2, FS_EmptySet, Zenon
  <2>2. B # {}
    BY <2>1 DEF Range
  <2>3. values # <<>>
    BY <1>0, <1>2
  <2>4. IsFiniteSet(Range(values)) /\ Range(values) \subseteq Nat
    BY <2>3, SampleExtremes
  <2>5. B \in SUBSET Range(values) /\ B \subseteq Int
    BY <2>4
  <2>6. IsFiniteSet(B)
    <3>. HIDE DEF B
    <3>. QED
      BY <2>4, <2>5, FS_Subset
  <2>7. Max(B) \in B /\ \A w \in B : w <= Max(B)
    <3>. HIDE DEF B
    <3>. QED
      BY <2>2, <2>5, <2>6, FiniteExtremes
  <2>8. {j \in DOMAIN values : values[j] <= Max(B)} = J
    <3>1. \A j \in DOMAIN values : values[j] \in Range(values) /\ values[j] \in Nat
      BY DEF Range
    <3>2. Max(B) \in Nat /\ Max(B) <= v
      BY <2>4, <2>7
    <3>3. \A j \in DOMAIN values : values[j] <= v => values[j] <= Max(B)
      BY <2>7, <3>1
    <3>4. \A j \in DOMAIN values : values[j] <= Max(B) => values[j] <= v
      <4>1. PICK m \in Nat : m = Max(B)
        BY <3>2
      <4>. HIDE DEF B
      <4>. QED
        BY <3>1, <3>2, <4>1
    <3>. HIDE DEF B
    <3>. QED
      BY <3>3, <3>4
  <2>9. AtMost(values, Max(B)) = AtMost(values, v)
    <3>. HIDE DEF B
    <3>. QED
      BY <2>8 DEF AtMost
  <2>10. s[i] <= Max(B) /\ s[i] \in Nat
    <3>1. Max(B) \in Range(values)
      BY <2>7
    <3>2. i <= AtMost(values, Max(B))
      BY <1>2, <2>9, Zenon
    <3>. HIDE DEF B
    <3>. QED
      BY <1>2, <3>1, <3>2, SortedInOrder
  <2>. QED
    BY <2>4, <2>7, <2>10
<1>. HIDE DEF s
<1>3. {i \in 1 .. n : s[i] <= v} = 1 .. AtMost(values, v)
  BY <1>0, <1>1, <1>2
<1>. QED
  BY <1>3 DEF s

-----------------------------------------------------------------------------
(***************************************************************************)
(* Percentiles.                                                            *)
(***************************************************************************)
\* The percentile p of n samples lies between the two next to its rank, which
\* is l and w hundredths.
Interpolates(values, n, p, l, w) ==
    /\ (n - 1) * p = 100 * l + w
    /\ Percentile(values, p) =
         <<Sorted(values)[l + 1] * (100 - w) + Sorted(values)[l + 2] * w, 100>>

LEMMA PercentileForm ==
    ASSUME NEW values \in Seq(Nat), NEW n \in Nat, n = Len(values), n > 1,
           NEW p \in 0 .. 99
    PROVE  \E l \in 0 .. n - 2 : \E w \in 0 .. 99 : Interpolates(values, n, p, l, w)
<1>. DEFINE s == Sorted(values)
<1>2. s \in Seq(Nat) /\ Len(s) = n
  BY SortedInOrder
<1>. HIDE DEF s
<1>3. n > 1 /\ n # 1 /\ s # <<>>
  <2>1. n # 0 /\ n # 1
    OBVIOUS
  <2>. QED
    BY <1>2, <2>1, EmptySeq, Zenon
<1>. DEFINE rank == (n - 1) * p
            l == rank \div 100
            w == rank % 100
<1>4. rank \in Nat /\ rank <= (n - 1) * 99
  BY <1>3
<1>5. l \in Nat /\ w \in 0 .. 99 /\ rank = 100 * l + w
  <2>. HIDE DEF rank
  <2>. QED
    BY <1>4
<1>6. l \in 0 .. n - 2
  <2>. HIDE DEF rank, l, w
  <2>1. 100 * l <= (n - 1) * 99
    BY <1>4, <1>5
  <2>. QED
    BY <1>3, <1>5, <2>1
<1>7. Min({l + 1, n - 1}) = l + 1
  <2>. HIDE DEF l
  <2>1. l + 1 <= n - 1 /\ l + 1 \in Int
    BY <1>6
  <2>2. \A y \in {l + 1, n - 1} : l + 1 <= y
    BY <2>1
  <2>3. \A x \in {l + 1, n - 1} : (\A y \in {l + 1, n - 1} : x <= y) => x = l + 1
    BY <2>1
  <2>. QED
    BY <2>2, <2>3 DEF Min
<1>8. Percentile(values, p) =
        <<s[l + 1] * (100 - w) + s[Min({l + 1, n - 1}) + 1] * w, 100>>
  BY <1>2, <1>3, Zenon DEF Percentile, s
<1>9. (l + 1) + 1 = l + 2
  <2>. HIDE DEF l
  <2>. QED
    BY <1>6
<1>10. Percentile(values, p) = <<s[l + 1] * (100 - w) + s[l + 2] * w, 100>>
  BY <1>7, <1>8, <1>9, Zenon
<1>. HIDE DEF l, w
<1>. QED
  BY <1>5, <1>6, <1>10 DEF s, Interpolates

LEMMA InterpolateBounds ==
    ASSUME NEW a \in Nat, NEW b \in Nat, a <= b, NEW w \in 0 .. 99
    PROVE  /\ a * (100 - w) + b * w \in Nat
           /\ a * 100 <= a * (100 - w) + b * w
           /\ a * (100 - w) + b * w <= b * 100
<1>1. PICK d \in Nat : b = a + d
  <2>1. b - a \in Nat /\ b = a + (b - a)
    OBVIOUS
  <2>. QED
    BY <2>1
<1>2. a * (100 - w) + (a + d) * w = a * 100 + d * w
  OBVIOUS
<1>3. d * w \in Nat /\ d * w <= d * 100
  OBVIOUS
<1>4. (a + d) * 100 = a * 100 + d * 100
  OBVIOUS
<1>. QED
  BY <1>1, <1>2, <1>3, <1>4

LEMMA InterpolateMonotone ==
    ASSUME NEW a \in Nat, NEW b \in Nat, a <= b, NEW v \in 0 .. 99, NEW w \in 0 .. 99, v <= w
    PROVE  a * (100 - v) + b * v <= a * (100 - w) + b * w
<1>1. PICK d \in Nat : b = a + d
  <2>1. b - a \in Nat /\ b = a + (b - a)
    OBVIOUS
  <2>. QED
    BY <2>1
<1>2. /\ a * (100 - w) + (a + d) * w = a * 100 + d * w
      /\ a * (100 - v) + (a + d) * v = a * 100 + d * v
  OBVIOUS
<1>3. d * v <= d * w
  OBVIOUS
<1>. QED
  BY <1>1, <1>2, <1>3

\* A higher percentile is not below a lower one, and none lies outside of
\* the samples.
LEMMA PercentilesMonotone ==
    ASSUME NEW values \in Seq(Nat), Len(values) > 1,
           NEW p \in 0 .. 99, NEW q \in 0 .. 99, p <= q
    PROVE  /\ Leq(Percentile(values, p), Percentile(values, q))
           /\ Leq(Minimum(values), Percentile(values, p))
           /\ Leq(Percentile(values, p), Maximum(values))
<1>. DEFINE s == Sorted(values)
<1>1. PICK n \in Nat : n = Len(values) /\ n > 1
  OBVIOUS
<1>2. /\ \A i \in 1 .. n : s[i] \in Nat
      /\ \A i, j \in 1 .. n : i <= j => s[i] <= s[j]
      /\ \A i \in 1 .. n : s[i] \in Range(values)
  BY <1>1, SortedInOrder
<1>3. PICK l \in 0 .. n - 2, v \in 0 .. 99 :
        /\ (n - 1) * p = 100 * l + v
        /\ Percentile(values, p) = <<s[l + 1] * (100 - v) + s[l + 2] * v, 100>>
  <2>1. PICK l \in 0 .. n - 2 : \E v \in 0 .. 99 : Interpolates(values, n, p, l, v)
    BY <1>1, PercentileForm
  <2>2. PICK v \in 0 .. 99 : Interpolates(values, n, p, l, v)
    BY <2>1
  <2>. QED
    BY <2>2, Zenon DEF Interpolates
<1>4. PICK k \in 0 .. n - 2, w \in 0 .. 99 :
        /\ (n - 1) * q = 100 * k + w
        /\ Percentile(values, q) = <<s[k + 1] * (100 - w) + s[k + 2] * w, 100>>
  <2>1. PICK k \in 0 .. n - 2 : \E w \in 0 .. 99 : Interpolates(values, n, q, k, w)
    BY <1>1, PercentileForm
  <2>2. PICK w \in 0 .. 99 : Interpolates(values, n, q, k, w)
    BY <2>1
  <2>. QED
    BY <2>2, Zenon DEF Interpolates
<1>. HIDE DEF s
<1>5. n > 1
  BY <1>1
<1>6. /\ l + 1 \in 1 .. n /\ l + 2 \in 1 .. n /\ k + 1 \in 1 .. n /\ k + 2 \in 1 .. n
      /\ l + 1 <= l + 2 /\ k + 1 <= k + 2
  BY <1>5
<1>7. /\ s[l + 1] \in Nat /\ s[l + 2] \in Nat /\ s[k + 1] \in Nat /\ s[k + 2] \in Nat
      /\ s[l + 1] <= s[l + 2] /\ s[k + 1] <= s[k + 2]
  BY <1>2, <1>6
<1>8. 100 * l + v <= 100 * k + w
  <2>1. (n - 1) * p <= (n - 1) * q
    BY <1>5
  <2>. QED
    BY <1>3, <1>4, <2>1
<1>. DEFINE I == s[l + 1] * (100 - v) + s[l + 2] * v
            J == s[k + 1] * (100 - w) + s[k + 2] * w
<1>9. /\ I \in Nat /\ s[l + 1] * 100 <= I /\ I <= s[l + 2] * 100
      /\ J \in Nat /\ s[k + 1] * 100 <= J
  BY <1>7, InterpolateBounds
<1>10. I <= J
  <2>1. CASE l = k
    <3>1. v <= w
      BY <1>8, <2>1
    <3>. QED
      BY <1>7, <2>1, <3>1, InterpolateMonotone
  <2>2. CASE l # k
    <3>1. l + 2 <= k + 1
      BY <1>8, <2>2
    <3>2. s[l + 2] <= s[k + 1]
      BY <1>2, <1>6, <3>1
    <3>. HIDE DEF I, J
    <3>. QED
      BY <1>7, <1>9, <3>2
  <2>. QED
    BY <2>1, <2>2
<1>11. values # <<>>
  BY <1>1, <1>5
<1>12. /\ Min(Range(values)) \in Nat /\ Max(Range(values)) \in Nat
       /\ Min(Range(values)) <= s[l + 1] /\ s[l + 2] <= Max(Range(values))
  BY <1>2, <1>6, <1>11, SampleExtremes
<1>. HIDE DEF I, J
<1>13. Leq(Percentile(values, p), Percentile(values, q))
  <2>1. Percentile(values, p) = <<I, 100>> /\ Percentile(values, q) = <<J, 100>>
    BY <1>3, <1>4 DEF I, J
  <2>. QED
    BY <1>9, <1>10, <2>1 DEF Leq
<1>14. /\ Leq(Whole(Min(Range(values))), <<I, 100>>)
       /\ Leq(<<I, 100>>, Whole(Max(Range(values))))
  <2>1. PICK x \in Nat, y \in Nat : x = Min(Range(values)) /\ y = Max(Range(values))
    BY <1>12
  <2>2. PICK a \in Nat, b \in Nat : a = s[l + 1] /\ b = s[l + 2]
    BY <1>7
  <2>3. x <= a /\ b <= y /\ a * 100 <= I /\ I <= b * 100
    BY <1>9, <1>12, <2>1, <2>2, Zenon
  <2>4. x * 100 <= I * 1 /\ I * 1 <= y * 100
    BY <1>9, <2>3
  <2>. QED
    BY <2>1, <2>4 DEF Leq, Whole
<1>15. Leq(Minimum(values), Percentile(values, p)) /\ Leq(Percentile(values, p), Maximum(values))
  <2>1. Percentile(values, p) = <<I, 100>>
    BY <1>3 DEF I
  <2>. QED
    BY <1>11, <1>14, <2>1 DEF Minimum, Maximum
<1>. QED
  BY <1>13, <1>15

\* One sample is every percentile, the median, the minimum and the maximum.
LEMMA OneSample ==
    ASSUME NEW values \in Seq(Nat), Len(values) = 1
    PROVE  /\ Sorted(values)[1] \in Nat /\ values[1] = Sorted(values)[1]
           /\ Minimum(values) = Whole(values[1]) /\ Maximum(values) = Whole(values[1])
           /\ Median(values) = Whole(values[1])
           /\ \A p \in 0 .. 99 : Percentile(values, p) = Whole(values[1])
<1>1. values # <<>> /\ 1 \in 1 .. Len(values)
  <2>1. 1 # 0 /\ 1 \in 1 .. 1
    OBVIOUS
  <2>. QED
    BY <2>1, EmptySeq, Zenon
<1>2. /\ Sorted(values) \in Seq(Nat) /\ Len(Sorted(values)) = 1
      /\ Sorted(values)[1] \in Range(values)
  BY <1>1, SortedInOrder
<1>3. Range(values) = {values[1]}
  BY DEF Range
<1>4. /\ Sorted(values)[1] = values[1] /\ values[1] \in Nat
      /\ Min(Range(values)) = values[1] /\ Max(Range(values)) = values[1]
  <2>1. Min(Range(values)) \in Range(values) /\ Max(Range(values)) \in Range(values)
    BY <1>1, SampleExtremes
  <2>. QED
    BY <1>2, <1>3, <2>1
<1>5. Minimum(values) = Whole(values[1]) /\ Maximum(values) = Whole(values[1])
  BY <1>1, <1>4 DEF Minimum, Maximum
<1>6. Median(values) = Whole(values[1])
  <2>1. (1 + 1) \div 2 = 1 /\ 1 % 2 = 1
    OBVIOUS
  <2>. QED
    BY <1>4, <2>1 DEF Median
<1>7. ASSUME NEW p \in 0 .. 99 PROVE Percentile(values, p) = Whole(values[1])
  <2>1. Sorted(values) # <<>>
    <3>1. 1 # 0
      OBVIOUS
    <3>. QED
      BY <1>2, <3>1, EmptySeq, Zenon
  <2>. QED
    BY <1>2, <1>4, <2>1, Zenon DEF Percentile
<1>. QED
  BY <1>2, <1>4, <1>5, <1>6, <1>7

LEMMA NoSample ==
    /\ Sorted(<<>>) = <<>>
    /\ Minimum(<<>>) = Zero /\ Maximum(<<>>) = Zero /\ Median(<<>>) = Zero
    /\ \A p \in 0 .. 99 : Percentile(<<>>, p) = Zero
<1>1. Sorted(<<>>) = <<>>
  BY DEF Sorted
<1>. QED
  BY <1>1 DEF Minimum, Maximum, Median, Percentile

\* The interpolated p50 is the median.
LEMMA MedianIsP50 ==
    ASSUME NEW values \in Seq(Nat), Len(values) > 1
    PROVE  Same(Percentile(values, 50), Median(values))
<1>. DEFINE s == Sorted(values)
<1>1. PICK n \in Nat : n = Len(values) /\ n > 1
  OBVIOUS
<1>2. \A i \in 1 .. n : s[i] \in Nat
  BY <1>1, SortedInOrder
<1>3. PICK l \in 0 .. n - 2, w \in 0 .. 99 :
        /\ (n - 1) * 50 = 100 * l + w
        /\ Percentile(values, 50) = <<s[l + 1] * (100 - w) + s[l + 2] * w, 100>>
  <2>1. 50 \in 0 .. 99
    OBVIOUS
  <2>2. PICK l \in 0 .. n - 2 : \E w \in 0 .. 99 : Interpolates(values, n, 50, l, w)
    BY <1>1, <2>1, PercentileForm
  <2>3. PICK w \in 0 .. 99 : Interpolates(values, n, 50, l, w)
    BY <2>2
  <2>. QED
    BY <2>3, Zenon DEF Interpolates
<1>4. Median(values) = IF n = 0 THEN Zero
                       ELSE IF n % 2 = 1 THEN Whole(s[(n + 1) \div 2])
                       ELSE <<s[n \div 2] + s[n \div 2 + 1], 2>>
  BY <1>1 DEF Median
<1>. HIDE DEF s
<1>5. n > 1 /\ s[l + 1] \in Nat /\ s[l + 2] \in Nat
  <2>1. n > 1 /\ l + 1 \in 1 .. n /\ l + 2 \in 1 .. n
    BY <1>1
  <2>. QED
    BY <1>2, <2>1
<1>5a. (n - 1) * 50 = 100 * l + w
  BY <1>3, Zenon
<1>6. CASE n % 2 = 1
  <2>1. (n + 1) \div 2 = l + 1 /\ w = 0
    BY <1>6, <1>5a
  <2>2. Median(values) = Whole(s[l + 1])
    BY <1>4, <1>5, <1>6, <2>1
  <2>3. Percentile(values, 50) = <<s[l + 1] * 100, 100>>
    BY <1>3, <1>5, <2>1
  <2>. QED
    BY <1>5, <2>2, <2>3 DEF Same, Leq, Whole
<1>7. CASE n % 2 # 1
  <2>1. n \div 2 = l + 1 /\ w = 50
    BY <1>7, <1>5a
  <2>2. n \div 2 + 1 = l + 2
    BY <2>1
  <2>3. Median(values) = <<s[l + 1] + s[l + 2], 2>>
    BY <1>4, <1>5, <1>7, <2>1, <2>2
  <2>4. Percentile(values, 50) = <<s[l + 1] * 50 + s[l + 2] * 50, 100>>
    BY <1>3, <1>5, <2>1
  <2>. QED
    BY <1>5, <2>3, <2>4 DEF Same, Leq
<1>. QED
  BY <1>6, <1>7

-----------------------------------------------------------------------------
(***************************************************************************)
(* The deviation.                                                          *)
(***************************************************************************)
Squares(values) == [i \in 1 .. Len(values) |-> values[i] * values[i]]

\* What the deviation is computed from: n times the sum of the squares, less
\* the square of the sum.
Numerator(values) ==
    Len(values) * SumFunctionOnSet(Squares(values), 1 .. Len(values))
      - SumFunctionOnSet(values, 1 .. Len(values)) * SumFunctionOnSet(values, 1 .. Len(values))

LEMMA StdDevForm ==
    ASSUME NEW values \in Seq(Nat)
    PROVE  StdDev(values) = IF Len(values) < 2 THEN Zero
                            ELSE <<Numerator(values), Len(values) * (Len(values) - 1)>>
<1>1. DOMAIN values = 1 .. Len(values) /\ DOMAIN Squares(values) = 1 .. Len(values)
  BY DEF Squares
<1>2. /\ SumFunction(values) = SumFunctionOnSet(values, 1 .. Len(values))
      /\ SumFunction(Squares(values)) = SumFunctionOnSet(Squares(values), 1 .. Len(values))
  BY <1>1, Zenon DEF SumFunction
<1>3. StdDev(values) =
        IF Len(values) < 2 THEN Zero
        ELSE <<Len(values) * SumFunction(Squares(values))
                 - SumFunction(values) * SumFunction(values),
               Len(values) * (Len(values) - 1)>>
  BY Zenon DEF StdDev, Squares
<1>. QED
  BY <1>2, <1>3, Zenon DEF Numerator

\* The sums the deviation is computed from, as integers.
LEMMA SumsOfSamples ==
    ASSUME NEW values \in Seq(Nat)
    PROVE  /\ Len(values) \in Nat
           /\ IsFiniteSet(1 .. Len(values)) /\ Cardinality(1 .. Len(values)) = Len(values)
           /\ \A i \in 1 .. Len(values) : values[i] \in Nat
           /\ \A i \in 1 .. Len(values) : Squares(values)[i] = values[i] * values[i]
           /\ \A i \in 1 .. Len(values) : Squares(values)[i] \in Int
           /\ SumFunctionOnSet(values, 1 .. Len(values)) \in Int
           /\ SumFunctionOnSet(Squares(values), 1 .. Len(values)) \in Int
<1>1. Len(values) \in Nat /\ \A i \in 1 .. Len(values) : values[i] \in Nat
  OBVIOUS
<1>2. IsFiniteSet(1 .. Len(values)) /\ Cardinality(1 .. Len(values)) = Len(values)
  BY <1>1, FS_Interval
<1>3. \A i \in 1 .. Len(values) : Squares(values)[i] = values[i] * values[i]
  BY DEF Squares
<1>4. \A i \in 1 .. Len(values) : values[i] \in Int /\ Squares(values)[i] \in Int
  <2>. TAKE i \in 1 .. Len(values)
  <2>1. PICK x \in Nat : x = values[i]
    BY <1>1
  <2>. QED
    BY <1>3, <2>1
<1>. QED
  BY <1>1, <1>2, <1>3, <1>4, SumType

IsQuadraticIn(z, values, a, b, c) ==
    \A i \in 1 .. Len(values) : z[i] = a * (values[i] * values[i]) + b * values[i] + c

\* The sum of a quadratic form in the samples.
LEMMA QuadraticSum ==
    ASSUME NEW values \in Seq(Nat), NEW a \in Int, NEW b \in Int, NEW c \in Int,
           NEW z, IsQuadraticIn(z, values, a, b, c)
    PROVE  SumFunctionOnSet(z, 1 .. Len(values)) =
             a * SumFunctionOnSet(Squares(values), 1 .. Len(values))
               + b * SumFunctionOnSet(values, 1 .. Len(values)) + c * Len(values)
<1>. DEFINE S == 1 .. Len(values)
<1>1. IsFiniteSet(S) /\ Cardinality(S) = Len(values)
  BY SumsOfSamples
<1>2. /\ \A i \in S : values[i] \in Int
      /\ \A i \in S : Squares(values)[i] = values[i] * values[i]
  BY SumsOfSamples
<1>3. \A i \in S : z[i] = a * Squares(values)[i] + b * values[i] + c
  BY <1>2, Zenon DEF IsQuadraticIn
<1>. HIDE DEF S
<1>5. IsQuadratic(z, Squares(values), values, S, a, b, c)
  BY <1>2, <1>3, Zenon DEF IsQuadratic
<1>4. SumFunctionOnSet(z, S) =
        a * SumFunctionOnSet(Squares(values), S)
          + b * SumFunctionOnSet(values, S) + c * Cardinality(S)
  BY <1>1, <1>5, SumQuadratic
<1>. QED
  BY <1>1, <1>4, Zenon DEF S

\* n times the numerator is the sum of the squares of n x - total.
LEMMA NumeratorIsSquares ==
    ASSUME NEW values \in Seq(Nat), Len(values) > 1
    PROVE  /\ Numerator(values) \in Nat
           /\ Numerator(values) = 0 =>
                \A i \in 1 .. Len(values) :
                   Len(values) * values[i] = SumFunctionOnSet(values, 1 .. Len(values))
<1>. DEFINE S == 1 .. Len(values)
<1>1. PICK n \in Nat : n = Len(values) /\ n > 1
  OBVIOUS
<1>2. PICK t \in Int : t = SumFunctionOnSet(values, S)
  BY SumsOfSamples
<1>3. PICK q \in Int : q = SumFunctionOnSet(Squares(values), S)
  BY SumsOfSamples
<1>4. Numerator(values) = n * q - t * t
  BY <1>1, <1>2, <1>3, Zenon DEF Numerator
<1>5. \A i \in S : values[i] \in Nat
  BY SumsOfSamples
<1>. DEFINE z == [i \in S |-> (n * values[i] - t) * (n * values[i] - t)]
<1>6. \A i \in S : z[i] = (n * n) * (values[i] * values[i]) + (-2 * n * t) * values[i] + t * t
  <2>. TAKE i \in S
  <2>1. PICK x \in Nat : x = values[i]
    BY <1>5
  <2>2. (n * x - t) * (n * x - t) = (n * n) * (x * x) + (-2 * n * t) * x + t * t
    OBVIOUS
  <2>3. z[i] = (n * values[i] - t) * (n * values[i] - t)
    OBVIOUS
  <2>. QED
    BY <2>1, <2>2, <2>3, Zenon
<1>7. SumFunctionOnSet(z, S) = (n * n) * q + (-2 * n * t) * t + (t * t) * n
  <2>1. PICK a \in Int, b \in Int, c \in Int : a = n * n /\ b = -2 * n * t /\ c = t * t
    OBVIOUS
  <2>. HIDE DEF z
  <2>2. IsQuadraticIn(z, values, a, b, c)
    BY <1>6, <2>1, Zenon DEF IsQuadraticIn
  <2>3. SumFunctionOnSet(z, S) =
          a * SumFunctionOnSet(Squares(values), S) + b * SumFunctionOnSet(values, S)
            + c * Len(values)
    BY <2>2, QuadraticSum
  <2>. QED
    BY <1>1, <1>2, <1>3, <2>1, <2>3, Zenon
<1>8. SumFunctionOnSet(z, S) = n * (n * q - t * t)
  <2>1. (n * n) * q + (-2 * n * t) * t + (t * t) * n = n * (n * q - t * t)
    OBVIOUS
  <2>. QED
    BY <1>7, <2>1, Zenon
<1>9. \A i \in S : z[i] \in Nat
  <2>. TAKE i \in S
  <2>1. PICK y \in Int : y = n * values[i] - t
    BY <1>5
  <2>2. y * y \in Nat
    OBVIOUS
  <2>. QED
    BY <2>1, <2>2
<1>10. IsFiniteSet(S)
  BY SumsOfSamples
<1>11. SumFunctionOnSet(z, S) \in Nat /\ \A i \in S : z[i] <= SumFunctionOnSet(z, S)
  <2>. HIDE DEF z, S
  <2>. QED
    BY <1>9, <1>10, SumOfNaturals
<1>12. PICK d \in Int : d = n * q - t * t
  OBVIOUS
<1>13. n * d \in Nat /\ \A i \in S : z[i] <= n * d
  BY <1>8, <1>11, <1>12, Zenon
<1>14. d >= 0
  BY <1>1, <1>13
<1>15. ASSUME d = 0, NEW i \in S PROVE n * values[i] = t
  <2>1. z[i] <= 0 /\ z[i] \in Nat
    <3>1. n * d = 0
      BY <1>15
    <3>. QED
      BY <1>9, <1>13, <1>15, <3>1
  <2>2. PICK y \in Int : y = n * values[i] - t
    BY <1>5
  <2>3. z[i] = y * y
    BY <2>2
  <2>. HIDE DEF z
  <2>4. y * y = 0
    BY <2>1, <2>3
  <2>5. y = 0
    BY <2>4
  <2>6. PICK x \in Nat : x = values[i]
    BY <1>5
  <2>. QED
    BY <2>2, <2>5, <2>6
<1>. QED
  BY <1>1, <1>2, <1>4, <1>12, <1>14, <1>15

\* Samples that are all equal have no deviation.
LEMMA EqualSamples ==
    ASSUME NEW values \in Seq(Nat), NEW x \in Nat,
           \A i \in 1 .. Len(values) : values[i] = x
    PROVE  Numerator(values) = 0
<1>. DEFINE S == 1 .. Len(values)
<1>1. PICK n \in Nat : n = Len(values) /\ n = Cardinality(S)
  BY SumsOfSamples
<1>2. PICK t \in Int : t = SumFunctionOnSet(values, S)
  BY SumsOfSamples
<1>3. PICK q \in Int : q = SumFunctionOnSet(Squares(values), S)
  BY SumsOfSamples
<1>4. IsFiniteSet(S) /\ \A i \in S : Squares(values)[i] = values[i] * values[i]
  BY SumsOfSamples
<1>5. PICK y \in Int : y = x * x
  OBVIOUS
<1>6. /\ \A i \in S : values[i] \in Int /\ x <= values[i] /\ values[i] <= x
      /\ \A i \in S : Squares(values)[i] \in Int /\ y <= Squares(values)[i]
                      /\ Squares(values)[i] <= y
  <2>1. \A i \in S : values[i] = x /\ Squares(values)[i] = y
    BY <1>4, <1>5, Zenon
  <2>2. x \in Int /\ x <= x /\ y <= y
    OBVIOUS
  <2>. QED
    BY <2>1, <2>2, Zenon
<1>. HIDE DEF S
<1>7. /\ Cardinality(S) * x <= SumFunctionOnSet(values, S)
      /\ SumFunctionOnSet(values, S) <= Cardinality(S) * x
  BY <1>4, <1>6, SumBounds
<1>8. /\ Cardinality(S) * y <= SumFunctionOnSet(Squares(values), S)
      /\ SumFunctionOnSet(Squares(values), S) <= Cardinality(S) * y
  BY <1>4, <1>6, SumBounds
<1>9. n * x <= t /\ t <= n * x /\ n * y <= q /\ q <= n * y
  BY <1>1, <1>2, <1>3, <1>7, <1>8, Zenon
<1>10. n * x \in Int /\ n * y \in Int
  OBVIOUS
<1>11. t = n * x /\ q = n * y
  BY <1>9, <1>10
<1>12. n * q - t * t = 0
  BY <1>5, <1>11
<1>. QED
  BY <1>1, <1>2, <1>3, <1>12, Zenon DEF Numerator, S

\* Samples between lo and hi: four times the numerator is at most the square
\* of n times the range.
LEMMA NumeratorBound ==
    ASSUME NEW values \in Seq(Nat), NEW lo \in Nat, NEW hi \in Nat,
           \A i \in 1 .. Len(values) : lo <= values[i] /\ values[i] <= hi
    PROVE  4 * Numerator(values) <= (Len(values) * (hi - lo)) * (Len(values) * (hi - lo))
<1>. DEFINE S == 1 .. Len(values)
<1>1. PICK n \in Nat : n = Len(values)
  BY SumsOfSamples
<1>2. PICK t \in Int : t = SumFunctionOnSet(values, S)
  BY SumsOfSamples
<1>3. PICK q \in Int : q = SumFunctionOnSet(Squares(values), S)
  BY SumsOfSamples
<1>4. IsFiniteSet(S) /\ \A i \in S : values[i] \in Nat
  BY SumsOfSamples
<1>. DEFINE z == [i \in S |-> (values[i] - lo) * (hi - values[i])]
<1>5. PICK a \in Int, b \in Int, c \in Int : a = -1 /\ b = lo + hi /\ c = -(lo * hi)
  OBVIOUS
<1>6. IsQuadraticIn(z, values, a, b, c)
  <2>. SUFFICES ASSUME NEW i \in S
                PROVE  z[i] = a * (values[i] * values[i]) + b * values[i] + c
    BY DEF IsQuadraticIn
  <2>1. PICK x \in Nat : x = values[i]
    BY <1>4
  <2>2. (x - lo) * (hi - x) = a * (x * x) + b * x + c
    BY <1>5
  <2>3. z[i] = (values[i] - lo) * (hi - values[i])
    OBVIOUS
  <2>. QED
    BY <2>1, <2>2, <2>3, Zenon
<1>7. \A i \in S : z[i] \in Nat
  <2>. TAKE i \in S
  <2>1. PICK x \in Nat : x = values[i]
    BY <1>4
  <2>2. x - lo \in Nat /\ hi - x \in Nat
    BY <2>1
  <2>3. (x - lo) * (hi - x) \in Nat
    BY <2>2
  <2>4. z[i] = (values[i] - lo) * (hi - values[i])
    OBVIOUS
  <2>. QED
    BY <2>1, <2>3, <2>4, Zenon
<1>. HIDE DEF z
<1>8. SumFunctionOnSet(z, S) =
        a * SumFunctionOnSet(Squares(values), S) + b * SumFunctionOnSet(values, S)
          + c * Len(values)
  BY <1>6, QuadraticSum
<1>9. SumFunctionOnSet(z, S) \in Nat
  <2>. HIDE DEF S
  <2>. QED
    BY <1>4, <1>7, SumOfNaturals
<1>10. a * q + b * t + c * n \in Nat
  BY <1>1, <1>2, <1>3, <1>8, <1>9, Zenon
<1>11. q <= (lo + hi) * t - (lo * hi) * n
  <2>1. PICK u \in Int, v \in Int : u = b * t /\ v = c * n
    OBVIOUS
  <2>2. q <= u + v
    BY <1>5, <1>10, <2>1
  <2>3. u = (lo + hi) * t /\ v = -((lo * hi) * n)
    BY <1>5, <2>1
  <2>4. (lo + hi) * t \in Int /\ (lo * hi) * n \in Int
    OBVIOUS
  <2>. QED
    BY <2>2, <2>3, <2>4
<1>12. n * q <= n * ((lo + hi) * t - (lo * hi) * n)
  <2>1. PICK u \in Int : u = (lo + hi) * t - (lo * hi) * n
    OBVIOUS
  <2>2. n * q <= n * u
    BY <1>11, <2>1
  <2>. QED
    BY <2>1, <2>2
<1>13. PICK y \in Int : y = n * (lo + hi) - 2 * t
  OBVIOUS
<1>14. y * y >= 0
  OBVIOUS
<1>15. (n * (hi - lo)) * (n * (hi - lo)) - 4 * (n * ((lo + hi) * t - (lo * hi) * n) - t * t)
         = y * y
  BY <1>13
<1>16. PICK A \in Int, B \in Int, C \in Int, D \in Int :
         /\ A = (n * (hi - lo)) * (n * (hi - lo)) /\ B = n * ((lo + hi) * t - (lo * hi) * n)
         /\ C = t * t /\ D = n * q
  OBVIOUS
<1>17. A - 4 * (B - C) >= 0 /\ D <= B
  BY <1>12, <1>14, <1>15, <1>16
<1>18. 4 * (D - C) <= A
  BY <1>17
<1>. QED
  BY <1>1, <1>2, <1>3, <1>16, <1>18, Zenon DEF Numerator

\* The deviation agrees with the range.
LEMMA SpreadHolds ==
    ASSUME NEW values \in Seq(Nat)
    PROVE  LET s == Summarize(values)
               range == s.max[1] - s.min[1]
           IN  /\ (s.stddev[1] = 0) <=> (range = 0)
               /\ s.count > 1 =>
                    Leq(s.stddev, <<s.count * range * range, 4 * (s.count - 1)>>)
               /\ s.stddev[1] = 0 => s.coefficient_of_variation[1] = 0
<1>. DEFINE range == Maximum(values)[1] - Minimum(values)[1]
<1>1. PICK n \in Nat : n = Len(values)
  OBVIOUS
<1>2. SUFFICES /\ (StdDev(values)[1] = 0) <=> (range = 0)
               /\ n > 1 => Leq(StdDev(values), <<n * range * range, 4 * (n - 1)>>)
               /\ StdDev(values)[1] = 0 => CoefficientOfVariation(values)[1] = 0
  BY <1>1 DEF Summarize
<1>3. StdDev(values)[1] \in Int
  <2>1. CASE Len(values) < 2
    BY <2>1, StdDevForm DEF Zero
  <2>2. CASE ~(Len(values) < 2)
    <3>1. Numerator(values) \in Int
      <4>1. Len(values) > 1
        BY <2>2
      <4>. QED
        BY <4>1, NumeratorIsSquares
    <3>. QED
      BY <2>2, <3>1, StdDevForm
  <2>. QED
    BY <2>1, <2>2
<1>4. StdDev(values)[1] = 0 => CoefficientOfVariation(values)[1] = 0
  <2>. SUFFICES ASSUME StdDev(values)[1] = 0 PROVE CoefficientOfVariation(values)[1] = 0
    OBVIOUS
  <2>1. CASE Mean(values)[1] = 0
    BY <2>1 DEF CoefficientOfVariation, Zero
  <2>2. CASE Mean(values)[1] # 0
    <3>2. Mean(values)[2] \in Int
      BY <1>1 DEF Mean, Zero
    <3>3. 10000 * 0 * Mean(values)[2] * Mean(values)[2] = 0
      <4>1. PICK m \in Int : m = Mean(values)[2]
        BY <3>2
      <4>. QED
        BY <4>1
    <3>4. CoefficientOfVariation(values)[1] =
            10000 * StdDev(values)[1] * Mean(values)[2] * Mean(values)[2]
      BY <2>2 DEF CoefficientOfVariation
    <3>. QED
      BY <3>3, <3>4
  <2>. QED
    BY <2>1, <2>2
<1>5. CASE n = 0
  <2>1. values = <<>>
    BY <1>1, <1>5, EmptySeq
  <2>2. range = 0
    BY <2>1 DEF Maximum, Minimum, Zero
  <2>3. StdDev(values)[1] = 0
    <3>1. Len(values) < 2
      BY <1>1, <1>5
    <3>. QED
      BY <3>1, StdDevForm DEF Zero
  <2>. QED
    BY <1>4, <1>5, <2>2, <2>3
<1>6. CASE n = 1
  <2>1. range = 0
    <3>1. /\ Maximum(values) = Whole(values[1]) /\ Minimum(values) = Whole(values[1])
          /\ values[1] \in Nat
      BY <1>1, <1>6, OneSample
    <3>. QED
      BY <3>1 DEF Whole
  <2>2. StdDev(values)[1] = 0
    <3>1. Len(values) < 2
      BY <1>1, <1>6
    <3>. QED
      BY <3>1, StdDevForm DEF Zero
  <2>. QED
    BY <1>4, <1>6, <2>1, <2>2
<1>7. CASE n > 1
  <2>1. values # <<>>
    BY <1>1, <1>7
  <2>2. PICK lo \in Nat, hi \in Nat : lo = Min(Range(values)) /\ hi = Max(Range(values))
    BY <2>1, SampleExtremes
  <2>3. Minimum(values) = <<lo, 1>> /\ Maximum(values) = <<hi, 1>>
    BY <2>1, <2>2, Zenon DEF Minimum, Maximum, Whole
  <2>4. range = hi - lo
    BY <2>3
  <2>5. StdDev(values) = <<Numerator(values), n * (n - 1)>>
    <3>1. ~(n < 2)
      BY <1>7
    <3>. QED
      BY <1>1, <3>1, StdDevForm, Zenon
  <2>6. /\ \A i \in 1 .. Len(values) : lo <= values[i] /\ values[i] <= hi
        /\ \E i \in 1 .. Len(values) : values[i] = lo
        /\ \E i \in 1 .. Len(values) : values[i] = hi
    BY <2>1, <2>2, SampleExtremes, Zenon
  <2>7. PICK d \in Nat : d = Numerator(values)
    BY <1>1, <1>7, NumeratorIsSquares
  <2>8. d = 0 <=> hi - lo = 0
    <3>1. ASSUME d = 0 PROVE hi - lo = 0
      <4>1. PICK i \in 1 .. Len(values), j \in 1 .. Len(values) : values[i] = lo /\ values[j] = hi
        BY <2>6
      <4>2. n * lo = n * hi
        <5>1. \A k \in 1 .. Len(values) :
                Len(values) * values[k] = SumFunctionOnSet(values, 1 .. Len(values))
          BY <1>1, <1>7, <2>7, <3>1, NumeratorIsSquares
        <5>. QED
          BY <1>1, <4>1, <5>1, Zenon
      <4>. QED
        BY <1>7, <4>2
    <3>2. ASSUME hi - lo = 0 PROVE d = 0
      <4>1. \A i \in 1 .. Len(values) : values[i] = lo
        <5>. TAKE i \in 1 .. Len(values)
        <5>1. values[i] \in Nat /\ lo <= values[i] /\ values[i] <= hi
          BY <2>6
        <5>. QED
          BY <3>2, <5>1
      <4>. QED
        BY <2>7, <4>1, EqualSamples
    <3>. QED
      BY <3>1, <3>2
  <2>9. Leq(<<d, n * (n - 1)>>, <<n * (hi - lo) * (hi - lo), 4 * (n - 1)>>)
    <3>1. 4 * d <= (n * (hi - lo)) * (n * (hi - lo))
      BY <1>1, <2>6, <2>7, NumeratorBound
    <3>2. PICK A \in Int, m \in Nat : A = (n * (hi - lo)) * (n * (hi - lo)) /\ m = n - 1
      BY <1>7
    <3>3. m * (4 * d) <= m * A
      BY <3>1, <3>2
    <3>4. m * (4 * d) = d * (4 * (n - 1))
      BY <3>2
    <3>5. m * A = (n * (hi - lo) * (hi - lo)) * (n * (n - 1))
      BY <3>2
    <3>6. d * (4 * (n - 1)) <= (n * (hi - lo) * (hi - lo)) * (n * (n - 1))
      BY <3>3, <3>4, <3>5
    <3>. QED
      BY <3>6 DEF Leq
  <2>10. StdDev(values)[1] = d
    BY <2>5, <2>7
  <2>. HIDE DEF range
  <2>11. Leq(StdDev(values), <<n * range * range, 4 * (n - 1)>>)
    BY <2>4, <2>5, <2>7, <2>9, Zenon
  <2>12. (StdDev(values)[1] = 0) <=> (range = 0)
    BY <2>4, <2>8, <2>10, Zenon
  <2>. QED
    BY <1>4, <2>11, <2>12
<1>8. n = 0 \/ n = 1 \/ n > 1
  OBVIOUS
<1>. QED
  BY <1>5, <1>6, <1>7, <1>8

-----------------------------------------------------------------------------
(***************************************************************************)
(* FiguresConsistent.                                                      *)
(***************************************************************************)
LEMMA FigureRuns ==
    ASSUME StatTypeOK, kind = "figure" PROVE runs \in Seq(Nat)
<1>1. Inputs(kind) = 0 .. MaxSample
  BY Zenon DEF Inputs
<1>2. runs \in Seq(0 .. MaxSample)
  BY <1>1 DEF StatTypeOK
<1>. QED
  BY <1>2, StatisticsBounds

LEMMA PercentilesHold ==
    ASSUME NEW values \in Seq(Nat)
    PROVE  /\ Same(Percentile(values, 50), Median(values))
           /\ Leq(Minimum(values), Percentile(values, 50))
           /\ Leq(Percentile(values, 50), Percentile(values, 90))
           /\ Leq(Percentile(values, 90), Percentile(values, 95))
           /\ Leq(Percentile(values, 95), Percentile(values, 99))
           /\ Leq(Percentile(values, 99), Maximum(values))
<1>0. {50, 90, 95, 99} \subseteq 0 .. 99 /\ 50 <= 90 /\ 90 <= 95 /\ 95 <= 99 /\ 99 <= 99
  OBVIOUS
<1>1. CASE Len(values) = 0
  <2>1. values = <<>>
    BY <1>1, EmptySeq
  <2>2. Leq(Zero, Zero)
    BY DEF Leq, Zero
  <2>. QED
    BY <1>0, <2>1, <2>2, NoSample, Zenon DEF Same
<1>2. CASE Len(values) = 1
  <2>1. values[1] \in Nat
    BY <1>2, OneSample, Zenon
  <2>2. Leq(Whole(values[1]), Whole(values[1]))
    BY <2>1 DEF Leq, Whole
  <2>3. /\ Minimum(values) = Whole(values[1]) /\ Maximum(values) = Whole(values[1])
        /\ Median(values) = Whole(values[1])
        /\ \A p \in 0 .. 99 : Percentile(values, p) = Whole(values[1])
    BY <1>2, OneSample
  <2>. QED
    BY <1>0, <2>2, <2>3, Zenon DEF Same
<1>3. CASE Len(values) > 1
  BY <1>0, <1>3, PercentilesMonotone, MedianIsP50
<1>4. Len(values) = 0 \/ Len(values) = 1 \/ Len(values) > 1
  <2>1. PICK n \in Nat : n = Len(values)
    OBVIOUS
  <2>2. n = 0 \/ n = 1 \/ n > 1
    OBVIOUS
  <2>. QED
    BY <2>1, <2>2, Zenon
<1>. QED
  BY <1>1, <1>2, <1>3, <1>4

\* A comparison of converted figures is one of what was measured.
LEMMA UnitsHold ==
    ASSUME NEW x \in Nat, NEW y \in Nat
    PROVE  /\ \A a, b \in {"us", "ms", "s"} :
                Leq(LatencyMs(x, a), LatencyMs(y, b)) <=> (x * UsPer(a) <= y * UsPer(b))
           /\ \A a, b \in {"KB", "MB", "GB"} :
                Leq(TransferMb(x, a), TransferMb(y, b)) <=> (x * KbPer(a) <= y * KbPer(b))
<1>1. /\ LatencyMs(x, "us") = <<x, 1000>> /\ LatencyMs(y, "us") = <<y, 1000>>
      /\ LatencyMs(x, "ms") = <<x, 1>> /\ LatencyMs(y, "ms") = <<y, 1>>
      /\ LatencyMs(x, "s") = <<x * 1000, 1>> /\ LatencyMs(y, "s") = <<y * 1000, 1>>
      /\ UsPer("us") = 1 /\ UsPer("ms") = 1000 /\ UsPer("s") = 1000000
  BY DEF LatencyMs, UsPer
<1>2. /\ TransferMb(x, "KB") = <<x, 1024>> /\ TransferMb(y, "KB") = <<y, 1024>>
      /\ TransferMb(x, "MB") = <<x, 1>> /\ TransferMb(y, "MB") = <<y, 1>>
      /\ TransferMb(x, "GB") = <<x * 1024, 1>> /\ TransferMb(y, "GB") = <<y * 1024, 1>>
      /\ KbPer("KB") = 1 /\ KbPer("MB") = 1024 /\ KbPer("GB") = 1048576
  BY DEF TransferMb, KbPer
<1>3. ASSUME NEW a \in {"us", "ms", "s"}, NEW b \in {"us", "ms", "s"}
      PROVE  Leq(LatencyMs(x, a), LatencyMs(y, b)) <=> (x * UsPer(a) <= y * UsPer(b))
  <2>1. CASE a = "us" BY <1>1, <1>3, <2>1 DEF Leq
  <2>2. CASE a = "ms" BY <1>1, <1>3, <2>2 DEF Leq
  <2>3. CASE a = "s" BY <1>1, <1>3, <2>3 DEF Leq
  <2>. QED BY <2>1, <2>2, <2>3
<1>4. ASSUME NEW a \in {"KB", "MB", "GB"}, NEW b \in {"KB", "MB", "GB"}
      PROVE  Leq(TransferMb(x, a), TransferMb(y, b)) <=> (x * KbPer(a) <= y * KbPer(b))
  <2>1. CASE a = "KB" BY <1>2, <1>4, <2>1 DEF Leq
  <2>2. CASE a = "MB" BY <1>2, <1>4, <2>2 DEF Leq
  <2>3. CASE a = "GB" BY <1>2, <1>4, <2>3 DEF Leq
  <2>. QED BY <2>1, <2>2, <2>3
<1>. QED
  BY <1>3, <1>4

\* Theorem: for every number of runs and every sample, the figures that
\* metrics.summarize prints are consistent with each other and with the units
\* of parser.py: p50 is the median, the percentiles are in order and within
\* the samples, the deviation agrees with the range.
THEOREM FiguresAreConsistent == StatSpec => []FiguresConsistent
<1>1. StatTypeOK => FiguresConsistent
  <2>. SUFFICES ASSUME StatTypeOK, kind = "figure" PROVE FiguresConsistent
    BY DEF FiguresConsistent, P50IsMedian, PercentilesOrdered, SpreadMatchesRange,
           UnitsComparable
  <2>0. runs \in Seq(Nat)
    BY FigureRuns
  <2>1. P50IsMedian
    BY <2>0, PercentilesHold DEF P50IsMedian, Summarize
  <2>2. PercentilesOrdered
    BY <2>0, PercentilesHold DEF PercentilesOrdered, Summarize
  <2>3. SpreadMatchesRange
    BY <2>0, SpreadHolds, Zenon DEF SpreadMatchesRange
  <2>4. UnitsComparable
    <3>1. \A i \in DOMAIN runs : runs[i] \in Nat
      BY <2>0
    <3>. QED
      BY <3>1, UnitsHold, Zenon DEF UnitsComparable
  <2>. QED
    BY <2>1, <2>2, <2>3, <2>4 DEF FiguresConsistent
<1>. QED
  BY <1>1, StatisticsTypeCorrect, PTL

-----------------------------------------------------------------------------
(***************************************************************************)
(* Histograms.                                                             *)
(***************************************************************************)
Lines == ({""} \X (0 .. 1)) \cup (Buckets \X (1 .. 2))

\* The requests of one histogram file.
Requests(lines) == SumFunctionOnSet([i \in DOMAIN lines |-> Counted(lines[i])], 1 .. Len(lines))

LEMMA LineCounts ==
    /\ \A line \in Lines : Counted(line) \in Int
    /\ \A line : Skipped(line) => Counted(line) = 0
    /\ \A line : ~Skipped(line) => Counted(line) = line[2]
<1>1. \A line \in Lines : line[2] \in Int
  <2>1. \A S : \A line \in S \X (0 .. 1) : line[2] \in Int
    OBVIOUS
  <2>2. \A line \in Buckets \X (1 .. 2) : line[2] \in Int
    OBVIOUS
  <2>. QED
    BY <2>1, <2>2, Zenon DEF Lines
<1>2. 0 \in Int
  OBVIOUS
<1>. QED
  BY <1>1, <1>2, Zenon DEF Counted

LEMMA RequestsOfConcat ==
    ASSUME NEW a \in Seq(Lines), NEW b \in Seq(Lines)
    PROVE  Requests(a \o b) = Requests(a) + Requests(b)
<1>. DEFINE c == a \o b
            A == [i \in DOMAIN a |-> Counted(a[i])]
            B == [i \in DOMAIN b |-> Counted(b[i])]
            C == [i \in DOMAIN c |-> Counted(c[i])]
<1>1. PICK m \in Nat, n \in Nat : m = Len(a) /\ n = Len(b)
  OBVIOUS
<1>2. /\ c \in Seq(Lines) /\ Len(c) = m + n
      /\ \A i \in 1 .. m : c[i] = a[i]
      /\ \A i \in 1 .. n : c[m + i] = b[i]
  <2>1. c \in Seq(Lines) /\ Len(c) = Len(a) + Len(b)
    BY ConcatProperties
  <2>2. /\ \A x \in 1 .. Len(a) : (a \o b)[x] = a[x]
        /\ \A x \in 1 .. Len(b) : (a \o b)[Len(a) + x] = b[x]
    BY ConcatParts
  <2>. QED
    BY <1>1, <2>1, <2>2, Zenon
<1>. HIDE DEF c
<1>3. /\ \A i \in 1 .. m : C[i] = A[i]
      /\ \A i \in 1 .. n : C[m + i] = B[i] /\ B[i] \in Int
      /\ \A i \in 1 .. m + n : C[i] \in Int
  <2>1. DOMAIN a = 1 .. m /\ DOMAIN b = 1 .. n /\ DOMAIN c = 1 .. m + n
    BY <1>1, <1>2
  <2>2. /\ \A i \in 1 .. m : A[i] = Counted(a[i])
        /\ \A i \in 1 .. n : B[i] = Counted(b[i])
        /\ \A i \in 1 .. m + n : C[i] = Counted(c[i])
    BY <2>1
  <2>3. \A i \in 1 .. m : i \in 1 .. m + n
    OBVIOUS
  <2>4. \A i \in 1 .. n : m + i \in 1 .. m + n
    OBVIOUS
  <2>5. /\ \A i \in 1 .. n : Counted(b[i]) \in Int
        /\ \A i \in 1 .. m + n : Counted(c[i]) \in Int
    <3>1. /\ \A i \in 1 .. n : b[i] \in Lines
          /\ \A i \in 1 .. m + n : c[i] \in Lines
      BY <1>1, <1>2
    <3>. QED
      BY <3>1, LineCounts, Zenon
  <2>. HIDE DEF A, B, C
  <2>6. \A i \in 1 .. m : C[i] = A[i]
    BY <1>2, <2>2, <2>3
  <2>7. \A i \in 1 .. n : C[m + i] = B[i]
    BY <1>2, <2>2, <2>4
  <2>8. (\A i \in 1 .. n : B[i] \in Int) /\ \A i \in 1 .. m + n : C[i] \in Int
    BY <2>2, <2>5, Zenon
  <2>. QED
    BY <2>6, <2>7, <2>8, Zenon
<1>. HIDE DEF A, B, C
<1>. DEFINE Sm(f, k) == SumFunctionOnSet(f, 1 .. k)
            K == {k \in 0 .. n : Sm(C, m + k) = Sm(A, m) + Sm(B, k)}
<1>4. Sm(C, m) = Sm(A, m)
  <2>1. IsFiniteSet(1 .. m)
    BY FS_Interval
  <2>. QED
    BY <1>3, <2>1, SumCongruence
<1>5. \A k \in 0 .. n : Sm(C, m + k) \in Int /\ Sm(B, k) \in Int
  <2>. TAKE k \in 0 .. n
  <2>1. IsFiniteSet(1 .. m + k) /\ IsFiniteSet(1 .. k)
    BY FS_Interval
  <2>2. (\A i \in 1 .. m + k : C[i] \in Int) /\ \A i \in 1 .. k : B[i] \in Int
    BY <1>3
  <2>. QED
    BY <2>1, <2>2, SumType
<1>6. Sm(A, m) \in Int
  <2>1. 0 \in 0 .. n /\ m + 0 = m
    OBVIOUS
  <2>. HIDE DEF Sm
  <2>. QED
    BY <1>4, <1>5, <2>1
<1>7. 0 \in K
  <2>1. Sm(B, 0) = 0
    <3>1. 1 .. 0 = {}
      OBVIOUS
    <3>. QED
      BY <3>1, SumEmpty, Zenon
  <2>. HIDE DEF Sm
  <2>2. m + 0 = m /\ Sm(A, m) + 0 = Sm(A, m) /\ 0 \in 0 .. n
    BY <1>6
  <2>. QED
    BY <1>4, <2>1, <2>2
<1>8. ASSUME NEW k \in 0 .. n, k \in K, k < n PROVE k + 1 \in K
  <2>1. k + 1 \in 0 .. n /\ k + 1 \in 1 .. n /\ k \in Nat /\ m + k \in Nat
        /\ (m + k) + 1 = m + (k + 1)
    BY <1>8
  <2>2. Sm(C, (m + k) + 1) = C[(m + k) + 1] + Sm(C, m + k)
    <3>1. \A x \in 1 .. (m + k) + 1 : C[x] \in Int
      BY <1>3, <2>1
    <3>. QED
      BY <2>1, <3>1, SumPrefix
  <2>3. Sm(B, k + 1) = B[k + 1] + Sm(B, k)
    <3>1. \A x \in 1 .. k + 1 : B[x] \in Int
      BY <1>3, <2>1
    <3>. QED
      BY <2>1, <3>1, SumPrefix
  <2>4. C[m + (k + 1)] = B[k + 1] /\ B[k + 1] \in Int
    BY <1>3, <2>1
  <2>. HIDE DEF Sm
  <2>5. Sm(C, m + k) = Sm(A, m) + Sm(B, k) /\ Sm(B, k) \in Int
    BY <1>5, <1>8
  <2>6. Sm(C, m + (k + 1)) = B[k + 1] + (Sm(A, m) + Sm(B, k))
    BY <2>1, <2>2, <2>4, <2>5, Zenon
  <2>7. Sm(C, m + (k + 1)) = Sm(A, m) + Sm(B, k + 1)
    BY <1>6, <2>3, <2>4, <2>5, <2>6
  <2>. QED
    BY <2>1, <2>7
<1>9. Sm(C, m + n) = Sm(A, m) + Sm(B, n)
  <2>1. \A k \in 0 .. n : k \in K
    <3>. HIDE DEF K
    <3>. QED
      BY <1>7, <1>8, InductionUpTo
  <2>2. n \in K
    BY <2>1
  <2>. HIDE DEF Sm
  <2>. QED
    BY <2>2
<1>. QED
  BY <1>1, <1>2, <1>9, Zenon DEF Requests, A, B, C, c

\* The entries of file r, and those of the files up to m.
Row(files, r) == {r} \X DOMAIN LoadHistogram(files[r])
RowsUpTo(files, m) == {e \in Entries(files) : e[1] <= m}
Counts(files) == [e \in Entries(files) |-> CountOf(files, e)]

LEMMA LoadedLines ==
    ASSUME NEW lines \in Seq(Lines)
    PROVE  DOMAIN LoadHistogram(lines) = {i \in 1 .. Len(lines) : ~Skipped(lines[i])}
  BY DEF LoadHistogram, RestrictValues, Restrict

\* The entries, file by file.
LEMMA EntriesByRow ==
    ASSUME NEW files \in Seq(Seq(Lines))
    PROVE  /\ RowsUpTo(files, 0) = {}
           /\ RowsUpTo(files, Len(files)) = Entries(files)
           /\ \A m \in 0 .. Len(files) : m < Len(files) =>
                /\ RowsUpTo(files, m + 1) = RowsUpTo(files, m) \cup Row(files, m + 1)
                /\ RowsUpTo(files, m) \cap Row(files, m + 1) = {}
           /\ \A r \in 1 .. Len(files) :
                /\ Row(files, r) \subseteq Entries(files)
                /\ \A i \in 1 .. Len(files[r]) :
                     ~Skipped(files[r][i]) =>
                       <<r, i>> \in Row(files, r) /\ Counts(files)[<<r, i>>] = files[r][i][2]
<1>1. PICK n \in Nat : n = Len(files)
  OBVIOUS
<1>2. DOMAIN files = 1 .. n /\ \A r \in 1 .. n : files[r] \in Seq(Lines)
  BY <1>1
<1>3. Entries(files) = UNION {Row(files, r) : r \in 1 .. n}
  BY <1>2, Zenon DEF Entries, Row
<1>4. \A r : \A e \in Row(files, r) : e[1] = r
  BY DEF Row
<1>5. \A e \in Entries(files) : e[1] \in 1 .. n /\ e \in Row(files, e[1])
  BY <1>3, <1>4
<1>6. \A r \in 1 .. n : Row(files, r) \subseteq Entries(files)
  BY <1>3
<1>7. RowsUpTo(files, 0) = {}
  BY <1>5 DEF RowsUpTo
<1>8. RowsUpTo(files, n) = Entries(files)
  BY <1>5 DEF RowsUpTo
<1>9. ASSUME NEW m \in 0 .. n, m < n
      PROVE  /\ RowsUpTo(files, m + 1) = RowsUpTo(files, m) \cup Row(files, m + 1)
             /\ RowsUpTo(files, m) \cap Row(files, m + 1) = {}
  <2>1. m + 1 \in 1 .. n
    BY <1>9
  <2>2. \A e \in Row(files, m + 1) : e[1] = m + 1 /\ e \in Entries(files)
    BY <1>4, <1>6, <2>1
  <2>3. \A e \in Entries(files) : e[1] <= m + 1 <=> (e[1] <= m \/ e[1] = m + 1)
    BY <1>5
  <2>4. \A e \in RowsUpTo(files, m) : e \in Entries(files) /\ e[1] <= m /\ e[1] # m + 1
    BY <1>5 DEF RowsUpTo
  <2>5. \A e : e \in RowsUpTo(files, m + 1) <=>
                 e \in RowsUpTo(files, m) \/ e \in Row(files, m + 1)
    <3>1. \A e : e \in RowsUpTo(files, m + 1) => e \in Entries(files) /\ e[1] <= m + 1
      BY DEF RowsUpTo
    <3>2. \A e : e \in Entries(files) /\ e[1] <= m => e \in RowsUpTo(files, m)
      BY DEF RowsUpTo
    <3>3. \A e : e \in Entries(files) /\ e[1] <= m + 1 => e \in RowsUpTo(files, m + 1)
      BY DEF RowsUpTo
    <3>. QED
      BY <1>5, <2>2, <2>3, <2>4, <3>1, <3>2, <3>3, Zenon
  <2>. QED
    BY <2>2, <2>4, <2>5, Zenon
<1>10. ASSUME NEW r \in 1 .. n, NEW i \in 1 .. Len(files[r]), ~Skipped(files[r][i])
       PROVE  <<r, i>> \in Row(files, r) /\ Counts(files)[<<r, i>>] = files[r][i][2]
  <2>1. i \in DOMAIN LoadHistogram(files[r])
    <3>1. files[r] \in Seq(Lines)
      BY <1>2
    <3>2. DOMAIN LoadHistogram(files[r]) = {j \in 1 .. Len(files[r]) : ~Skipped(files[r][j])}
      BY <3>1, LoadedLines
    <3>. QED
      BY <1>10, <3>2
  <2>2. <<r, i>> \in Row(files, r)
    BY <2>1 DEF Row
  <2>3. <<r, i>> \in Entries(files)
    BY <1>6, <2>2
  <2>. QED
    BY <2>2, <2>3 DEF Counts, CountOf
<1>. QED
  BY <1>1, <1>6, <1>7, <1>8, <1>9, <1>10

\* The entries of a file hold all of its requests: none is read from a skipped line.
LEMMA RequestsOfRow ==
    ASSUME NEW files \in Seq(Seq(Lines)), NEW r \in 1 .. Len(files)
    PROVE  /\ IsFiniteSet(Row(files, r))
           /\ \A e \in Row(files, r) : Counts(files)[e] \in Int
           /\ SumFunctionOnSet(Counts(files), Row(files, r)) = Requests(files[r])
<1>. DEFINE lines == files[r]
            f == [i \in DOMAIN lines |-> Counted(lines[i])]
            Part(k) == {e \in Row(files, r) : e[2] <= k}
            count == Counts(files)
<1>0. lines \in Seq(Lines)
  OBVIOUS
<1>1. PICK n \in Nat : n = Len(lines)
  BY <1>0
<1>2. /\ Row(files, r) = {r} \X {i \in 1 .. n : ~Skipped(lines[i])}
      /\ \A i \in 1 .. n : ~Skipped(lines[i]) =>
            <<r, i>> \in Row(files, r) /\ count[<<r, i>>] = lines[i][2]
  <2>1. DOMAIN LoadHistogram(lines) = {i \in 1 .. Len(lines) : ~Skipped(lines[i])}
    BY <1>0, LoadedLines
  <2>2. \A i \in 1 .. Len(files[r]) :
          ~Skipped(files[r][i]) =>
            <<r, i>> \in Row(files, r) /\ Counts(files)[<<r, i>>] = files[r][i][2]
    BY EntriesByRow
  <2>. QED
    BY <1>1, <2>1, <2>2, Zenon DEF Row
<1>. HIDE DEF count
<1>3. \A i \in 1 .. n : lines[i] \in Lines
  BY <1>0, <1>1
<1>. HIDE DEF lines
<1>4. \A i \in 1 .. n : f[i] = Counted(lines[i]) /\ f[i] \in Int
  <2>1. DOMAIN lines = 1 .. n
    BY <1>0, <1>1
  <2>2. \A i \in 1 .. n : f[i] = Counted(lines[i])
    BY <2>1
  <2>. QED
    BY <1>3, <2>2, LineCounts, Zenon
<1>. HIDE DEF f
<1>. DEFINE Good(k) == /\ IsFiniteSet(Part(k))
                       /\ \A e \in Part(k) : count[e] \in Int
                       /\ SumFunctionOnSet(count, Part(k)) = SumFunctionOnSet(f, 1 .. k)
            K == {k \in 0 .. n : Good(k)}
<1>5. \A e \in Row(files, r) : e[2] \in 1 .. n /\ e = <<r, e[2]>> /\ ~Skipped(lines[e[2]])
  BY <1>2
<1>6. 0 \in K
  <2>1. Part(0) = {}
    BY <1>5
  <2>2. 1 .. 0 = {} /\ 0 \in 0 .. n
    OBVIOUS
  <2>3. Good(0)
    <3>. HIDE DEF Part
    <3>. QED
      BY <2>1, <2>2, SumEmpty, FS_EmptySet, Zenon
  <2>. HIDE DEF Good
  <2>. QED
    BY <2>2, <2>3
<1>7. ASSUME NEW k \in 0 .. n, k \in K, k < n PROVE k + 1 \in K
  <2>1. k + 1 \in 0 .. n /\ k + 1 \in 1 .. n /\ k \in Nat
    BY <1>7
  <2>2. SumFunctionOnSet(f, 1 .. k + 1) = f[k + 1] + SumFunctionOnSet(f, 1 .. k)
    <3>1. \A x \in 1 .. k + 1 : f[x] \in Int
      BY <1>4, <2>1
    <3>. QED
      BY <2>1, <3>1, SumPrefix
  <2>3. Good(k)
    <3>. HIDE DEF Good
    <3>. QED
      BY <1>7
  <2>4. SumFunctionOnSet(f, 1 .. k) \in Int
    <3>1. SumFunctionOnSet(count, Part(k)) \in Int
      <4>. HIDE DEF Part
      <4>. QED
        BY <2>3, SumType
    <3>. HIDE DEF Part
    <3>. QED
      BY <2>3, <3>1, Zenon
  <2>5. \A e \in Row(files, r) : e[2] <= k + 1 <=> (e[2] <= k \/ e[2] = k + 1)
    BY <1>5
  <2>6. CASE Skipped(lines[k + 1])
    <3>1. Part(k + 1) = Part(k)
      BY <1>5, <2>5, <2>6
    <3>2. f[k + 1] = 0
      BY <1>4, <2>1, <2>6, LineCounts, Zenon
    <3>3. SumFunctionOnSet(f, 1 .. k + 1) = SumFunctionOnSet(f, 1 .. k)
      BY <2>2, <2>4, <3>2
    <3>4. Good(k + 1)
      <4>. HIDE DEF Part
      <4>. QED
        BY <2>3, <3>1, <3>3, Zenon
    <3>. HIDE DEF Good
    <3>. QED
      BY <2>1, <3>4
  <2>7. CASE ~Skipped(lines[k + 1])
    <3>1. <<r, k + 1>> \in Row(files, r) /\ count[<<r, k + 1>>] = f[k + 1] /\ f[k + 1] \in Int
      <4>1. f[k + 1] = lines[k + 1][2]
        BY <1>4, <2>1, <2>7, LineCounts, Zenon
      <4>. QED
        BY <1>2, <1>4, <2>1, <2>7, <4>1, Zenon
    <3>2. PICK d : d = <<r, k + 1>>
      OBVIOUS
    <3>3. d[2] = k + 1 /\ d \in Row(files, r) /\ count[d] = f[k + 1]
      BY <3>1, <3>2
    <3>4. d \notin Part(k)
      BY <2>1, <3>3
    <3>5. \A e \in Row(files, r) : e[2] = k + 1 => e = d
      BY <1>5, <3>2
    <3>6. Part(k + 1) = Part(k) \cup {d}
      <4>1. \A e \in Part(k + 1) : e \in Part(k) \cup {d}
        BY <2>5, <3>5
      <4>2. \A e \in Part(k) : e \in Part(k + 1)
        BY <2>5
      <4>3. d \in Part(k + 1)
        BY <2>5, <3>3
      <4>. HIDE DEF Part
      <4>. QED
        BY <4>1, <4>2, <4>3
    <3>. HIDE DEF Part
    <3>8. IsFiniteSet(Part(k) \cup {d}) /\ \A e \in Part(k) \cup {d} : count[e] \in Int
      BY <2>3, <3>1, <3>3, FS_AddElement
    <3>9. SumFunctionOnSet(count, Part(k) \cup {d}) =
            count[d] + SumFunctionOnSet(count, Part(k))
      <4>1. IsFiniteSet(Part(k)) /\ count[d] \in Int /\ \A e \in Part(k) : count[e] \in Int
        BY <2>3, <3>1, <3>3
      <4>. QED
        BY <3>4, <4>1, SumAdd
    <3>10. SumFunctionOnSet(count, Part(k + 1)) = SumFunctionOnSet(f, 1 .. k + 1)
      BY <2>2, <2>3, <3>3, <3>6, <3>9, Zenon
    <3>11. Good(k + 1)
      BY <3>6, <3>8, <3>10, Zenon
    <3>. HIDE DEF Good
    <3>. QED
      BY <2>1, <3>11
  <2>. QED
    BY <2>6, <2>7
<1>8. Good(n)
  <2>1. \A k \in 0 .. n : k \in K
    <3>. HIDE DEF K
    <3>. QED
      BY <1>6, <1>7, InductionUpTo
  <2>2. n \in K
    <3>. HIDE DEF K
    <3>. QED
      BY <2>1
  <2>. HIDE DEF Good
  <2>. QED
    BY <2>2
<1>9. Part(n) = Row(files, r)
  BY <1>5
<1>. HIDE DEF Part
<1>. QED
  BY <1>1, <1>8, <1>9, Zenon DEF Requests, f, lines, count

\* All entries hold all requests of the concatenated files.
LEMMA RequestsOfEntries ==
    ASSUME NEW files \in Seq(Seq(Lines))
    PROVE  /\ IsFiniteSet(Entries(files))
           /\ \A e \in Entries(files) : Counts(files)[e] \in Int
           /\ SumFunctionOnSet(Counts(files), Entries(files)) = Requests(FlattenSeq(files))
<1>. DEFINE count == Counts(files)
<1>1. PICK n \in Nat : n = Len(files)
  OBVIOUS
<1>2. /\ RowsUpTo(files, 0) = {} /\ RowsUpTo(files, n) = Entries(files)
      /\ \A m \in 0 .. n : m < n =>
           /\ RowsUpTo(files, m + 1) = RowsUpTo(files, m) \cup Row(files, m + 1)
           /\ RowsUpTo(files, m) \cap Row(files, m + 1) = {}
  BY <1>1, EntriesByRow
<1>3. \A r \in 1 .. n :
        /\ IsFiniteSet(Row(files, r))
        /\ \A e \in Row(files, r) : count[e] \in Int
        /\ SumFunctionOnSet(count, Row(files, r)) = Requests(files[r])
  BY <1>1, RequestsOfRow, Zenon
<1>. HIDE DEF count
<1>4. CASE n = 0
  <2>1. files = <<>>
    BY <1>1, <1>4, EmptySeq
  <2>2. FlattenSeq(files) = <<>>
    BY <2>1 DEF FlattenSeq
  <2>3. Requests(<<>>) = 0
    <3>1. Len(<<>>) = 0 /\ 1 .. 0 = {}
      OBVIOUS
    <3>. QED
      BY <3>1, SumEmpty, Zenon DEF Requests
  <2>4. Entries(files) = {}
    BY <1>2, <1>4, Zenon
  <2>. QED
    BY <2>2, <2>3, <2>4, SumEmpty, FS_EmptySet, Zenon
<1>5. CASE n # 0
  <2>1. files # <<>>
    BY <1>1, <1>5
  <2>2. PICK g \in [1 .. n -> Seq(Lines)] : IsFold(g, files, n) /\ FlattenSeq(files) = g[n]
    BY <1>1, <2>1, FlattenIsFold
  <2>. DEFINE Good(m) == /\ IsFiniteSet(RowsUpTo(files, m))
                         /\ \A e \in RowsUpTo(files, m) : count[e] \in Int
                         /\ SumFunctionOnSet(count, RowsUpTo(files, m)) =
                              (IF m = 0 THEN 0 ELSE Requests(g[m]))
              K == {m \in 0 .. n : Good(m)}
  <2>3. 0 \in K
    <3>1. Good(0)
      BY <1>2, SumEmpty, FS_EmptySet, Zenon
    <3>. HIDE DEF Good
    <3>. QED
      BY <3>1
  <2>4. ASSUME NEW m \in 0 .. n, m \in K, m < n PROVE m + 1 \in K
    <3>1. m + 1 \in 0 .. n /\ m + 1 \in 1 .. n /\ m + 1 # 0 /\ (m + 1) - 1 = m /\ (m # 0 => m \in 1 .. n)
          /\ (m + 1 = 1 <=> m = 0)
      BY <2>4
    <3>2. Good(m)
      <4>. HIDE DEF Good
      <4>. QED
        BY <2>4
    <3>. DEFINE A == RowsUpTo(files, m)
                B == Row(files, m + 1)
    <3>3. RowsUpTo(files, m + 1) = A \cup B /\ A \cap B = {}
      BY <1>2, <2>4
    <3>4. IsFiniteSet(A) /\ IsFiniteSet(B) /\ \A e \in A \cup B : count[e] \in Int
      BY <1>3, <3>1, <3>2
    <3>5. SumFunctionOnSet(count, B) = Requests(files[m + 1])
      BY <1>3, <3>1
    <3>6. SumFunctionOnSet(count, A) = (IF m = 0 THEN 0 ELSE Requests(g[m]))
      BY <3>2, Zenon
    <3>. HIDE DEF A, B
    <3>7. SumFunctionOnSet(count, A \cup B) = SumFunctionOnSet(count, A) + SumFunctionOnSet(count, B)
      BY <3>3, <3>4, SumUnion
    <3>8. IsFiniteSet(A \cup B)
      BY <3>4, FS_Union
    <3>9. SumFunctionOnSet(count, A \cup B) = Requests(g[m + 1])
      <4>1. g[m + 1] = IF m + 1 = 1 THEN files[m + 1] ELSE g[(m + 1) - 1] \o files[m + 1]
        BY <2>2, <3>1 DEF IsFold
      <4>2. CASE m = 0
        <5>1. SumFunctionOnSet(count, B) \in Int
          <6>1. \A e \in B : count[e] \in Int
            BY <3>4
          <6>. QED
            BY <3>4, <6>1, SumType
        <5>2. SumFunctionOnSet(count, A) = 0
          BY <3>6, <4>2
        <5>3. SumFunctionOnSet(count, A \cup B) = SumFunctionOnSet(count, B)
          BY <3>7, <5>1, <5>2
        <5>4. g[m + 1] = files[m + 1]
          BY <3>1, <4>1, <4>2, Zenon
        <5>. QED
          BY <3>5, <5>3, <5>4, Zenon
      <4>3. CASE m # 0
        <5>1. g[m + 1] = g[m] \o files[m + 1]
          BY <3>1, <4>1, <4>3, Zenon
        <5>2. g[m] \in Seq(Lines) /\ files[m + 1] \in Seq(Lines)
          <6>1. m \in 1 .. n /\ m + 1 \in 1 .. n
            BY <3>1, <4>3, Zenon
          <6>2. \A i \in 1 .. n : g[i] \in Seq(Lines) /\ files[i] \in Seq(Lines)
            BY <1>1, <2>2
          <6>. QED
            BY <6>1, <6>2, Zenon
        <5>3. Requests(g[m] \o files[m + 1]) = Requests(g[m]) + Requests(files[m + 1])
          BY <5>2, RequestsOfConcat
        <5>. QED
          BY <3>5, <3>6, <3>7, <4>3, <5>1, <5>3, Zenon
      <4>. QED
        BY <4>2, <4>3
    <3>10. Good(m + 1)
      BY <3>1, <3>3, <3>4, <3>8, <3>9, Zenon
    <3>. HIDE DEF Good
    <3>. QED
      BY <3>1, <3>10
  <2>5. Good(n)
    <3>1. \A m \in 0 .. n : m \in K
      <4>. HIDE DEF K
      <4>. QED
        BY <2>3, <2>4, InductionUpTo
    <3>2. n \in K
      BY <3>1
    <3>. HIDE DEF Good
    <3>. QED
      BY <3>2
  <2>. QED
    BY <1>2, <1>5, <2>2, <2>5, Zenon DEF count
<1>. QED
  BY <1>4, <1>5

\* The buckets share out the entries.
LEMMA HistogramSum ==
    ASSUME NEW files \in Seq(Seq(Lines))
    PROVE  SumFunction(LatencyHistogram(files)) = Requests(FlattenSeq(files))
<1>. DEFINE E == Entries(files)
            count == Counts(files)
            bucket == [e \in E |-> BucketOf(files, e)]
            B == {BucketOf(files, e) : e \in E}
            h == [b \in B |-> SumFunctionOnSet(count, {e \in E : BucketOf(files, e) = b})]
<1>1. /\ IsFiniteSet(E) /\ \A e \in E : count[e] \in Int
      /\ SumFunctionOnSet(count, E) = Requests(FlattenSeq(files))
  BY RequestsOfEntries, Zenon
<1>2. LatencyHistogram(files) = h
  BY Zenon DEF LatencyHistogram, Counts
<1>3. IsFiniteSet(B)
  <2>1. Range(bucket) = B
    BY DEF Range
  <2>2. bucket = [e \in E |-> bucket[e]]
    OBVIOUS
  <2>3. IsFiniteSet(Range(bucket))
    <3>. HIDE DEF bucket, E
    <3>. QED
      BY <1>1, <2>2, RangeFinite
  <2>. QED
    BY <2>1, <2>3, Zenon
<1>. HIDE DEF count
<1>4. \A e \in E : bucket[e] \in B
  OBVIOUS
<1>5. \A b \in B : h[b] = SumFunctionOnSet(count, {e \in E : bucket[e] = b})
  <2>. TAKE b \in B
  <2>1. {e \in E : bucket[e] = b} = {e \in E : BucketOf(files, e) = b}
    OBVIOUS
  <2>2. h[b] = SumFunctionOnSet(count, {e \in E : BucketOf(files, e) = b})
    OBVIOUS
  <2>. QED
    BY <2>1, <2>2, Zenon
<1>6. DOMAIN h = B
  OBVIOUS
<1>7. IsClassSum(h, count, bucket, E, B)
  <2>. HIDE DEF h, B, E, bucket
  <2>. QED
    BY <1>4, <1>5, Zenon DEF IsClassSum
<1>8. SumFunctionOnSet(h, B) = SumFunctionOnSet(count, E)
  <2>. HIDE DEF h, B, E, bucket
  <2>. QED
    BY <1>1, <1>3, <1>7, SumOfClasses
<1>. HIDE DEF h, B
<1>. QED
  BY <1>1, <1>2, <1>6, <1>8, Zenon DEF SumFunction

LEMMA HistogramRuns ==
    ASSUME StatTypeOK, kind = "histogram" PROVE runs \in Seq(Seq(Lines))
<1>1. Inputs(kind) = BoundedSeq(Lines, 2)
  BY Zenon DEF Inputs, Lines
<1>2. \A s \in BoundedSeq(Lines, 2) : s \in Seq(Lines)
  BY BoundedSeqIsSeq
<1>3. runs \in Seq(BoundedSeq(Lines, 2))
  BY <1>1 DEF StatTypeOK
<1>. QED
  BY <1>2, <1>3

\* Theorem: for every number of runs the histogram of vegeta_plots.py holds
\* each request that the histogram files of the runs count, exactly once.
THEOREM HistogramIsComplete == StatSpec => []HistogramKeepsRequests
<1>1. StatTypeOK => HistogramKeepsRequests
  <2>. SUFFICES ASSUME StatTypeOK, kind = "histogram" PROVE HistogramKeepsRequests
    BY DEF HistogramKeepsRequests
  <2>0. runs \in Seq(Seq(Lines))
    BY HistogramRuns
  <2>. DEFINE lines == FlattenSeq(runs)
              f == [i \in DOMAIN lines |-> Counted(lines[i])]
  <2>1. SumFunction(LatencyHistogram(runs)) = Requests(lines)
    BY <2>0, HistogramSum
  <2>2. lines \in Seq(Lines)
    <3>1. CASE runs = <<>>
      BY <3>1 DEF FlattenSeq
    <3>2. CASE runs # <<>>
      <4>1. PICK g \in [1 .. Len(runs) -> Seq(Lines)] : FlattenSeq(runs) = g[Len(runs)]
        BY <2>0, <3>2, FlattenIsFold
      <4>2. Len(runs) \in 1 .. Len(runs)
        BY <2>0, <3>2
      <4>. QED
        BY <4>1, <4>2
    <3>. QED
      BY <3>1, <3>2
  <2>. HIDE DEF lines
  <2>3. DOMAIN f = 1 .. Len(lines)
    BY <2>2
  <2>4. SumFunction(f) = Requests(lines)
    BY <2>3, Zenon DEF SumFunction, Requests
  <2>. QED
    BY <2>1, <2>4 DEF HistogramKeepsRequests, lines
<1>. QED
  BY <1>1, StatisticsTypeCorrect, PTL

-----------------------------------------------------------------------------
(***************************************************************************)
(* Bands.                                                                  *)
(***************************************************************************)
\* The samples of the concatenated series are the samples of the series.
LEMMA FlattenSamples ==
    ASSUME NEW C, NEW s \in Seq(Seq(C)), s # <<>>
    PROVE  /\ FlattenSeq(s) \in Seq(C)
           /\ \A r \in 1 .. Len(s) : Range(s[r]) \subseteq Range(FlattenSeq(s))
           /\ \A v \in Range(FlattenSeq(s)) : \E r \in 1 .. Len(s) : v \in Range(s[r])
<1>1. PICK n \in Nat : n = Len(s) /\ n # 0
  OBVIOUS
<1>2. PICK g \in [1 .. n -> Seq(C)] : IsFold(g, s, n) /\ FlattenSeq(s) = g[n]
  BY <1>1, FlattenIsFold
<1>3. \A r \in 1 .. n : s[r] \in Seq(C)
  BY <1>1
<1>. DEFINE Good(m) == /\ \A r \in 1 .. m : Range(s[r]) \subseteq Range(g[m])
                       /\ \A v \in Range(g[m]) : \E r \in 1 .. m : v \in Range(s[r])
            K == {m \in 0 .. n : m # 0 => Good(m)}
<1>4. 0 \in K
  <2>. HIDE DEF Good
  <2>. QED
    OBVIOUS
<1>5. ASSUME NEW m \in 0 .. n, m \in K, m < n PROVE m + 1 \in K
  <2>1. /\ m + 1 \in 0 .. n /\ m + 1 \in 1 .. n /\ (m + 1) - 1 = m /\ (m # 0 => m \in 1 .. n)
        /\ (m + 1 = 1 <=> m = 0)
        /\ \A r \in 1 .. m + 1 : r \in 1 .. m \/ r = m + 1
        /\ \A r \in 1 .. m : r \in 1 .. m + 1
        /\ m + 1 \in 1 .. m + 1
    BY <1>5
  <2>2. g[m + 1] = IF m + 1 = 1 THEN s[m + 1] ELSE g[(m + 1) - 1] \o s[m + 1]
    BY <1>2, <2>1 DEF IsFold
  <2>3. CASE m = 0
    <3>1. g[m + 1] = s[m + 1]
      BY <2>1, <2>2, <2>3, Zenon
    <3>2. \A r \in 1 .. m + 1 : r = m + 1
      BY <2>3
    <3>3. Good(m + 1)
      BY <2>1, <3>1, <3>2, Zenon
    <3>. HIDE DEF Good
    <3>. QED
      BY <2>1, <3>3
  <2>4. CASE m # 0
    <3>1. g[m + 1] = g[m] \o s[m + 1]
      BY <2>1, <2>2, <2>4, Zenon
    <3>2. g[m] \in Seq(C) /\ s[m + 1] \in Seq(C)
      <4>1. m \in 1 .. n
        BY <2>1, <2>4
      <4>. QED
        BY <1>2, <1>3, <2>1, <4>1
    <3>3. Range(g[m + 1]) = Range(g[m]) \cup Range(s[m + 1])
      BY <3>1, <3>2, RangeConcatenation
    <3>4. Good(m)
      <4>. HIDE DEF Good
      <4>. QED
        BY <1>5, <2>4
    <3>5. Good(m + 1)
      <4>1. \A r \in 1 .. m + 1 : Range(s[r]) \subseteq Range(g[m + 1])
        BY <2>1, <3>3, <3>4, Zenon
      <4>2. \A v \in Range(g[m + 1]) : \E r \in 1 .. m + 1 : v \in Range(s[r])
        BY <2>1, <3>3, <3>4, Zenon
      <4>. QED
        BY <4>1, <4>2, Zenon
    <3>. HIDE DEF Good
    <3>. QED
      BY <2>1, <3>5
  <2>. QED
    BY <2>3, <2>4
<1>6. Good(n)
  <2>1. \A m \in 0 .. n : m \in K
    <3>. HIDE DEF K
    <3>. QED
      BY <1>4, <1>5, InductionUpTo
  <2>2. n \in K
    <3>. HIDE DEF K
    <3>. QED
      BY <2>1
  <2>. HIDE DEF Good
  <2>. QED
    BY <1>1, <2>2
<1>7. g[n] \in Seq(C)
  BY <1>1, <1>2
<1>. QED
  BY <1>1, <1>2, <1>6, <1>7, Zenon

\* Padding repeats a sample of the series and keeps the ones it has.
LEMMA PadSamples ==
    ASSUME NEW s \in Seq(Nat), s # <<>>, NEW length \in Nat, NEW i \in 1 .. length
    PROVE  /\ Pad(s, length)[i] \in Range(s)
           /\ i <= Len(s) => Pad(s, length)[i] = s[i]
<1>1. PICK n \in Nat : n = Len(s) /\ n # 0
  OBVIOUS
<1>2. Pad(s, length)[i] = s[Min({i, n})]
  BY <1>1 DEF Pad
<1>3. Min({i, n}) \in {i, n} /\ Min({i, n}) <= i /\ Min({i, n}) <= n
  <2>1. IsFiniteSet({i, n})
    <3>1. IsFiniteSet({i} \cup {n}) /\ {i} \cup {n} = {i, n}
      BY FS_Singleton, FS_Union
    <3>. QED
      BY <3>1
  <2>2. {i, n} # {} /\ {i, n} \subseteq Int
    OBVIOUS
  <2>3. \A y \in {i, n} : Min({i, n}) <= y
    BY <2>1, <2>2, FiniteExtremes, Zenon
  <2>4. Min({i, n}) \in {i, n}
    BY <2>1, <2>2, FiniteExtremes, Zenon
  <2>. QED
    BY <2>3, <2>4
<1>4. PICK k \in Int : k = Min({i, n})
  BY <1>3
<1>5. k \in 1 .. n /\ (i <= n => k = i)
  BY <1>1, <1>3, <1>4
<1>6. s[k] \in Range(s)
  BY <1>1, <1>5 DEF Range
<1>. QED
  BY <1>1, <1>2, <1>4, <1>5, <1>6

\* The mark of a curve whose points all have the denominator c is on it.
LEMMA MarksExist ==
    ASSUME NEW L \in Nat \ {0}, NEW c \in Nat \ {0}, NEW t \in [1 .. L -> Int],
           NEW mean, mean = [i \in 1 .. L |-> <<t[i], c>>]
    PROVE  Low(mean) \in 1 .. L /\ Peak(mean) \in 1 .. L
<1>. DEFINE Lowest == {i \in DOMAIN mean : \A j \in DOMAIN mean : Leq(mean[i], mean[j])}
            Highest == {i \in DOMAIN mean : \A j \in DOMAIN mean : Leq(mean[j], mean[i])}
<1>1. IsFiniteSet(1 .. L) /\ 1 \in 1 .. L
  BY FS_Interval
<1>2. /\ IsFiniteSet(Range(t)) /\ Range(t) \subseteq Int /\ Range(t) # {}
      /\ \A i \in 1 .. L : t[i] \in Range(t)
      /\ \A v \in Range(t) : \E i \in 1 .. L : t[i] = v
  <2>1. t = [i \in 1 .. L |-> t[i]]
    OBVIOUS
  <2>2. IsFiniteSet(Range(t))
    BY <1>1, <2>1, RangeFinite
  <2>3. /\ Range(t) \subseteq Int /\ \A i \in 1 .. L : t[i] \in Range(t)
        /\ \A v \in Range(t) : \E i \in 1 .. L : t[i] = v
    BY DEF Range
  <2>. QED
    BY <1>1, <2>2, <2>3, Zenon
<1>3. /\ Min(Range(t)) \in Range(t) /\ \A v \in Range(t) : Min(Range(t)) <= v
      /\ Max(Range(t)) \in Range(t) /\ \A v \in Range(t) : v <= Max(Range(t))
  BY <1>2, FiniteExtremes, Zenon
<1>4. \A i, j \in 1 .. L : t[i] <= t[j] => Leq(mean[i], mean[j])
  <2>. TAKE i, j \in 1 .. L
  <2>1. PICK x \in Int, y \in Int : x = t[i] /\ y = t[j]
    OBVIOUS
  <2>2. x <= y => x * c <= y * c
    OBVIOUS
  <2>3. mean[i] = <<x, c>> /\ mean[j] = <<y, c>>
    BY <2>1
  <2>. QED
    BY <2>1, <2>2, <2>3 DEF Leq
<1>5. DOMAIN mean = 1 .. L
  OBVIOUS
<1>6. Lowest # {}
  <2>1. PICK k \in 1 .. L : t[k] = Min(Range(t))
    BY <1>2, <1>3, Zenon
  <2>2. \A j \in 1 .. L : t[k] <= t[j]
    BY <1>2, <1>3, <2>1, Zenon
  <2>3. \A j \in 1 .. L : Leq(mean[k], mean[j])
    BY <1>4, <2>2, Zenon
  <2>. QED
    BY <1>5, <2>3, Zenon
<1>7. Highest # {}
  <2>1. PICK k \in 1 .. L : t[k] = Max(Range(t))
    BY <1>2, <1>3, Zenon
  <2>2. \A j \in 1 .. L : t[j] <= t[k]
    BY <1>2, <1>3, <2>1, Zenon
  <2>3. \A j \in 1 .. L : Leq(mean[j], mean[k])
    BY <1>4, <2>2, Zenon
  <2>. QED
    BY <1>5, <2>3, Zenon
<1>8. Lowest \in SUBSET (1 .. L) /\ Highest \in SUBSET (1 .. L)
  BY <1>5, Zenon
<1>9. Low(mean) = Min(Lowest) /\ Peak(mean) = Min(Highest)
  BY Zenon DEF Low, Peak
<1>. HIDE DEF Lowest, Highest
<1>10. /\ IsFiniteSet(Lowest) /\ Lowest \subseteq Int
       /\ IsFiniteSet(Highest) /\ Highest \subseteq Int
  <2>1. IsFiniteSet(Lowest) /\ IsFiniteSet(Highest)
    BY <1>1, <1>8, FS_Subset, Zenon
  <2>2. \A i \in 1 .. L : i \in Int
    OBVIOUS
  <2>. QED
    BY <1>8, <2>1, <2>2, Zenon
<1>11. Min(Lowest) \in Lowest /\ Min(Highest) \in Highest
  BY <1>6, <1>7, <1>10, FiniteExtremes, Zenon
<1>. QED
  BY <1>8, <1>9, <1>11

\* at[i][r] is the sample of run r at tick i, V is the set of the samples.
IsBand(at, D, L, V) ==
    /\ IsFiniteSet(D) /\ D # {} /\ L \in Nat \ {0}
    /\ at = [i \in 1 .. L |-> [r \in D |-> at[i][r]]]
    /\ IsFiniteSet(V) /\ V \subseteq Nat
    /\ \A i \in 1 .. L : \A r \in D : at[i][r] \in V
    /\ \A v \in V : \E i \in 1 .. L : \E r \in D : at[i][r] = v

\* The least, the greatest and the sum of the samples at one tick.
LEMMA TickBounds ==
    ASSUME NEW at, NEW D, NEW L, NEW V, IsBand(at, D, L, V), NEW i \in 1 .. L
    PROVE  /\ Min(Range(at[i])) \in V /\ Max(Range(at[i])) \in V
           /\ \A r \in D : Min(Range(at[i])) <= at[i][r] /\ at[i][r] <= Max(Range(at[i]))
           /\ SumFunction(at[i]) \in Int
           /\ Cardinality(D) * Min(Range(at[i])) <= SumFunction(at[i])
           /\ SumFunction(at[i]) <= Cardinality(D) * Max(Range(at[i]))
           /\ Cardinality(D) \in Nat \ {0}
<1>1. PICK f : f = at[i]
  OBVIOUS
<1>2. /\ f = [r \in D |-> f[r]] /\ DOMAIN f = D /\ IsFiniteSet(D) /\ D # {}
      /\ \A r \in D : f[r] \in V
      /\ V \subseteq Nat
  BY <1>1 DEF IsBand
<1>3. /\ IsFiniteSet(Range(f)) /\ Range(f) # {} /\ Range(f) \subseteq V
      /\ Range(f) \subseteq Int
      /\ \A r \in D : f[r] \in Range(f)
  <2>1. IsFiniteSet(Range(f))
    BY <1>2, RangeFinite
  <2>2. Range(f) # {} /\ Range(f) \subseteq V /\ \A r \in D : f[r] \in Range(f)
    <3>1. Range(f) = {f[r] : r \in D}
      BY <1>2, Zenon DEF Range
    <3>. QED
      BY <1>2, <3>1
  <2>. QED
    BY <1>2, <2>1, <2>2
<1>4. /\ Min(Range(f)) \in Range(f) /\ \A v \in Range(f) : Min(Range(f)) <= v
      /\ Max(Range(f)) \in Range(f) /\ \A v \in Range(f) : v <= Max(Range(f))
  BY <1>3, FiniteExtremes, Zenon
<1>5. PICK lo \in Int, hi \in Int : lo = Min(Range(f)) /\ hi = Max(Range(f))
  BY <1>3, <1>4
<1>6. \A r \in D : f[r] \in Int /\ lo <= f[r] /\ f[r] <= hi
  BY <1>3, <1>4, <1>5
<1>7. Cardinality(D) * lo <= SumFunctionOnSet(f, D) /\ SumFunctionOnSet(f, D) <= Cardinality(D) * hi
  BY <1>2, <1>6, SumBounds
<1>8. SumFunctionOnSet(f, D) \in Int
  BY <1>2, <1>6, SumType
<1>9. SumFunction(f) = SumFunctionOnSet(f, D)
  BY <1>2, Zenon DEF SumFunction
<1>10. Cardinality(D) \in Nat \ {0}
  <2>1. Cardinality(D) \in Nat
    BY <1>2, FS_CardinalityType
  <2>2. Cardinality(D) # 0
    BY <1>2, FS_EmptySet, Zenon
  <2>. QED
    BY <2>1, <2>2
<1>11. Min(Range(f)) \in V /\ Max(Range(f)) \in V
  BY <1>3, <1>4
<1>. QED
  BY <1>1, <1>5, <1>6, <1>7, <1>8, <1>9, <1>10, <1>11, Zenon

LEMMA BandBounds ==
    ASSUME NEW at, NEW D, NEW L, NEW V, IsBand(at, D, L, V),
           NEW mean, mean = [i \in 1 .. L |-> <<SumFunction(at[i]), Cardinality(D)>>],
           NEW min, min = [i \in 1 .. L |-> Min(Range(at[i]))],
           NEW max, max = [i \in 1 .. L |-> Max(Range(at[i]))]
    PROVE  /\ \A i \in 1 .. L :
                 Leq(Whole(min[i]), mean[i]) /\ Leq(mean[i], Whole(max[i]))
           /\ Leq(Whole(Min(V)), mean[Low(mean)])
           /\ Leq(mean[Peak(mean)], Whole(Max(V)))
           /\ Same(Whole(Min(V)), Whole(Min(Range(min))))
           /\ Same(Whole(Max(V)), Whole(Max(Range(max))))
<1>0. L \in Nat \ {0} /\ 1 \in 1 .. L /\ IsFiniteSet(1 .. L)
  <2>1. L \in Nat \ {0}
    BY DEF IsBand
  <2>. QED
    BY <2>1, FS_Interval
<1>1. PICK c \in Nat \ {0} : c = Cardinality(D)
  BY <1>0, TickBounds
<1>. DEFINE t == [i \in 1 .. L |-> SumFunction(at[i])]
<1>2. t \in [1 .. L -> Int] /\ \A i \in 1 .. L : mean[i] = <<t[i], c>>
  <2>1. \A i \in 1 .. L : SumFunction(at[i]) \in Int
    BY TickBounds
  <2>. QED
    BY <1>1, <2>1
<1>3. mean = [i \in 1 .. L |-> <<t[i], c>>]
  BY <1>1
<1>. HIDE DEF t
<1>4. \A i \in 1 .. L :
        /\ min[i] \in V /\ max[i] \in V /\ min[i] \in Nat /\ max[i] \in Nat /\ t[i] \in Int
        /\ c * min[i] <= t[i] /\ t[i] <= c * max[i]
        /\ \A r \in D : min[i] <= at[i][r] /\ at[i][r] <= max[i]
  <2>. TAKE i \in 1 .. L
  <2>1. min[i] = Min(Range(at[i])) /\ max[i] = Max(Range(at[i])) /\ t[i] = SumFunction(at[i])
    BY DEF t
  <2>2. /\ Min(Range(at[i])) \in V /\ Max(Range(at[i])) \in V
        /\ \A r \in D : Min(Range(at[i])) <= at[i][r] /\ at[i][r] <= Max(Range(at[i]))
        /\ SumFunction(at[i]) \in Int
        /\ Cardinality(D) * Min(Range(at[i])) <= SumFunction(at[i])
        /\ SumFunction(at[i]) <= Cardinality(D) * Max(Range(at[i]))
    BY TickBounds, Zenon
  <2>3. \A v \in V : v \in Nat
    BY DEF IsBand
  <2>. QED
    BY <1>1, <2>1, <2>2, <2>3, Zenon
<1>5. \A i \in 1 .. L : Leq(Whole(min[i]), mean[i]) /\ Leq(mean[i], Whole(max[i]))
  <2>. TAKE i \in 1 .. L
  <2>1. PICK x \in Nat, y \in Nat, z \in Int : x = min[i] /\ y = max[i] /\ z = t[i]
    BY <1>4
  <2>2. c * x <= z /\ z <= c * y
    BY <1>4, <2>1, Zenon
  <2>3. x * c <= z * 1 /\ z * 1 <= y * c
    BY <2>2
  <2>4. mean[i] = <<z, c>>
    BY <1>2, <2>1
  <2>. QED
    BY <2>1, <2>3, <2>4 DEF Leq, Whole
<1>6. /\ IsFiniteSet(V) /\ V \subseteq Int /\ V # {} /\ V \subseteq Nat
  BY <1>0, <1>4 DEF IsBand
<1>7. /\ Min(V) \in V /\ \A v \in V : Min(V) <= v
      /\ Max(V) \in V /\ \A v \in V : v <= Max(V)
  BY <1>6, FiniteExtremes, Zenon
<1>8. PICK lo \in Nat, hi \in Nat : lo = Min(V) /\ hi = Max(V)
  BY <1>6, <1>7
<1>9. Low(mean) \in 1 .. L /\ Peak(mean) \in 1 .. L
  BY <1>0, <1>2, <1>3, MarksExist
<1>10. ASSUME NEW i \in 1 .. L
       PROVE  Leq(Whole(lo), mean[i]) /\ Leq(mean[i], Whole(hi))
  <2>1. PICK x \in Nat, y \in Nat, z \in Int : x = min[i] /\ y = max[i] /\ z = t[i]
    BY <1>4
  <2>2. c * x <= z /\ z <= c * y
    BY <1>4, <2>1, Zenon
  <2>3. lo <= x /\ y <= hi
    BY <1>4, <1>7, <1>8, <2>1, Zenon
  <2>4. c * lo <= c * x /\ c * y <= c * hi
    BY <2>3
  <2>5. lo * c <= z * 1 /\ z * 1 <= hi * c
    <3>1. PICK a \in Int, b \in Int, d \in Int, e \in Int :
            a = c * lo /\ b = c * x /\ d = c * y /\ e = c * hi
      OBVIOUS
    <3>2. a <= z /\ z <= e
      BY <2>2, <2>4, <3>1
    <3>. QED
      BY <3>1, <3>2
  <2>6. mean[i] = <<z, c>>
    BY <1>2, <2>1
  <2>. QED
    BY <2>5, <2>6 DEF Leq, Whole
<1>11. /\ IsFiniteSet(Range(min)) /\ Range(min) # {} /\ Range(min) \subseteq V
       /\ \A i \in 1 .. L : min[i] \in Range(min)
       /\ IsFiniteSet(Range(max)) /\ Range(max) # {} /\ Range(max) \subseteq V
       /\ \A i \in 1 .. L : max[i] \in Range(max)
  <2>1. /\ min = [i \in 1 .. L |-> min[i]] /\ max = [i \in 1 .. L |-> max[i]]
        /\ DOMAIN min = 1 .. L /\ DOMAIN max = 1 .. L
    OBVIOUS
  <2>2. IsFiniteSet(Range(min)) /\ IsFiniteSet(Range(max))
    BY <1>0, <2>1, RangeFinite
  <2>3. Range(min) = {min[i] : i \in 1 .. L} /\ Range(max) = {max[i] : i \in 1 .. L}
    BY <2>1, Zenon DEF Range
  <2>4. \A i \in 1 .. L : min[i] \in V /\ max[i] \in V
    BY <1>4
  <2>5. /\ \A i \in 1 .. L : min[i] \in Range(min) /\ max[i] \in Range(max)
        /\ Range(min) \subseteq V /\ Range(max) \subseteq V
    BY <2>3, <2>4, Zenon
  <2>. QED
    BY <1>0, <2>2, <2>5, Zenon
<1>12. Range(min) \subseteq Int /\ Range(max) \subseteq Int
  BY <1>6, <1>11
<1>13. /\ Min(Range(min)) \in Range(min) /\ \A v \in Range(min) : Min(Range(min)) <= v
       /\ Max(Range(max)) \in Range(max) /\ \A v \in Range(max) : v <= Max(Range(max))
  BY <1>11, <1>12, FiniteExtremes, Zenon
<1>14. PICK x \in Nat, y \in Nat : x = Min(Range(min)) /\ y = Max(Range(max))
  BY <1>6, <1>11, <1>13
<1>15. lo <= x /\ y <= hi
  BY <1>7, <1>8, <1>11, <1>13, <1>14
<1>16. x <= lo
  <2>1. PICK i \in 1 .. L : \E r \in D : at[i][r] = lo
    BY <1>7, <1>8 DEF IsBand
  <2>2. min[i] <= lo /\ min[i] \in Nat
    BY <1>4, <2>1, Zenon
  <2>3. x <= min[i]
    BY <1>11, <1>13, <1>14, Zenon
  <2>. QED
    BY <2>2, <2>3
<1>17. hi <= y
  <2>1. PICK i \in 1 .. L : \E r \in D : at[i][r] = hi
    BY <1>7, <1>8 DEF IsBand
  <2>2. hi <= max[i] /\ max[i] \in Nat
    BY <1>4, <2>1, Zenon
  <2>3. max[i] <= y
    BY <1>11, <1>13, <1>14, Zenon
  <2>. QED
    BY <2>2, <2>3
<1>18. x = lo /\ y = hi
  BY <1>15, <1>16, <1>17
<1>19. Same(Whole(lo), Whole(x)) /\ Same(Whole(hi), Whole(y))
  BY <1>18 DEF Same, Leq, Whole
<1>. QED
  BY <1>5, <1>8, <1>9, <1>10, <1>14, <1>19, Zenon

\* D is the runs that have samples, L the length of the longest, and at their
\* padded samples, tick by tick.
IsPadded(at, list, D, L) ==
    /\ D = {r \in 1 .. Len(list) : list[r] # <<>>}
    /\ L = Max({Len(Series(list)[r]) : r \in DOMAIN Series(list)})
    /\ at = [i \in 1 .. L |-> [r \in D |-> Pad(Series(list)[r], L)[i]]]

\* The band of the series of a dataset, and the samples it is about.
LEMMA SeriesBand ==
    ASSUME NEW list \in Seq(Seq(Nat)), NEW D, D # {}, NEW L, NEW at, IsPadded(at, list, D, L)
    PROVE  /\ DOMAIN Series(list) = D
           /\ FlattenSeq(list) # <<>>
           /\ IsBand(at, D, L, Range(FlattenSeq(list)))
<1>. USE DEF IsPadded
<1>1. PICK n \in Nat : n = Len(list)
  OBVIOUS
<1>2. DOMAIN Series(list) = D /\ \A r \in D : Series(list)[r] = list[r]
  <2>1. DOMAIN list = 1 .. n
    BY <1>1
  <2>. QED
    BY <1>1, <2>1 DEF Series, RestrictValues, Restrict
<1>3. \A r \in D : r \in 1 .. n /\ list[r] \in Seq(Nat) /\ list[r] # <<>>
  BY <1>1
<1>4. IsFiniteSet(D) /\ list # <<>>
  <2>1. IsFiniteSet(1 .. n)
    BY FS_Interval
  <2>2. D \in SUBSET (1 .. n)
    BY <1>3
  <2>3. IsFiniteSet(D)
    BY <2>1, <2>2, FS_Subset, Zenon
  <2>4. n # 0
    BY <1>3
  <2>. QED
    BY <1>1, <2>3, <2>4
<1>. DEFINE len == [r \in D |-> Len(list[r])]
<1>5. {Len(Series(list)[r]) : r \in DOMAIN Series(list)} = Range(len)
  <2>1. {Len(Series(list)[r]) : r \in DOMAIN Series(list)} = {Len(list[r]) : r \in D}
    BY <1>2
  <2>2. Range(len) = {Len(list[r]) : r \in D}
    BY DEF Range
  <2>. QED
    BY <2>1, <2>2, Zenon
<1>6. /\ \A r \in D : len[r] = Len(list[r]) /\ len[r] \in Nat \ {0}
      /\ len = [r \in D |-> len[r]] /\ DOMAIN len = D
  BY <1>3
<1>. HIDE DEF len
<1>7. /\ IsFiniteSet(Range(len)) /\ Range(len) # {} /\ Range(len) \subseteq Nat \ {0}
      /\ \A r \in D : len[r] \in Range(len)
  <2>1. IsFiniteSet(Range(len))
    BY <1>4, <1>6, RangeFinite
  <2>2. Range(len) = {len[r] : r \in D}
    BY <1>6, Zenon DEF Range
  <2>. QED
    BY <1>6, <2>1, <2>2
<1>8. L \in Nat \ {0} /\ \A r \in D : Len(list[r]) <= L
  <2>0. Range(len) \subseteq Int
    BY <1>7
  <2>1. Range(len) \subseteq Int /\ L = Max(Range(len))
    BY <1>5, <2>0, Zenon
  <2>2. L \in Range(len) /\ \A y \in Range(len) : y <= L
    BY <1>7, <2>1, FiniteExtremes, Zenon
  <2>. QED
    BY <1>6, <1>7, <2>2
<1>9. \A i \in 1 .. L : \A r \in D :
        /\ at[i][r] \in Range(list[r])
        /\ i <= Len(list[r]) => at[i][r] = list[r][i]
  <2>. TAKE i \in 1 .. L
  <2>. TAKE r \in D
  <2>1. at[i][r] = Pad(list[r], L)[i]
    BY <1>2
  <2>2. L \in Nat
    BY <1>8
  <2>3. /\ Pad(list[r], L)[i] \in Range(list[r])
        /\ i <= Len(list[r]) => Pad(list[r], L)[i] = list[r][i]
    BY <1>3, <2>2, PadSamples
  <2>. QED
    BY <2>1, <2>3, Zenon
<1>. DEFINE flat == FlattenSeq(list)
<1>10. /\ flat \in Seq(Nat)
       /\ \A r \in 1 .. n : Range(list[r]) \subseteq Range(flat)
       /\ \A v \in Range(flat) : \E r \in 1 .. n : v \in Range(list[r])
  BY <1>1, <1>4, FlattenSamples
<1>. HIDE DEF flat
<1>11. flat # <<>>
  <2>1. PICK r \in D : TRUE
    OBVIOUS
  <2>2. 1 \in 1 .. L
    BY <1>8
  <2>3. at[1][r] \in Range(flat)
    BY <1>3, <1>9, <1>10, <2>1, <2>2, Zenon
  <2>4. Range(<<>>) = {}
    BY DEF Range
  <2>. QED
    BY <2>3, <2>4
<1>12. IsFiniteSet(Range(flat)) /\ Range(flat) \subseteq Nat
  BY <1>10, <1>11, SampleExtremes
<1>13. \A i \in 1 .. L : \A r \in D : at[i][r] \in Range(flat)
  BY <1>3, <1>9, <1>10, Zenon
<1>14. ASSUME NEW v \in Range(flat) PROVE \E i \in 1 .. L : \E r \in D : at[i][r] = v
  <2>1. PICK r \in 1 .. n : v \in Range(list[r])
    BY <1>10
  <2>2. list[r] \in Seq(Nat) /\ list[r] # <<>>
    <3>1. Range(<<>>) = {}
      BY DEF Range
    <3>. QED
      BY <1>1, <2>1, <3>1
  <2>3. r \in D
    BY <1>1, <2>2
  <2>4. PICK i \in 1 .. Len(list[r]) : list[r][i] = v
    BY <2>1, <2>2, SampleExtremes
  <2>5. PICK m \in Nat : m = Len(list[r]) /\ m <= L
    <3>1. Len(list[r]) \in Nat
      BY <2>2
    <3>. QED
      BY <1>8, <2>3, <3>1, Zenon
  <2>6. i \in 1 .. L /\ i <= m
    BY <1>8, <2>5
  <2>7. at[i][r] = v
    BY <1>9, <2>3, <2>4, <2>5, <2>6, Zenon
  <2>. QED
    BY <2>3, <2>6, <2>7
<1>15. at = [i \in 1 .. L |-> [r \in D |-> at[i][r]]]
  OBVIOUS
<1>16. IsBand(at, D, L, Range(flat))
  BY <1>4, <1>8, <1>12, <1>13, <1>14, <1>15, Zenon DEF IsBand
<1>. QED
  BY <1>2, <1>11, <1>16, Zenon DEF flat

LEMMA SeriesRuns ==
    ASSUME StatTypeOK, kind = "series" PROVE runs \in Seq(Seq(Nat))
<1>1. Inputs(kind) = BoundedSeq(0 .. MaxSample, MaxTicks)
  BY Zenon DEF Inputs
<1>2. \A s \in BoundedSeq(0 .. MaxSample, MaxTicks) : s \in Seq(Nat)
  <2>. TAKE s \in BoundedSeq(0 .. MaxSample, MaxTicks)
  <2>1. MaxTicks \in Nat
    BY StatisticsBounds
  <2>2. s \in Seq(0 .. MaxSample)
    BY <2>1, BoundedSeqIsSeq
  <2>. QED
    BY <2>2, StatisticsBounds
<1>3. runs \in Seq(BoundedSeq(0 .. MaxSample, MaxTicks))
  BY <1>1 DEF StatTypeOK
<1>. QED
  BY <1>2, <1>3

\* Theorem: for every number of runs and of samples the mean curve that
\* system_plots.py draws stays inside its envelope, its marks stay inside the
\* distribution of the same samples, and the envelope reaches the extremes of
\* that distribution: padding a short run invents nothing.
THEOREM BandIsWithinDistribution == StatSpec => []BandWithinDistribution
<1>1. StatTypeOK => BandWithinDistribution
  <2>. SUFFICES ASSUME StatTypeOK, kind = "series" PROVE BandWithinDistribution
    BY DEF BandWithinDistribution
  <2>0. runs \in Seq(Seq(Nat))
    BY SeriesRuns
  <2>. DEFINE band == Aggregate(Series(runs))
              flat == FlattenSeq(runs)
  <2>1. CASE DOMAIN Series(runs) = {}
    <3>1. band.mean = <<>>
      BY <2>1 DEF Aggregate
    <3>. HIDE DEF band
    <3>. QED
      BY <3>1, Zenon DEF BandWithinDistribution, band
  <2>2. CASE DOMAIN Series(runs) # {}
    <3>1. PICK D : D = {r \in 1 .. Len(runs) : runs[r] # <<>>}
      OBVIOUS
    <3>2. DOMAIN Series(runs) = D
      <4>1. DOMAIN runs = 1 .. Len(runs)
        BY <2>0
      <4>. QED
        BY <3>1, <4>1 DEF Series, RestrictValues, Restrict
    <3>3. D # {}
      BY <2>2, <3>2, Zenon
    <3>4. PICK L : L = Max({Len(Series(runs)[r]) : r \in DOMAIN Series(runs)})
      OBVIOUS
    <3>5. PICK at : at = [i \in 1 .. L |-> [r \in D |-> Pad(Series(runs)[r], L)[i]]]
      OBVIOUS
    <3>6. flat # <<>> /\ IsBand(at, D, L, Range(flat))
      <4>1. IsPadded(at, runs, D, L)
        BY <3>1, <3>4, <3>5, Zenon DEF IsPadded
      <4>. QED
        BY <2>0, <3>3, <4>1, SeriesBand
    <3>. DEFINE mean == [i \in 1 .. L |-> <<SumFunction(at[i]), Cardinality(D)>>]
                min == [i \in 1 .. L |-> Min(Range(at[i]))]
                max == [i \in 1 .. L |-> Max(Range(at[i]))]
    <3>7. band = [mean |-> mean, min |-> min, max |-> max]
      <4>1. \A i \in 1 .. L : at[i] = [r \in D |-> Pad(Series(runs)[r], L)[i]]
        BY <3>5
      <4>2. Aggregate(Series(runs)) =
              [mean |-> [i \in 1 .. L |->
                           <<SumFunction([r \in D |-> Pad(Series(runs)[r], L)[i]]),
                             Cardinality(D)>>],
               min |-> [i \in 1 .. L |-> Min(Range([r \in D |-> Pad(Series(runs)[r], L)[i]]))],
               max |-> [i \in 1 .. L |-> Max(Range([r \in D |-> Pad(Series(runs)[r], L)[i]]))]]
        BY <3>2, <3>3, <3>4, Zenon DEF Aggregate
      <4>3. /\ mean = [i \in 1 .. L |->
                         <<SumFunction([r \in D |-> Pad(Series(runs)[r], L)[i]]),
                           Cardinality(D)>>]
            /\ min = [i \in 1 .. L |-> Min(Range([r \in D |-> Pad(Series(runs)[r], L)[i]]))]
            /\ max = [i \in 1 .. L |-> Max(Range([r \in D |-> Pad(Series(runs)[r], L)[i]]))]
        BY <4>1, Zenon
      <4>. HIDE DEF mean, min, max
      <4>. QED
        BY <4>2, <4>3, Zenon
    <3>8. DOMAIN mean = 1 .. L
      OBVIOUS
    <3>9. /\ mean = [i \in 1 .. L |-> <<SumFunction(at[i]), Cardinality(D)>>]
          /\ min = [i \in 1 .. L |-> Min(Range(at[i]))]
          /\ max = [i \in 1 .. L |-> Max(Range(at[i]))]
      OBVIOUS
    <3>. HIDE DEF mean, min, max, band, flat
    <3>10. /\ \A i \in 1 .. L :
                 Leq(Whole(min[i]), mean[i]) /\ Leq(mean[i], Whole(max[i]))
           /\ Leq(Whole(Min(Range(flat))), mean[Low(mean)])
           /\ Leq(mean[Peak(mean)], Whole(Max(Range(flat))))
           /\ Same(Whole(Min(Range(flat))), Whole(Min(Range(min))))
           /\ Same(Whole(Max(Range(flat))), Whole(Max(Range(max))))
      BY <3>6, <3>9, BandBounds
    <3>11. /\ Distribution(runs).min = Whole(Min(Range(flat)))
           /\ Distribution(runs).max = Whole(Max(Range(flat)))
      BY <3>6 DEF Distribution, Summarize, Minimum, Maximum, flat
    <3>12. band.mean = mean /\ band.min = min /\ band.max = max
      BY <3>7
    <3>. QED
      BY <3>8, <3>10, <3>11, <3>12, Zenon DEF BandWithinDistribution, band
  <2>. QED
    BY <2>1, <2>2
<1>. QED
  BY <1>1, StatisticsTypeCorrect, PTL

=============================================================================
