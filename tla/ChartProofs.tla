----------------------------- MODULE ChartProofs ----------------------------
(***************************************************************************)
(* What holds of the charts, for any panels, samples, numbers of buckets,  *)
(* points and columns: the blocks are apart, no sample is dropped,         *)
(* percentiles are of nearest rank, markers stand on bars and timelines    *)
(* stay inside.                                                            *)
(* Three arguments: the steps of render take up no more of the height than *)
(* it was given; the samples up to the k-th in order are k, so each rank   *)
(* has its sample; and the first column whose chunk is cut short is last.  *)
(***************************************************************************)
EXTENDS Chart, FiniteSetTheorems, TLAPS

(* What holds of 0, and of the successor of what it holds of, holds of     *)
(* every number: as a statement about sets.                                *)
LEMMA SetInduction ==
  ASSUME NEW C, 0 \in C, \A m \in Nat : m \in C => m + 1 \in C
  PROVE  Nat \subseteq C
<1> DEFINE Bad == Nat \ C
<1>1. SUFFICES ASSUME Bad # {} PROVE FALSE
  OBVIOUS
<1>2. PICK m \in Bad : \A l \in Bad : <<l, m>> \notin OpToRel(<, Nat)
  BY <1>1, WFMin, NatLessThanWellFounded
<1>3. \A l \in Bad : ~(l < m)
  BY <1>2 DEF OpToRel
<1>4. m # 0 /\ m \in Nat
  BY <1>2
<1>5. m - 1 \in Nat /\ m - 1 < m
  BY <1>4
<1>6. m - 1 \in C
  BY <1>3, <1>5
<1>7. (m - 1) + 1 \in C
  BY <1>5, <1>6
<1>8. (m - 1) + 1 = m
  BY <1>4
<1> QED BY <1>2, <1>7, <1>8

-----------------------------------------------------------------------------
(* The order of the samples.                                               *)

(* The indices of a sequence, counted.                                     *)
LEMMA IndicesFinite ==
  ASSUME NEW m \in Nat
  PROVE  IsFiniteSet(1 .. m) /\ Cardinality(1 .. m) = m
<1>1. /\ IsFiniteSet(1 .. m)
      /\ Cardinality(1 .. m) = IF 1 > m THEN 0 ELSE m - 1 + 1
  BY FS_Interval
<1> QED BY <1>1

(* The samples up to one are some of the samples, and at least one.        *)
LEMMA UpToFinite ==
  ASSUME NEW s \in Seq(Nat), NEW i \in 1 .. Len(s)
  PROVE  /\ UpTo(s, i) \subseteq 1 .. Len(s) /\ i \in UpTo(s, i)
         /\ IsFiniteSet(UpTo(s, i))
         /\ Cardinality(UpTo(s, i)) \in 1 .. Len(s)
<1>1. UpTo(s, i) \subseteq 1 .. Len(s) /\ i \in UpTo(s, i)
  BY DEF UpTo
<1>2. IsFiniteSet(1 .. Len(s)) /\ Cardinality(1 .. Len(s)) = Len(s)
  BY IndicesFinite
<1>3. IsFiniteSet(UpTo(s, i)) /\ Cardinality(UpTo(s, i)) <= Len(s)
  BY <1>1, <1>2, FS_Subset
<1>4. Cardinality(UpTo(s, i)) \in Nat
  BY <1>3, FS_CardinalityType
<1>5. Cardinality(UpTo(s, i)) # 0
  BY <1>1, <1>3, FS_EmptySet
<1> QED BY <1>1, <1>3, <1>4, <1>5

(* What comes before a sample comes before every later one, and the later  *)
(* one does not come before it.                                            *)
LEMMA UpToGrows ==
  ASSUME NEW s \in Seq(Nat), NEW i \in 1 .. Len(s), NEW j \in 1 .. Len(s),
         s[i] < s[j] \/ (s[i] = s[j] /\ i < j)
  PROVE  Cardinality(UpTo(s, i)) < Cardinality(UpTo(s, j))
<1>0. \A k \in 1 .. Len(s) : s[k] \in Nat
  OBVIOUS
<1>1. UpTo(s, i) \subseteq UpTo(s, j)
  BY <1>0 DEF UpTo
<1>2. j \in UpTo(s, j) /\ j \notin UpTo(s, i)
  BY <1>0 DEF UpTo
<1>3. /\ Cardinality(UpTo(s, i)) <= Cardinality(UpTo(s, j))
      /\ Cardinality(UpTo(s, i)) # Cardinality(UpTo(s, j))
  BY <1>1, <1>2, UpToFinite, FS_Subset
<1> QED BY <1>3, UpToFinite

(* A sequence of n samples has one that is the k-th in order, for every k. *)
LEMMA Place ==
  ASSUME NEW s \in Seq(Nat), NEW k \in 1 .. Len(s)
  PROVE  \E i \in 1 .. Len(s) :
           Cardinality(UpTo(s, i)) = k /\ Sorted(s, k) = s[i]
<1> DEFINE D == 1 .. Len(s)
           place == [i \in D |-> Cardinality(UpTo(s, i))]
<1>1. place \in [D -> D]
  BY UpToFinite
<1>2. ASSUME NEW i \in D, NEW j \in D, place[i] = place[j] PROVE i = j
  <2>1. Cardinality(UpTo(s, i)) = Cardinality(UpTo(s, j))
    BY <1>2
  <2>2. Cardinality(UpTo(s, i)) \in Nat
    BY UpToFinite
  <2>3. ~(s[i] < s[j]) /\ ~(s[i] = s[j] /\ i < j)
    BY <2>1, <2>2, UpToGrows
  <2>4. ~(s[j] < s[i]) /\ ~(s[i] = s[j] /\ j < i)
    BY <2>1, <2>2, UpToGrows
  <2>5. s[i] \in Nat /\ s[j] \in Nat
    OBVIOUS
  <2> QED BY <2>3, <2>4, <2>5
<1>3. place \in Injection(D, D)
  BY <1>1, <1>2 DEF Injection, IsInjective
<1>4. IsFiniteSet(D)
  BY FS_Interval
<1>5. place \in Surjection(D, D)
  BY <1>3, <1>4, FS_Injection
<1>6. \E i \in D : place[i] = k
  BY <1>5 DEF Surjection
<1> QED BY <1>6 DEF Sorted

(* In order, the samples ascend.                                           *)
LEMMA SortedAscends ==
  ASSUME NEW s \in Seq(Nat), NEW k \in 1 .. Len(s), NEW l \in 1 .. Len(s),
         k <= l
  PROVE  Sorted(s, k) <= Sorted(s, l) /\ Sorted(s, k) \in Nat
<1>1. PICK i \in 1 .. Len(s) :
        Cardinality(UpTo(s, i)) = k /\ Sorted(s, k) = s[i]
  BY Place
<1>2. PICK j \in 1 .. Len(s) :
        Cardinality(UpTo(s, j)) = l /\ Sorted(s, l) = s[j]
  BY Place
<1>3. ~(s[j] < s[i])
  BY <1>1, <1>2, UpToGrows
<1>4. s[i] \in Nat /\ s[j] \in Nat
  OBVIOUS
<1> QED BY <1>1, <1>2, <1>3, <1>4

(* The quantiles that are printed.                                         *)
LEMMA Names == DOMAIN Quantile = {"p50", "p90", "p99", "p999"}
BY DEF Quantile

(* The rank of a quantile is that of a sample; it is no less than the      *)
(* share of the samples, and less than one more.                           *)
LEMMA RankBounds ==
  ASSUME NEW name \in DOMAIN Quantile, NEW m \in Nat \ {0}
  PROVE  LET q == Quantile[name]
             r == Rank(q, m)
         IN  /\ r \in 1 .. m /\ q[1] \in Nat /\ q[2] \in Nat
             /\ q[1] * m <= q[2] * r
             /\ q[2] * (r - 1) < q[1] * m
<1>1. CASE name = "p50"
  BY <1>1 DEF Quantile, Rank
<1>2. CASE name = "p90"
  BY <1>2 DEF Quantile, Rank
<1>3. CASE name = "p99"
  BY <1>3 DEF Quantile, Rank
<1>4. CASE name = "p999"
  BY <1>4 DEF Quantile, Rank
<1> QED BY <1>1, <1>2, <1>3, <1>4, Names

(* The index that percentile reads is in range without the min.            *)
LEMMA PercentileIsSorted ==
  ASSUME NEW s \in Seq(Nat), s # << >>, NEW name \in DOMAIN Quantile
  PROVE  percentile(s, Quantile[name])
           = Sorted(s, Rank(Quantile[name], Len(s)))
<1>1. Len(s) \in Nat \ {0}
  OBVIOUS
<1>2. Rank(Quantile[name], Len(s)) \in 1 .. Len(s)
  BY <1>1, RankBounds
<1> QED BY <1>2 DEF percentile

(* A product grows with its second factor.                                 *)
LEMMA TimesMonotone ==
  ASSUME NEW a \in Nat, NEW b \in Nat, NEW k \in Nat, a <= b
  PROVE  k * a <= k * b
<1>1. PICK d \in Nat : b = a + d
  BY b - a \in Nat
<1>2. k * b = k * a + k * d /\ k * d \in Nat /\ k * a \in Nat
  BY <1>1
<1> QED BY <1>2

(* From samples to shares of them, on either side of a rank.               *)
LEMMA SharesAround ==
  ASSUME NEW c \in Nat, NEW d \in Nat, NEW m \in Nat, NEW r \in Nat \ {0},
         NEW high \in Nat, NEW low \in Nat,
         c * m <= d * r, d * (r - 1) < c * m, r <= high, low <= r - 1
  PROVE  c * m <= d * high /\ d * low < c * m
<1>1. r - 1 \in Nat
  OBVIOUS
<1>2. d * r <= d * high /\ d * low <= d * (r - 1)
  BY <1>1, TimesMonotone
<1>3. /\ c * m \in Nat /\ d * r \in Nat /\ d * high \in Nat
      /\ d * low \in Nat /\ d * (r - 1) \in Nat
  BY <1>1
<1> QED BY <1>2, <1>3

(* At most the k-th sample in order are at least k of them, and below it   *)
(* are fewer.                                                              *)
LEMMA SamplesAround ==
  ASSUME NEW s \in Seq(Nat), NEW k \in 1 .. Len(s)
  PROVE  LET v == Sorted(s, k)
         IN  /\ IsFiniteSet(AtMost(s, v)) /\ IsFiniteSet(Below(s, v))
             /\ Cardinality(AtMost(s, v)) \in Nat
             /\ Cardinality(Below(s, v)) \in Nat
             /\ k <= Cardinality(AtMost(s, v))
             /\ Cardinality(Below(s, v)) <= k - 1
<1> DEFINE v == Sorted(s, k)
<1>1. PICK i \in 1 .. Len(s) : Cardinality(UpTo(s, i)) = k /\ v = s[i]
  BY Place
<1>2. \A j \in 1 .. Len(s) : s[j] \in Nat
  OBVIOUS
<1>3. UpTo(s, i) \subseteq AtMost(s, v)
  BY <1>1, <1>2 DEF UpTo, AtMost
<1>4. Below(s, v) \subseteq UpTo(s, i) \ {i}
  BY <1>1, <1>2 DEF UpTo, Below
<1>5. AtMost(s, v) \subseteq 1 .. Len(s) /\ Below(s, v) \subseteq 1 .. Len(s)
  BY DEF AtMost, Below
<1>6. IsFiniteSet(1 .. Len(s))
  BY IndicesFinite
<1>7. IsFiniteSet(AtMost(s, v)) /\ IsFiniteSet(Below(s, v))
  BY <1>5, <1>6, FS_Subset
<1>8. /\ Cardinality(AtMost(s, v)) \in Nat
      /\ Cardinality(Below(s, v)) \in Nat
  BY <1>7, FS_CardinalityType
<1>9. k <= Cardinality(AtMost(s, v))
  BY <1>1, <1>3, <1>7, FS_Subset
<1>10. /\ IsFiniteSet(UpTo(s, i) \ {i})
       /\ Cardinality(UpTo(s, i) \ {i}) = k - 1
  BY <1>1, UpToFinite, FS_RemoveElement
<1>11. Cardinality(Below(s, v)) <= k - 1
  BY <1>4, <1>10, FS_Subset
<1> QED BY <1>7, <1>8, <1>9, <1>11

(* Each percentile is the smallest sample that its share does not exceed.  *)
LEMMA PercentileIsNearestRank ==
  ASSUME NEW s \in Seq(Nat), s # << >>, NEW name \in DOMAIN Quantile
  PROVE  IsNearestRank(s, percentile(s, Quantile[name]), Quantile[name])
<1> DEFINE q == Quantile[name]
           r == Rank(q, Len(s))
           v == Sorted(s, r)
<1>1. Len(s) \in Nat \ {0}
  OBVIOUS
<1>2. /\ r \in 1 .. Len(s) /\ q[1] \in Nat /\ q[2] \in Nat
      /\ q[1] * Len(s) <= q[2] * r
      /\ q[2] * (r - 1) < q[1] * Len(s)
  BY <1>1, RankBounds
<1> HIDE DEF q, r
<1>3. /\ Cardinality(AtMost(s, v)) \in Nat
      /\ Cardinality(Below(s, v)) \in Nat
      /\ r <= Cardinality(AtMost(s, v))
      /\ Cardinality(Below(s, v)) <= r - 1
  BY <1>2, SamplesAround
<1>4. percentile(s, q) = v
  BY PercentileIsSorted DEF q, r
<1> HIDE DEF v
<1>5. /\ q[1] * Len(s) <= q[2] * Cardinality(AtMost(s, v))
      /\ q[2] * Cardinality(Below(s, v)) < q[1] * Len(s)
  <2>1. r \in Nat \ {0} /\ Len(s) \in Nat
    BY <1>1, <1>2
  <2> QED BY <1>2, <1>3, <2>1, SharesAround
<1> QED BY <1>4, <1>5 DEF IsNearestRank, q

(* What the chart is drawn from: samples in ascending order.               *)
LEMMA SummaryOrdered ==
  ASSUME NEW s \in Seq(Nat), s # << >>
  PROVE  LET m == Summary(s)
         IN  /\ m.n = Len(s) /\ m.n \in Nat \ {0}
             /\ m.min \in Nat /\ m.p50 \in Nat /\ m.p99 \in Nat
             /\ m.p999 \in Nat
             /\ m.min <= m.p50 /\ m.p50 <= m.p999
             /\ m.min <= m.p99 /\ m.p99 <= m.p999
             /\ \E i \in 1 .. Len(s) : m.p50 = s[i]
             /\ \E i \in 1 .. Len(s) : m.p99 = s[i]
<1> DEFINE L == Len(s)
<1>1. L \in Nat \ {0}
  OBVIOUS
<1> DEFINE a == Rank(Quantile["p50"], L)
           b == Rank(Quantile["p99"], L)
           c == Rank(Quantile["p999"], L)
<1>2. /\ a \in 1 .. L /\ b \in 1 .. L /\ c \in 1 .. L
      /\ a <= c /\ b <= c
  <2>1. a \in 1 .. L /\ b \in 1 .. L /\ c \in 1 .. L
    BY <1>1, RankBounds, Names
  <2>2. a <= c /\ b <= c
    BY <1>1 DEF Quantile, Rank
  <2> QED BY <2>1, <2>2
<1>3. /\ Summary(s).n = L /\ Summary(s).min = Sorted(s, 1)
      /\ Summary(s).p50 = percentile(s, Quantile["p50"])
      /\ Summary(s).p99 = percentile(s, Quantile["p99"])
      /\ Summary(s).p999 = percentile(s, Quantile["p999"])
  BY DEF Summary, Quantile
<1>4. /\ percentile(s, Quantile["p50"]) = Sorted(s, a)
      /\ percentile(s, Quantile["p99"]) = Sorted(s, b)
      /\ percentile(s, Quantile["p999"]) = Sorted(s, c)
  BY PercentileIsSorted, Names
<1> HIDE DEF a, b, c, L
<1>5. 1 \in 1 .. L /\ 1 <= a /\ 1 <= b
  BY <1>1, <1>2
<1>6. /\ Sorted(s, 1) <= Sorted(s, a) /\ Sorted(s, a) <= Sorted(s, c)
      /\ Sorted(s, 1) <= Sorted(s, b) /\ Sorted(s, b) <= Sorted(s, c)
      /\ Sorted(s, 1) \in Nat /\ Sorted(s, a) \in Nat
      /\ Sorted(s, b) \in Nat
  BY <1>2, <1>5, SortedAscends DEF L
<1>7. Sorted(s, c) \in Nat
  BY <1>2, SortedAscends DEF L
<1>8. /\ \E i \in 1 .. L : Sorted(s, a) = s[i]
      /\ \E i \in 1 .. L : Sorted(s, b) = s[i]
  BY <1>2, Place DEF L
<1> QED BY <1>1, <1>3, <1>4, <1>6, <1>7, <1>8 DEF L

-----------------------------------------------------------------------------
(* The samples in the bars.                                                *)

IsRunningSum(sum, b, m) ==
  /\ sum \in [0 .. m -> Nat] /\ sum[0] = 0
  /\ \A k \in 1 .. m : sum[k] = sum[k - 1] + b[k - 1]

Sums(b) ==
  CHOOSE sum : sum = [k \in 0 .. BUCKETS |->
                        IF k = 0 THEN 0 ELSE sum[k - 1] + b[k - 1]]

(* The recursive sum over the buckets has the equations it is defined by.  *)
LEMMA RunningSum ==
  ASSUME NEW b \in [Bucket -> Nat]
  PROVE  IsRunningSum(Sums(b), b, BUCKETS)
<1> DEFINE C == {m \in Nat :
                   m <= BUCKETS => \E sum : IsRunningSum(sum, b, m)}
<1>0. BUCKETS \in Nat /\ BUCKETS > 1
  BY HistogramAssumption
<1>1. 0 \in C
  <2>1. IsRunningSum([k \in 0 .. 0 |-> 0], b, 0)
    BY DEF IsRunningSum
  <2> QED BY <2>1
<1>2. ASSUME NEW m \in Nat, m \in C PROVE m + 1 \in C
  <2>1. SUFFICES ASSUME m + 1 <= BUCKETS
                 PROVE  \E sum : IsRunningSum(sum, b, m + 1)
    OBVIOUS
  <2>2. PICK sum : IsRunningSum(sum, b, m)
    BY <1>0, <1>2, <2>1
  <2> DEFINE more == [k \in 0 .. m + 1 |->
                        IF k = m + 1 THEN sum[m] + b[m] ELSE sum[k]]
  <2>3. b[m] \in Nat /\ sum[m] \in Nat
    BY <1>0, <2>1, <2>2 DEF Bucket, IsRunningSum
  <2>4. more \in [0 .. m + 1 -> Nat] /\ more[0] = 0
    BY <2>2, <2>3 DEF IsRunningSum
  <2>5. ASSUME NEW k \in 1 .. m + 1 PROVE more[k] = more[k - 1] + b[k - 1]
    <3>1. CASE k = m + 1
      <4>1. k - 1 = m /\ more[k] = sum[m] + b[m] /\ more[m] = sum[m]
        BY <3>1
      <4> QED BY <4>1
    <3>2. CASE k # m + 1
      <4>1. k \in 1 .. m /\ more[k] = sum[k] /\ more[k - 1] = sum[k - 1]
        BY <3>2
      <4> QED BY <2>2, <4>1 DEF IsRunningSum
    <3> QED BY <3>1, <3>2
  <2> HIDE DEF more
  <2> QED BY <2>4, <2>5 DEF IsRunningSum
<1>3. Nat \subseteq C
  <2> HIDE DEF C
  <2> QED BY <1>1, <1>2, SetInduction
<1>4. PICK sum : IsRunningSum(sum, b, BUCKETS)
  BY <1>0, <1>3
<1>5. sum = [k \in 0 .. BUCKETS |->
               IF k = 0 THEN 0 ELSE sum[k - 1] + b[k - 1]]
  BY <1>0, <1>4 DEF IsRunningSum
<1>6. Sums(b) = [k \in 0 .. BUCKETS |->
                   IF k = 0 THEN 0 ELSE Sums(b)[k - 1] + b[k - 1]]
  BY <1>5 DEF Sums
<1> DEFINE s == Sums(b)
<1>7. /\ DOMAIN s = 0 .. BUCKETS /\ s[0] = 0
      /\ \A k \in 1 .. BUCKETS : s[k] = s[k - 1] + b[k - 1]
  <2> HIDE DEF s
  <2>1. s = [k \in 0 .. BUCKETS |-> IF k = 0 THEN 0 ELSE s[k - 1] + b[k - 1]]
    BY <1>6 DEF s
  <2> QED BY <1>0, <2>1
<1>8. s = [k \in 0 .. BUCKETS |-> s[k]]
  <2> HIDE DEF s
  <2>1. s = [k \in 0 .. BUCKETS |-> IF k = 0 THEN 0 ELSE s[k - 1] + b[k - 1]]
    BY <1>6 DEF s
  <2> QED BY <2>1
<1> HIDE DEF s
<1> DEFINE T == {m \in Nat : m <= BUCKETS => s[m] \in Nat}
<1>9. Nat \subseteq T
  <2>1. 0 \in T
    BY <1>7
  <2>2. ASSUME NEW m \in Nat, m \in T PROVE m + 1 \in T
    <3>1. SUFFICES ASSUME m + 1 <= BUCKETS PROVE s[m + 1] \in Nat
      OBVIOUS
    <3>2. s[m] \in Nat /\ m \in Bucket /\ m + 1 \in 1 .. BUCKETS
      BY <1>0, <2>2, <3>1 DEF Bucket
    <3>3. s[m + 1] = s[(m + 1) - 1] + b[(m + 1) - 1]
      BY <1>7, <3>2
    <3>4. (m + 1) - 1 = m /\ b[m] \in Nat
      BY <3>2
    <3> QED BY <3>2, <3>3, <3>4
  <2> HIDE DEF T
  <2> QED BY <2>1, <2>2, SetInduction
<1>10. \A k \in 0 .. BUCKETS : s[k] \in Nat
  BY <1>0, <1>9
<1>11. s \in [0 .. BUCKETS -> Nat]
  BY <1>8, <1>10
<1> QED BY <1>7, <1>11 DEF IsRunningSum, s

(* A sample more in one bucket is one more in the bars.                    *)
LEMMA OneMore ==
  ASSUME NEW b \in [Bucket -> Nat], NEW k \in Bucket
  PROVE  Sums([b EXCEPT ![k] = @ + 1])[BUCKETS] = Sums(b)[BUCKETS] + 1
<1> DEFINE c == [b EXCEPT ![k] = @ + 1]
           s == Sums(b)
           t == Sums(c)
           T == {m \in Nat : m <= BUCKETS =>
                   t[m] = IF k < m THEN s[m] + 1 ELSE s[m]}
<1>0. BUCKETS \in Nat /\ BUCKETS > 1 /\ k \in 0 .. BUCKETS - 1
  BY HistogramAssumption DEF Bucket
<1>1. c \in [Bucket -> Nat]
  OBVIOUS
<1>2. IsRunningSum(s, b, BUCKETS) /\ IsRunningSum(t, c, BUCKETS)
  BY <1>1, RunningSum
<1>3. \A m \in Bucket : c[m] = IF m = k THEN b[m] + 1 ELSE b[m]
  OBVIOUS
<1> HIDE DEF c, s, t
<1>4. 0 \in T
  BY <1>0, <1>2 DEF IsRunningSum
<1>5. ASSUME NEW m \in Nat, m \in T PROVE m + 1 \in T
  <2>1. SUFFICES ASSUME m + 1 <= BUCKETS
                 PROVE  t[m + 1] = IF k < m + 1 THEN s[m + 1] + 1
                                                ELSE s[m + 1]
    OBVIOUS
  <2>2. /\ m \in Bucket /\ m + 1 \in 1 .. BUCKETS /\ (m + 1) - 1 = m
        /\ m \in 0 .. BUCKETS
    BY <1>0, <2>1 DEF Bucket
  <2>3. s[m + 1] = s[m] + b[m] /\ t[m + 1] = t[m] + c[m]
    BY <1>2, <2>2 DEF IsRunningSum
  <2>4. /\ s[m] \in Nat /\ b[m] \in Nat
        /\ t[m] = IF k < m THEN s[m] + 1 ELSE s[m]
    BY <1>2, <1>5, <2>1, <2>2 DEF IsRunningSum
  <2>5. c[m] = IF m = k THEN b[m] + 1 ELSE b[m]
    BY <1>3, <2>2
  <2> QED BY <1>0, <2>3, <2>4, <2>5
<1>6. Nat \subseteq T
  <2> HIDE DEF T
  <2> QED BY <1>4, <1>5, SetInduction
<1>7. t[BUCKETS] = s[BUCKETS] + 1
  BY <1>0, <1>6
<1> QED BY <1>7 DEF c, s, t

(* The sum over empty buckets is 0.                                        *)
LEMMA NoneYet == Sums([k \in Bucket |-> 0])[BUCKETS] = 0
<1> DEFINE b == [k \in Bucket |-> 0]
           s == Sums(b)
           T == {m \in Nat : m <= BUCKETS => s[m] = 0}
<1>0. BUCKETS \in Nat
  BY HistogramAssumption
<1>1. b \in [Bucket -> Nat] /\ \A k \in Bucket : b[k] = 0
  OBVIOUS
<1>2. IsRunningSum(s, b, BUCKETS)
  BY <1>1, RunningSum
<1> HIDE DEF b, s
<1>3. 0 \in T
  BY <1>2 DEF IsRunningSum
<1>4. ASSUME NEW m \in Nat, m \in T PROVE m + 1 \in T
  <2>1. SUFFICES ASSUME m + 1 <= BUCKETS PROVE s[m + 1] = 0
    OBVIOUS
  <2>2. m \in Bucket /\ m + 1 \in 1 .. BUCKETS /\ (m + 1) - 1 = m
    BY <1>0, <2>1 DEF Bucket
  <2>3. s[m + 1] = s[m] + b[m] /\ s[m] = 0 /\ b[m] = 0
    BY <1>0, <1>1, <1>2, <1>4, <2>1, <2>2 DEF IsRunningSum
  <2> QED BY <2>3
<1>5. Nat \subseteq T
  <2> HIDE DEF T
  <2> QED BY <1>3, <1>4, SetInduction
<1> QED BY <1>0, <1>5 DEF s, b

(* The samples in the bars are that sum over all buckets.                  *)
LEMMA InBarsIsSums == InBars = Sums(buckets)[BUCKETS]
BY DEF InBars, Sums

-----------------------------------------------------------------------------
(* The inductive invariant.                                                *)

Steps == {"title", "bar", "panels", "samples", "histogram", "timeline", "ended"}

(* How far down the canvas the drawing is, before and between the panels.  *)
Laid ==
  /\ pc \in Steps /\ panels \in Seq(Phases) /\ y \in Nat
  /\ drawn \in 0 .. Len(panels)
  /\ pc \in {"samples", "histogram", "timeline"} => drawn < Len(panels)
  /\ pc \in {"title", "bar"} => drawn = 0
  /\ pc = "title" => blocks = {}
  /\ pc = "bar" => y = 92
  /\ pc \notin {"title", "bar"} => y <= 188 + 468 * drawn
  /\ pc # "title" => height = 216 + 468 * Len(panels)

(* What is drawn of the panel under way, too: nothing is below the floor.  *)
Floor ==
  CASE pc = "bar"                      -> y - 24
    [] pc \in {"samples", "histogram"} -> y + 30
    [] pc = "timeline"                 -> y + 261
    [] OTHER                           -> y

Apart(b, c) == b.bottom <= c.top \/ c.bottom <= b.top

Stacked ==
  /\ \A b \in blocks : /\ b.top \in Nat /\ b.bottom \in Nat
                       /\ b.top <= b.bottom /\ b.bottom <= Floor
  /\ \A b, c \in blocks : b # c => Apart(b, c)

(* The samples are summarized once, before the first of them is counted.   *)
Drawing == pc \in {"histogram", "timeline"}

Sampled ==
  /\ values \in Seq(Nat)
  /\ IF Drawing THEN values # << >> /\ summary = Summary(values)
                ELSE summary = Unknown

(* The samples below next are in the bars or beyond them.                  *)
Beyond(m) == {i \in 1 .. m : values[i] > upper}

Tallied ==
  /\ next \in 1 .. Len(values) + 1
  /\ ~Drawing => next = 1
  /\ buckets \in [Bucket -> Nat]
  /\ beyond = Cardinality(Beyond(next - 1))
  /\ InBars + beyond = next - 1
  /\ \A i \in 1 .. next - 1 :
       values[i] <= upper => \E k \in Rounded(values[i]) : buckets[k] > 0

(* As long as iterations are left, every chunk so far was a full one, and  *)
(* COLUMNS full chunks are at least all iterations.                        *)
Lined ==
  /\ n \in Nat /\ column \in Nat /\ reached \in 0 .. n
  /\ x \in Nat \X (Nat \ {0})
  /\ n <= POINTS => x[1] <= x[2]
  /\ n > POINTS =>
       /\ reached < n => reached = column * per_column
       /\ column <= COLUMNS
       /\ \/ x = <<0, 1>>
          \/ x = <<column - 1, COLUMNS - 1>> /\ column > 0

Fresh == column = 0 /\ reached = 0 /\ x = <<0, 1>>

IInv ==
  Laid /\ Stacked /\ Sampled /\ Tallied /\ Lined /\ (pc # "timeline" => Fresh)

-----------------------------------------------------------------------------
(* The canvas.                                                             *)

(* Before the first step, nothing is drawn.                                *)
LEMMA InitLaid == Init => Laid /\ Stacked
BY ChartAssumption DEF Init, Laid, Stacked, Steps

(* What is drawn from the floor down is drawn over nothing.                *)
LEMMA DrawnBelow ==
  ASSUME Stacked, NEW b, b.top \in Int, b.bottom \in Int, b.top <= b.bottom,
         Floor \in Nat, Floor <= b.top, blocks' = blocks \cup {b},
         Floor' \in Int, b.bottom <= Floor'
  PROVE  Stacked'
<1>1. \A c \in blocks : /\ c.top \in Nat /\ c.bottom \in Nat
                         /\ c.top <= c.bottom /\ c.bottom <= Floor
  BY DEF Stacked
<1>2. \A c \in blocks : c.bottom <= b.top
  BY <1>1
<1>3. \A c \in blocks' : /\ c.top \in Nat /\ c.bottom \in Nat
                          /\ c.top <= c.bottom /\ c.bottom <= Floor'
  BY <1>1
<1>4. \A c, d \in blocks' : c # d => Apart(c, d)
  BY <1>2 DEF Stacked, Apart
<1> QED BY <1>3, <1>4 DEF Stacked, Apart

(* A step that draws no block leaves what is drawn apart.                  *)
LEMMA NothingDrawn ==
  ASSUME Stacked, Floor \in Int, Floor' \in Int, Floor <= Floor',
         blocks' = blocks
  PROVE  Stacked'
BY DEF Stacked, Apart

(* The floor is a number.                                                  *)
LEMMA FloorType ==
  ASSUME Laid
  PROVE  Floor \in Nat
BY DEF Laid, Floor, Steps

(* The fields of a block.                                                  *)
LEMMA BlockShape ==
  ASSUME NEW what, NEW top \in Int, NEW bottom \in Int
  PROVE  /\ Block(what, top, bottom).top = top
         /\ Block(what, top, bottom).bottom = bottom
BY DEF Block

(* Every step leaves the rest of the height to the steps that are left,    *)
(* and draws below all that is drawn.                                      *)
LEMMA NextLaid ==
  ASSUME Laid, Stacked, [Next]_vars
  PROVE  Laid' /\ Stacked'
<1>0. /\ Len(panels) \in Nat /\ drawn \in Nat /\ y \in Nat
      /\ drawn <= Len(panels) /\ Floor \in Nat
  BY FloorType DEF Laid
<1>1. CASE Title
  <2> DEFINE b == Block(<<"chart", "title">>, LabelTop(42, 20), LabelBottom(64))
  <2>1. /\ pc = "title" /\ pc' = "bar" /\ y' = 92 /\ panels' = panels
        /\ drawn' = drawn /\ blocks' = {b}
        /\ height' = 96 + 96 + Len(panels) * 468 + 24
    BY <1>1 DEF Title, composition_height, panel_height, HISTOGRAM_HEIGHT,
                TIMELINE_HEIGHT
  <2>2. Laid'
    BY <1>0, <2>1 DEF Laid, Steps
  <2>3. b.top = 22 /\ b.bottom = 68
    BY DEF Block, LabelTop, LabelBottom, DESCENT
  <2>4. Floor' = 68
    BY <2>1 DEF Floor
  <2> HIDE DEF b
  <2>5. Stacked'
    BY <2>1, <2>3, <2>4 DEF Stacked
  <2> QED BY <2>2, <2>5
<1>2. CASE Bar
  <2> DEFINE b == Block(<<"chart", "bar">>,
                        LabelTop(y + 12, 13), LabelBottom(y + 24 + 26 + 18))
  <2>1. /\ pc = "bar" /\ pc' = "panels" /\ y = 92 /\ drawn = 0
        /\ UNCHANGED <<panels, height, drawn>>
        /\ y' = 92 + 96 \/ (y' = 92 /\ blocks' = blocks)
        /\ blocks' = blocks \cup {b} \/ blocks' = blocks
    BY <1>2 DEF Bar, Laid, composition_height
  <2>2. Laid'
    BY <1>0, <2>1 DEF Laid, Steps
  <2>3. Floor = 68 /\ Floor' = y'
    BY <2>1 DEF Floor
  <2>4. b.top = 91 /\ b.bottom = 164
    BY <2>1 DEF Block, LabelTop, LabelBottom, DESCENT
  <2> HIDE DEF b
  <2>5. CASE y' = 92 + 96 /\ blocks' = blocks \cup {b}
    BY <2>2, <2>3, <2>4, <2>5, DrawnBelow
  <2>6. CASE blocks' = blocks
    BY <2>1, <2>2, <2>3, <2>6, NothingDrawn
  <2> QED BY <2>1, <2>5, <2>6
<1>3. CASE Label
  <2> DEFINE b == Block(<<phase, "label">>,
                        LabelTop(y + 26, 14), LabelBottom(y + 26))
  <2>1. /\ pc = "panels" /\ pc' = "samples" /\ drawn < Len(panels)
        /\ UNCHANGED <<panels, height, y, drawn>>
        /\ blocks' = blocks \cup {b}
    BY <1>3 DEF Label
  <2>2. Laid'
    BY <1>0, <2>1 DEF Laid, Steps
  <2>3. Floor = y /\ Floor' = y + 30
    BY <2>1 DEF Floor
  <2>4. b.top = y + 12 /\ b.bottom = y + 30
    BY <1>0, BlockShape DEF LabelTop, LabelBottom, DESCENT
  <2> HIDE DEF b
  <2>5. Stacked'
    BY <1>0, <2>1, <2>3, <2>4, DrawnBelow
  <2> QED BY <2>2, <2>5
<1>4. CASE PushSample \/ CountSample \/ DrawTimeline \/ Terminated
  <2>1. UNCHANGED <<pc, panels, canvas>>
    BY <1>4 DEF PushSample, CountSample, DrawTimeline, Terminated, vars
  <2>2. Floor' = Floor
    BY <2>1 DEF Floor, canvas
  <2>3. Stacked'
    BY <1>0, <2>1, <2>2, NothingDrawn DEF canvas
  <2>4. Laid'
    BY <2>1 DEF Laid, canvas
  <2> QED BY <2>3, <2>4
<1>5. CASE SummarizePhase
  <2>1. pc = "samples" /\ pc' = "histogram" /\ UNCHANGED <<panels, canvas>>
    BY <1>5 DEF SummarizePhase
  <2>2. Floor' = Floor
    BY <2>1 DEF Floor, canvas
  <2>3. Stacked'
    BY <1>0, <2>1, <2>2, NothingDrawn DEF canvas
  <2>4. Laid'
    BY <2>1 DEF Laid, canvas, Steps
  <2> QED BY <2>3, <2>4
<1>6. CASE HistogramDrawn
  <2> DEFINE b == histogram(y + 40)
  <2>1. /\ pc = "histogram" /\ pc' = "timeline"
        /\ UNCHANGED <<panels, height, y, drawn>>
        /\ blocks' = blocks \cup {b}
    BY <1>6 DEF HistogramDrawn
  <2>2. Laid'
    BY <1>0, <2>1 DEF Laid, Steps
  <2>3. Floor = y + 30 /\ Floor' = y + 261
    BY <2>1 DEF Floor
  <2>4. b.top = y + 40 /\ b.bottom \in {y + 261, y + 248}
    BY <1>0, BlockShape DEF histogram, HISTOGRAM_HEIGHT, LabelBottom, DESCENT
  <2> HIDE DEF b
  <2>5. Stacked'
    BY <1>0, <2>1, <2>3, <2>4, DrawnBelow
  <2> QED BY <2>2, <2>5
<1>7. CASE PanelDrawn
  <2> DEFINE b == timeline(y + 40 + HISTOGRAM_HEIGHT + 48)
  <2>1. /\ pc = "timeline" /\ pc' = "panels"
        /\ UNCHANGED <<panels, height>>
        /\ y' = y + 468 /\ drawn' = drawn + 1
        /\ blocks' = blocks \cup {b}
    BY <1>7 DEF PanelDrawn, panel_height, HISTOGRAM_HEIGHT, TIMELINE_HEIGHT
  <2>2. Laid'
    BY <1>0, <2>1 DEF Laid, Steps
  <2>3. Floor = y + 261 /\ Floor' = y + 468
    BY <2>1 DEF Floor
  <2>4. b.top = y + 264 /\ b.bottom = y + 466
    BY <1>0, BlockShape
    DEF timeline, HISTOGRAM_HEIGHT, TIMELINE_HEIGHT, LabelTop, LabelBottom,
        DESCENT
  <2> HIDE DEF b
  <2>5. Stacked'
    BY <1>0, <2>1, <2>3, <2>4, DrawnBelow
  <2> QED BY <2>2, <2>5
<1>8. CASE Finish
  <2>1. pc = "panels" /\ pc' = "ended" /\ UNCHANGED <<panels, canvas>>
    BY <1>8 DEF Finish
  <2>2. Floor' = Floor
    BY <2>1 DEF Floor, canvas
  <2>3. Stacked'
    BY <1>0, <2>1, <2>2, NothingDrawn DEF canvas
  <2>4. Laid'
    BY <2>1 DEF Laid, canvas, Steps
  <2> QED BY <2>3, <2>4
<1>9. CASE UNCHANGED vars
  <2>1. UNCHANGED <<pc, panels, canvas>>
    BY <1>9 DEF vars
  <2>2. Floor' = Floor
    BY <2>1 DEF Floor, canvas
  <2>3. Stacked'
    BY <1>0, <2>1, <2>2, NothingDrawn DEF canvas
  <2>4. Laid'
    BY <2>1 DEF Laid, canvas
  <2> QED BY <2>3, <2>4
<1> QED
  BY <1>1, <1>2, <1>3, <1>4, <1>5, <1>6, <1>7, <1>8, <1>9 DEF Next, Panel

-----------------------------------------------------------------------------
(* The samples.                                                            *)

(* A step pushes samples or summarizes the ones there are.                 *)
LEMMA NextSampled ==
  ASSUME Sampled, [Next]_vars
  PROVE  Sampled'
<1> USE DEF Sampled, Drawing
<1>1. CASE PushSample
  <2>1. PICK v \in Nat : values' = Append(values, v)
    BY <1>1 DEF PushSample, Push, Measured
  <2> QED BY <1>1, <2>1 DEF PushSample
<1>2. CASE SummarizePhase
  <2>1. /\ pc' = "histogram" /\ summary' = Summary(values)
        /\ values' = values /\ Len(values) \in 1 .. MaxSamples
    BY <1>2, HistogramAssumption DEF SummarizePhase, Summarize
  <2>2. values # << >>
    BY <2>1
  <2> QED BY <2>1, <2>2
<1>3. CASE PanelDrawn
  BY <1>3 DEF PanelDrawn
<1>4. CASE Title \/ Bar \/ Label \/ Finish
  BY <1>4 DEF Title, Bar, Label, Finish, histogramVars
<1>5. CASE CountSample \/ HistogramDrawn \/ DrawTimeline
  BY <1>5 DEF CountSample, Count, HistogramDrawn, DrawTimeline,
              histogramVars
<1>6. CASE Terminated \/ UNCHANGED vars
  BY <1>6 DEF Terminated, vars, histogramVars
<1> QED
  BY <1>1, <1>2, <1>3, <1>4, <1>5, <1>6 DEF Next, Panel

(* The axis.                                                               *)
LEMMA Axis ==
  ASSUME Sampled, Drawing
  PROVE  /\ summary = Summary(values) /\ values # << >>
         /\ summary.n = Len(values) /\ summary.n \in Nat \ {0}
         /\ summary.min \in Nat /\ summary.p999 \in Nat
         /\ upper \in Nat /\ summary.p999 <= upper
         /\ span \in Nat \ {0}
<1>1. /\ summary = Summary(values) /\ values # << >>
      /\ values \in Seq(Nat)
  BY DEF Sampled
<1>2. /\ summary.n = Len(values) /\ summary.n \in Nat \ {0}
      /\ summary.min \in Nat /\ summary.p999 \in Nat
  BY <1>1, SummaryOrdered
<1>3. upper \in Nat /\ summary.p999 <= upper /\ summary.min < upper
  BY <1>2 DEF upper
<1>4. span \in Nat \ {0}
  BY <1>2, <1>3 DEF span
<1> QED BY <1>1, <1>2, <1>3, <1>4

(* Before the first panel there are neither samples nor a tally.           *)
LEMMA InitTallied == Init => Sampled /\ Tallied
<1> SUFFICES ASSUME Init PROVE Sampled /\ Tallied
  OBVIOUS
<1>1. /\ pc = "title" /\ values = << >> /\ summary = Unknown /\ next = 1
      /\ buckets = [k \in Bucket |-> 0] /\ beyond = 0
  BY DEF Init, HistogramInit
<1>2. Sampled
  BY <1>1 DEF Sampled, Drawing
<1>3. Beyond(next - 1) = {} /\ Cardinality({}) = 0
  BY <1>1, FS_EmptySet DEF Beyond
<1>4. InBars = 0
  BY <1>1, InBarsIsSums, NoneYet
<1>5. Tallied
  BY <1>1, <1>3, <1>4 DEF Tallied, Drawing
<1> QED BY <1>2, <1>5

(* Before the first sample is counted, there is nothing in the tally.      *)
LEMMA StillFirst ==
  ASSUME Tallied, next = 1, UNCHANGED counting, values' \in Seq(Nat)
  PROVE  Tallied'
<1>1. next' = 1 /\ buckets' = buckets /\ beyond' = beyond
  BY DEF counting
<1>2. Beyond(next - 1) = {} /\ Beyond(next - 1)' = {}
  BY <1>1 DEF Beyond
<1>3. InBars' = InBars
  BY <1>1 DEF InBars
<1>4. next' \in 1 .. Len(values') + 1 /\ next' - 1 = 0
  BY <1>1
<1>5. /\ buckets \in [Bucket -> Nat] /\ beyond = Cardinality({})
      /\ InBars + beyond = 0
  <2>1. buckets \in [Bucket -> Nat]
    BY DEF Tallied
  <2>2. beyond = Cardinality({})
    BY <1>2 DEF Tallied
  <2>3. InBars + beyond = next - 1
    BY DEF Tallied
  <2> QED BY <2>1, <2>2, <2>3
<1>6. \A i \in 1 .. next' - 1 :
        values'[i] <= upper' =>
          \E k \in Rounded(values[i])' : buckets'[k] > 0
  BY <1>4
<1> QED BY <1>1, <1>2, <1>3, <1>4, <1>5, <1>6 DEF Tallied

(* A step elsewhere leaves the tally.                                      *)
LEMMA TallyKept ==
  ASSUME Tallied, UNCHANGED <<values, summary, counting>>, Drawing => Drawing'
  PROVE  Tallied'
BY DEF Tallied, counting, InBars, Beyond, upper, span, Rounded

(* A sample more is in one bucket more, or one more is beyond.             *)
LEMMA NextCounted ==
  ASSUME Sampled, Tallied, CountSample
  PROVE  Tallied'
<1>0. /\ pc = "histogram" /\ pc' = pc /\ next <= summary.n
      /\ next' = next + 1 /\ values' = values /\ summary' = summary
  BY DEF CountSample, Count
<1>1. /\ Drawing /\ Drawing' /\ values \in Seq(Nat)
      /\ summary.n = Len(values) /\ upper \in Nat
  BY <1>0, Axis DEF Drawing, Sampled
<1>2. next \in 1 .. Len(values) /\ values[next] \in Nat
  BY <1>0, <1>1 DEF Tallied
<1>3. upper' = upper /\ span' = span
  BY <1>0 DEF upper, span
<1>4. /\ buckets \in [Bucket -> Nat] /\ beyond = Cardinality(Beyond(next - 1))
      /\ InBars + beyond = next - 1
      /\ \A i \in 1 .. next - 1 :
           values[i] <= upper => \E k \in Rounded(values[i]) : buckets[k] > 0
  BY DEF Tallied
<1>5. InBars = Sums(buckets)[BUCKETS] /\ InBars' = Sums(buckets')[BUCKETS]
  BY DEF InBars, Sums
<1>6. InBars \in Nat
  <2>1. BUCKETS \in 0 .. BUCKETS
    BY HistogramAssumption
  <2> QED BY <1>4, <1>5, <2>1, RunningSum DEF IsRunningSum
<1>7. next' - 1 = next /\ next' \in 1 .. Len(values') + 1
  BY <1>0, <1>2
<1>8. Beyond(next - 1)' = {i \in 1 .. next : values[i] > upper}
  BY <1>0, <1>3, <1>7 DEF Beyond
<1>9. 1 .. next = (1 .. next - 1) \cup {next} /\ next \notin 1 .. next - 1
  BY <1>2
<1>10. IsFiniteSet(Beyond(next - 1)) /\ beyond \in Nat
  <2>1. Beyond(next - 1) \subseteq 1 .. Len(values)
    BY <1>2 DEF Beyond
  <2>2. IsFiniteSet(1 .. Len(values))
    BY <1>1, IndicesFinite
  <2> QED BY <1>4, <2>1, <2>2, FS_Subset, FS_CardinalityType
<1>11. CASE values[next] > upper
  <2>1. beyond' = beyond + 1 /\ buckets' = buckets
    BY <1>11 DEF CountSample, Count
  <2>2. Beyond(next - 1)' = Beyond(next - 1) \cup {next}
    BY <1>8, <1>9, <1>11 DEF Beyond
  <2>3. next \notin Beyond(next - 1)
    BY <1>9 DEF Beyond
  <2>4. Cardinality(Beyond(next - 1) \cup {next}) = beyond + 1
    BY <1>4, <1>10, <2>3, FS_AddElement
  <2>5. InBars' + beyond' = next' - 1
    BY <1>0, <1>2, <1>4, <1>5, <1>6, <1>10, <2>1
  <2>6. \A i \in 1 .. next' - 1 :
          values'[i] <= upper' =>
            \E k \in Rounded(values[i])' : buckets'[k] > 0
    <3>1. SUFFICES ASSUME NEW i \in 1 .. next, values[i] <= upper
                   PROVE  \E k \in Rounded(values[i])' : buckets'[k] > 0
      BY <1>0, <1>3, <1>7
    <3>2. i \in 1 .. next - 1
      BY <1>1, <1>2, <1>9, <1>11, <3>1
    <3>3. Rounded(values[i])' = Rounded(values[i])
      BY <1>0, <1>3 DEF Rounded
    <3> QED BY <1>4, <2>1, <3>1, <3>2, <3>3
  <2> QED
    BY <1>1, <1>4, <1>7, <2>1, <2>2, <2>4, <2>5, <2>6 DEF Tallied
<1>12. CASE ~(values[next] > upper)
  <2>1. beyond' = beyond
    BY <1>12 DEF CountSample, Count
  <2>2. PICK k \in Rounded(values[next]) :
          buckets' = [buckets EXCEPT ![k] = @ + 1]
    BY <1>12 DEF CountSample, Count
  <2>3. k \in Bucket
    BY DEF Rounded
  <2>4. /\ buckets' \in [Bucket -> Nat] /\ buckets'[k] > 0
        /\ \A l \in Bucket : buckets[l] > 0 => buckets'[l] > 0
    BY <1>4, <2>2, <2>3
  <2>5. InBars' = InBars + 1
    BY <1>4, <1>5, <2>2, <2>3, OneMore
  <2>6. InBars' + beyond' = next' - 1
    BY <1>0, <1>2, <1>4, <1>6, <1>10, <2>1, <2>5
  <2>7. Beyond(next - 1)' = Beyond(next - 1)
    BY <1>8, <1>9, <1>12 DEF Beyond
  <2>8. \A i \in 1 .. next' - 1 :
          values'[i] <= upper' =>
            \E l \in Rounded(values[i])' : buckets'[l] > 0
    <3>1. SUFFICES ASSUME NEW i \in 1 .. next, values[i] <= upper
                   PROVE  \E l \in Rounded(values[i])' : buckets'[l] > 0
      BY <1>0, <1>3, <1>7
    <3>2. Rounded(values[i])' = Rounded(values[i])
      BY <1>0, <1>3 DEF Rounded
    <3>3. CASE i = next
      BY <2>2, <2>4, <3>2, <3>3
    <3>4. CASE i # next
      <4>1. PICK l \in Rounded(values[i]) : buckets[l] > 0
        BY <1>4, <1>9, <3>1, <3>4
      <4>2. l \in Bucket
        BY DEF Rounded
      <4> QED BY <2>4, <3>2, <4>1, <4>2
    <3> QED BY <3>3, <3>4
  <2> QED
    BY <1>1, <1>4, <1>7, <2>1, <2>4, <2>6, <2>7, <2>8 DEF Tallied
<1> QED BY <1>11, <1>12

(* Every step keeps the tally true of the samples counted.                 *)
LEMMA NextTallied ==
  ASSUME Sampled, Sampled', Tallied, [Next]_vars
  PROVE  Tallied'
<1>0. values' \in Seq(Nat)
  BY DEF Sampled
<1>1. CASE PushSample \/ SummarizePhase
  <2>1. UNCHANGED counting /\ ~Drawing
    BY <1>1 DEF PushSample, SummarizePhase, Summarize, Drawing
  <2>2. next = 1
    BY <2>1 DEF Tallied
  <2> QED BY <1>0, <2>1, <2>2, StillFirst
<1>2. CASE CountSample
  BY <1>2, NextCounted
<1>3. CASE PanelDrawn
  <2>1. /\ values' = << >> /\ next' = 1 /\ beyond' = 0
        /\ buckets' = [k \in Bucket |-> 0]
    BY <1>3 DEF PanelDrawn
  <2>2. InBars' = Sums(buckets')[BUCKETS]
    BY DEF InBars, Sums
  <2>3. InBars' = 0
    BY <2>1, <2>2, NoneYet
  <2>4. Beyond(next - 1)' = {} /\ Cardinality({}) = 0
    BY <2>1, FS_EmptySet DEF Beyond
  <2>5. /\ next' \in 1 .. Len(values') + 1 /\ next' - 1 = 0
        /\ buckets' \in [Bucket -> Nat]
    BY <2>1
  <2>6. \A i \in 1 .. next' - 1 :
          values'[i] <= upper' =>
            \E k \in Rounded(values[i])' : buckets'[k] > 0
    BY <2>5
  <2>7. InBars' + beyond' = next' - 1
    BY <2>1, <2>3
  <2>8. beyond' = Cardinality(Beyond(next - 1)')
    BY <2>1, <2>4
  <2> QED BY <2>1, <2>5, <2>6, <2>7, <2>8 DEF Tallied
<1>4. CASE Title \/ Bar \/ Label \/ Finish
  BY <1>4, TallyKept
  DEF Title, Bar, Label, Finish, histogramVars, Drawing
<1>5. CASE HistogramDrawn \/ DrawTimeline
  BY <1>5, TallyKept DEF HistogramDrawn, DrawTimeline, histogramVars, Drawing
<1>6. CASE Terminated \/ UNCHANGED vars
  BY <1>6, TallyKept DEF Terminated, vars, histogramVars, Drawing
<1> QED
  BY <1>1, <1>2, <1>3, <1>4, <1>5, <1>6 DEF Next, Panel

-----------------------------------------------------------------------------
(* The timeline.                                                           *)

(* Rounded up, a quotient is no less than the share it stands for. *)
LEMMA DivCeil ==
  ASSUME n \in Nat, n > 0
  PROVE  /\ per_column \in Nat /\ per_column > 0
         /\ COLUMNS * per_column >= n
<1> DEFINE m == n + COLUMNS - 1
<1>1. m \in Nat /\ COLUMNS \in Nat /\ COLUMNS > 1 /\ m >= COLUMNS
  BY TimelineAssumption
<1>2. m = COLUMNS * (m \div COLUMNS) + (m % COLUMNS)
      /\ m \div COLUMNS \in Nat /\ m % COLUMNS \in 0 .. COLUMNS - 1
  BY <1>1
<1>3. m \div COLUMNS > 0
  BY <1>1, <1>2
<1> QED BY <1>1, <1>2, <1>3 DEF per_column

(* A point or a column more keeps the timeline inside.                     *)
LEMMA NextPoint ==
  ASSUME Lined, Point \/ Column
  PROVE  Lined'
<1>0. /\ n \in Nat /\ column \in Nat
      /\ reached \in 0 .. n /\ reached \in Nat
      /\ COLUMNS \in Nat /\ COLUMNS > 1 /\ POINTS \in Nat
  BY TimelineAssumption DEF Lined
<1>1. CASE Point
  <2>1. /\ n' = n /\ column' = column + 1 /\ reached' = reached + 1
        /\ n <= POINTS /\ reached < n
    BY <1>1 DEF Point
  <2>2. /\ x'[1] = reached /\ x'[2] = (IF n < 2 THEN 1 ELSE n - 1)
        /\ x' \in Nat \X (Nat \ {0})
    BY <1>0, <1>1 DEF Point
  <2>3. x'[1] <= x'[2]
    BY <1>0, <2>1, <2>2
  <2> QED BY <1>0, <2>1, <2>2, <2>3 DEF Lined
<1>2. CASE Column
  <2>1. /\ n' = n /\ column' = column + 1 /\ reached' = ChunkEnd
        /\ x' = <<column, COLUMNS - 1>> /\ n > POINTS /\ reached < n
    BY <1>2 DEF Column
  <2>2. reached = column * per_column
    BY <2>1 DEF Lined
  <2>3. per_column \in Nat /\ per_column > 0 /\ COLUMNS * per_column >= n
    BY <1>0, <2>1, DivCeil
  <2>4. column < COLUMNS
    <3>1. SUFFICES ASSUME COLUMNS <= column PROVE FALSE
      BY <1>0
    <3>2. per_column * COLUMNS <= per_column * column
      BY <1>0, <2>3, <3>1, TimesMonotone
    <3>3. /\ column * per_column \in Nat /\ COLUMNS * per_column \in Nat
          /\ per_column * column = column * per_column
          /\ per_column * COLUMNS = COLUMNS * per_column
      BY <1>0, <2>3
    <3> QED BY <1>0, <2>1, <2>2, <2>3, <3>2, <3>3
  <2>5. /\ reached' \in 0 .. n
        /\ reached' < n => reached' = reached + per_column
    BY <1>0, <2>1, <2>3 DEF ChunkEnd
  <2>6. reached + per_column = (column + 1) * per_column
    BY <1>0, <2>2, <2>3
  <2>7. per_column' = per_column
    BY <2>1 DEF per_column
  <2>8. x' \in Nat \X (Nat \ {0})
    BY <1>0, <2>1
  <2>9. /\ reached' < n' => reached' = column' * per_column'
        /\ column' <= COLUMNS
        /\ x' = <<column' - 1, COLUMNS - 1>> /\ column' > 0
    BY <1>0, <2>1, <2>4, <2>5, <2>6, <2>7
  <2> QED BY <1>0, <2>1, <2>5, <2>8, <2>9 DEF Lined
<1> QED BY <1>1, <1>2

(* A step elsewhere leaves the timeline.                                   *)
LEMMA LinedKept ==
  ASSUME Lined, UNCHANGED timelineVars
  PROVE  Lined'
BY DEF Lined, timelineVars, per_column

(* Before the first point, whatever the number of iterations.              *)
LEMMA LinedFresh ==
  ASSUME Fresh', n' \in Nat
  PROVE  Lined'
<1>1. /\ column' = 0 /\ reached' = 0 /\ x' = <<0, 1>>
      /\ COLUMNS \in Nat /\ POINTS \in Nat
  BY TimelineAssumption DEF Fresh
<1>2. n' > 0 => per_column' \in Nat
  <2> SUFFICES ASSUME n' > 0 PROVE per_column' \in Nat
    OBVIOUS
  <2>1. PICK m \in Nat : m = n'
    OBVIOUS
  <2>2. per_column' = (m + COLUMNS - 1) \div COLUMNS
    BY <2>1 DEF per_column
  <2>3. COLUMNS \in Nat \ {0}
    BY TimelineAssumption
  <2>4. (m + COLUMNS - 1) \div COLUMNS \in Nat
    BY <2>3
  <2> QED BY <2>2, <2>4
<1>3. n' > POINTS => reached' = column' * per_column'
  BY <1>1, <1>2
<1> QED BY <1>1, <1>3 DEF Lined

(* What a column of a whole chunk says of the plot.                        *)
LEMMA LinedInside == Lined => InsidePlot
<1> SUFFICES ASSUME Lined PROVE InsidePlot
  OBVIOUS
<1>1. /\ n \in Nat /\ column \in Nat /\ COLUMNS \in Nat
      /\ POINTS \in Nat /\ COLUMNS > 1 /\ x[1] \in Nat
  BY TimelineAssumption DEF Lined
<1>2. n > POINTS => per_column > 0
  BY <1>1, DivCeil
<1>3. x[1] <= x[2]
  <2>1. CASE n <= POINTS
    BY <2>1 DEF Lined
  <2>2. CASE n > POINTS /\ x = <<0, 1>>
    BY <2>2
  <2>3. CASE n > POINTS /\ x = <<column - 1, COLUMNS - 1>>
    BY <1>1, <2>3 DEF Lined
  <2> QED BY <1>1, <2>1, <2>2, <2>3 DEF Lined
<1> QED BY <1>1, <1>2, <1>3 DEF InsidePlot, Lined

(* Every step keeps the timeline on its lines.                             *)
LEMMA NextLined ==
  ASSUME Sampled, Lined, pc # "timeline" => Fresh, [Next]_vars
  PROVE  Lined' /\ (pc' # "timeline" => Fresh')
<1>1. CASE DrawTimeline
  BY <1>1, NextPoint DEF DrawTimeline
<1>2. CASE HistogramDrawn
  <2>1. /\ pc = "histogram" /\ pc' = "timeline" /\ n' = summary.n
        /\ UNCHANGED <<column, reached, x>>
    BY <1>2 DEF HistogramDrawn
  <2>2. n' \in Nat
    BY <2>1, Axis DEF Drawing
  <2>3. Fresh'
    BY <2>1 DEF Fresh
  <2> QED BY <2>1, <2>2, <2>3, LinedFresh
<1>3. CASE PanelDrawn
  <2>1. n' = 0 /\ Fresh'
    BY <1>3 DEF PanelDrawn, Fresh
  <2> QED BY <2>1, LinedFresh
<1>4. CASE \/ Title \/ Bar \/ Label \/ PushSample \/ SummarizePhase
           \/ CountSample \/ Finish
  <2>1. UNCHANGED timelineVars /\ pc # "timeline"
    BY <1>4 DEF Title, Bar, Label, PushSample, SummarizePhase, CountSample,
                Finish
  <2> QED BY <2>1, LinedKept DEF Fresh, timelineVars
<1>5. CASE Terminated \/ UNCHANGED vars
  <2>1. UNCHANGED <<pc, timelineVars>>
    BY <1>5 DEF Terminated, vars
  <2> QED BY <2>1, LinedKept DEF Fresh, timelineVars
<1> QED
  BY <1>1, <1>2, <1>3, <1>4, <1>5 DEF Next, Panel

-----------------------------------------------------------------------------
(* Invariance of IInv. *)
THEOREM Invariance == Spec => []IInv
<1>1. Init => IInv
  <2> SUFFICES ASSUME Init PROVE IInv
    OBVIOUS
  <2>1. n = 0 /\ column = 0 /\ reached = 0 /\ x = <<0, 1>> /\ Fresh
    BY DEF Init, TimelineInit, Fresh
  <2>2. Lined
    BY <2>1, TimelineAssumption DEF Lined
  <2> QED BY <2>1, <2>2, InitLaid, InitTallied DEF IInv
<1>2. IInv /\ [Next]_vars => IInv'
  BY NextLaid, NextSampled, NextTallied, NextLined DEF IInv
<1> QED BY <1>1, <1>2, PTL DEF Spec

(* The title, the bar, and each label, histogram and timeline have a part  *)
(* of the height for themselves, within the height that render fixed       *)
(* before: for any phases and any samples.                                 *)
THEOREM DrawnApart == Spec => []BlocksApart
<1>1. IInv => BlocksApart
  <2> SUFFICES ASSUME IInv PROVE BlocksApart
    OBVIOUS
  <2>1. blocks # {} => Floor <= height
    <3>1. /\ Len(panels) \in Nat /\ drawn \in Nat /\ drawn <= Len(panels)
          /\ y \in Nat
      BY DEF IInv, Laid
    <3> QED BY <3>1 DEF IInv, Laid, Steps, Floor
  <2>2. blocks # {} => height \in Int /\ Floor \in Int
    <3>1. Len(panels) \in Nat
      BY DEF IInv, Laid
    <3> QED BY <3>1, FloorType DEF IInv, Laid
  <2>3. ASSUME NEW b \in blocks
        PROVE  0 <= b.top /\ b.top <= b.bottom /\ b.bottom <= height
    <3>1. /\ b.top \in Nat /\ b.bottom \in Nat
          /\ b.top <= b.bottom /\ b.bottom <= Floor
      BY DEF IInv, Stacked
    <3> QED BY <2>1, <2>2, <3>1
  <2> QED BY <2>3 DEF IInv, Stacked, Apart, BlocksApart
<1> QED BY <1>1, Invariance, PTL

(* No point and no column of a timeline is outside its plot.               *)
THEOREM DrawnInside == Spec => []InsidePlot
<1>1. IInv => InsidePlot
  BY LinedInside DEF IInv
<1> QED BY <1>1, Invariance, PTL

(* Each percentile is the smallest sample that its share of all samples    *)
(* does not exceed, for any number of samples.                             *)
THEOREM PercentilesAreNearestRanks == Spec => []NearestRank
<1>1. IInv => NearestRank
  <2> SUFFICES ASSUME IInv, Summarized, NEW name \in DOMAIN Quantile
               PROVE  IsNearestRank(values, summary[name], Quantile[name])
    BY DEF NearestRank
  <2>1. values \in Seq(Nat) /\ values # << >> /\ summary = Summary(values)
    BY DEF IInv, Sampled, Summarized
  <2>2. Summary(values)[name] = percentile(values, Quantile[name])
    BY Names DEF Summary, Quantile
  <2> QED BY <2>1, <2>2, PercentileIsNearestRank
<1> QED BY <1>1, Invariance, PTL

(* No sample is dropped between the bars and the annotation.               *)
THEOREM NoSampleDropped == Spec => []EverySampleCounted
<1>1. IInv => EverySampleCounted
  BY DEF IInv, Tallied, EverySampleCounted
<1> QED BY <1>1, Invariance, PTL

(* What the axis leaves out is at most one sample in a thousand.           *)
THEOREM TailIsBeyond == Spec => []OnlyTheTailIsBeyond
<1>1. IInv => OnlyTheTailIsBeyond
  <2> SUFFICES ASSUME IInv, Counted
      PROVE  /\ 1000 * beyond <= summary.n
             /\ beyond = Cardinality({i \in 1 .. summary.n :
                            values[i] > summary.p999 /\ values[i] > upper})
    BY DEF OnlyTheTailIsBeyond
  <2>1. Drawing /\ Sampled /\ Tallied /\ values \in Seq(Nat)
    BY DEF IInv, Counted, Sampled
  <2>2. /\ summary = Summary(values) /\ values # << >>
        /\ summary.n = Len(values) /\ summary.n \in Nat \ {0}
        /\ summary.p999 \in Nat /\ upper \in Nat
        /\ summary.p999 <= upper
    BY <2>1, Axis
  <2>3. next - 1 = summary.n
    BY <2>1, <2>2 DEF Tallied, Counted
  <2> DEFINE B == Beyond(summary.n)
             A == AtMost(values, summary.p999)
             D == 1 .. summary.n
  <2>4. beyond = Cardinality(B)
    BY <2>1, <2>3 DEF Tallied
  <2>5. B = {i \in D : values[i] > summary.p999 /\ values[i] > upper}
    <3>1. \A i \in D : values[i] \in Nat
      BY <2>1, <2>2
    <3> QED BY <2>2, <3>1 DEF Beyond
  <2>6. IsFiniteSet(D) /\ Cardinality(D) = summary.n
    BY <2>2, IndicesFinite
  <2>7. A \subseteq D /\ B \subseteq D \ A
    <3>1. \A i \in D : values[i] \in Nat
      BY <2>1, <2>2
    <3> QED BY <2>2, <2>5, <3>1 DEF AtMost
  <2>8. /\ IsFiniteSet(D \ A)
        /\ Cardinality(D \ A) = summary.n - Cardinality(A)
    <3>1. D \cap A = A
      BY <2>7
    <3> QED BY <2>6, <3>1, FS_Difference, ZenonT(30)
  <2>9. /\ Cardinality(B) <= summary.n - Cardinality(A)
        /\ Cardinality(B) \in Nat /\ Cardinality(A) \in Nat
    <3>1. IsFiniteSet(A)
      BY <2>6, <2>7, FS_Subset
    <3> QED BY <2>7, <2>8, <3>1, FS_Subset, FS_CardinalityType
  <2>10. 999 * summary.n <= 1000 * Cardinality(A)
    <3>1. IsNearestRank(values, percentile(values, Quantile["p999"]),
                        Quantile["p999"])
      BY <2>1, <2>2, PercentileIsNearestRank, Names
    <3>2. summary.p999 = percentile(values, Quantile["p999"])
      BY <2>2 DEF Summary, Quantile
    <3>3. Quantile["p999"][1] = 999 /\ Quantile["p999"][2] = 1000
      BY DEF Quantile
    <3> QED BY <2>2, <3>1, <3>2, <3>3 DEF IsNearestRank
  <2> HIDE DEF A, B, D
  <2>11. 1000 * Cardinality(B) <= summary.n
    BY <2>2, <2>9, <2>10
  <2> QED BY <2>4, <2>5, <2>11 DEF D
<1> QED BY <1>1, Invariance, PTL

(* Where a value is on the axis, and where the bar of its bucket is.       *)
LEMMA NearTheBar ==
  ASSUME NEW p \in Nat, NEW s \in Nat, NEW b \in Nat, NEW k \in Nat,
         p <= s, 2 * k * s - s <= 2 * p * (b - 1),
         2 * p * (b - 1) <= 2 * k * s + s
  PROVE  /\ (2 * k - 1) * s <= 2 * b * p
         /\ 2 * b * p <= (2 * k + 3) * s
<1>1. PICK m \in Nat : m = k * s
  OBVIOUS
<1>2. PICK r \in Nat : r = p * b
  OBVIOUS
<1>3. 2 * k * s = 2 * m /\ 2 * p * (b - 1) = 2 * r - 2 * p
  BY <1>1, <1>2
<1>4. /\ (2 * k - 1) * s = 2 * m - s /\ 2 * b * p = 2 * r
      /\ (2 * k + 3) * s = 2 * m + 3 * s
  BY <1>1, <1>2
<1> QED BY <1>3, <1>4

(* The markers of p50 and p99 stand on the bars of their samples.          *)
THEOREM MarkersFit == Spec => []MarkersStandOnBars
<1>1. IInv => MarkersStandOnBars
  <2> SUFFICES ASSUME IInv, Counted, NEW v \in {summary.p50, summary.p99}
      PROVE  /\ 0 <= Position(v) /\ Position(v) <= span
             /\ \E k \in Rounded(v) :
                  /\ buckets[k] > 0
                  /\ (2 * k - 1) * span <= 2 * BUCKETS * Position(v)
                  /\ 2 * BUCKETS * Position(v) <= (2 * k + 3) * span
    BY DEF MarkersStandOnBars
  <2>1. Drawing /\ Sampled /\ Tallied /\ values \in Seq(Nat)
    BY DEF IInv, Counted, Sampled
  <2>2. /\ summary = Summary(values) /\ values # << >>
        /\ summary.n = Len(values) /\ summary.n \in Nat \ {0}
        /\ summary.min \in Nat /\ upper \in Nat
        /\ summary.p999 \in Nat
        /\ summary.p999 <= upper /\ span \in Nat \ {0}
    BY <2>1, Axis
  <2>3. next - 1 = summary.n
    BY <2>1, <2>2 DEF Tallied, Counted
  <2>4. /\ v \in Nat /\ summary.min <= v /\ v <= summary.p999
        /\ \E i \in 1 .. Len(values) : v = values[i]
    BY <2>1, <2>2, SummaryOrdered
  <2>5. v <= upper
    BY <2>2, <2>4
  <2>6. Position(v) \in Nat /\ Position(v) <= span
    BY <2>2, <2>4, <2>5 DEF Position, span
  <2>7. PICK k \in Rounded(v) : buckets[k] > 0
    BY <2>1, <2>2, <2>3, <2>4, <2>5 DEF Tallied
  <2>8. /\ k \in Nat /\ BUCKETS \in Nat
        /\ 2 * k * span - span <= 2 * Position(v) * (BUCKETS - 1)
        /\ 2 * Position(v) * (BUCKETS - 1) <= 2 * k * span + span
    BY <2>7, HistogramAssumption DEF Rounded, Bucket, Position
  <2>9. PICK p \in Nat, s \in Nat, b \in Nat :
          p = Position(v) /\ s = span /\ b = BUCKETS
    BY <2>2, <2>6, <2>8
  <2>10. p <= s /\ 2 * k * s - s <= 2 * p * (b - 1)
         /\ 2 * p * (b - 1) <= 2 * k * s + s
    <3> HIDE DEF span, Position
    <3> QED BY <2>6, <2>8, <2>9
  <2>11. (2 * k - 1) * s <= 2 * b * p /\ 2 * b * p <= (2 * k + 3) * s
    BY <2>8, <2>10, NearTheBar
  <2>12. 0 <= Position(v)
    BY <2>6
  <2> QED BY <2>6, <2>7, <2>9, <2>11, <2>12
<1> QED BY <1>1, Invariance, PTL
=============================================================================
