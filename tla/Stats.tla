-------------------------------- MODULE Stats -------------------------------
(***************************************************************************)
(* Samples and Summary of src/src/stats.rs: the figures of one phase, of   *)
(* the samples pushed so far. Nanoseconds are integers, the q of a         *)
(* percentile is a fraction, <<numerator, denominator>>: the f64 product   *)
(* q * len, rounded up, is the exact one for each q below and every length *)
(* up to 200000. Sum, mean and standard deviation are left out.            *)
(***************************************************************************)
EXTENDS Integers, Sequences, FiniteSets

CONSTANTS
  Nanos(_, _),  \* what a sample of a phase may be, after those there are
  MaxSamples    \* bound on their number

ASSUME StatsAssumption == MaxSamples \in Nat

VARIABLE values  \* the samples of a phase

(* as_nanos() is not negative.                                             *)
Measured(phase) == Nanos(phase, values) \cap Nat

Push(phase) ==
  /\ Len(values) < MaxSamples
  /\ \E v \in Measured(phase) : values' = Append(values, v)

-----------------------------------------------------------------------------
(* The samples that sort_unstable puts no later than sample i: equal ones  *)
(* are alike, and stay here as they came.                                  *)
UpTo(s, i) ==
  {j \in 1 .. Len(s) : s[j] < s[i] \/ (s[j] = s[i] /\ j <= i)}

(* sorted[k - 1]                                                           *)
Sorted(s, k) == s[CHOOSE i \in 1 .. Len(s) : Cardinality(UpTo(s, i)) = k]

Quantile == [p50 |-> <<1, 2>>, p90 |-> <<9, 10>>, p99 |-> <<99, 100>>,
             p999 |-> <<999, 1000>>]

(* Mutant: the sample below, and the first for want of one.                *)
RankDown(q, n) ==
  LET down == (q[1] * n) \div q[2] IN IF down = 0 THEN 1 ELSE down

(* ceil(q * n): 1, 2, ..., n.                                              *)
Rank(q, n) == (q[1] * n + q[2] - 1) \div q[2]

(* sorted[(rank - 1).min(len - 1)]                                        *)
percentile(s, q) ==
  LET n    == Len(s)
      rank == Rank(q, n)
  IN  Sorted(s, IF rank <= n THEN rank ELSE n)

(* Of a nonempty sequence.                                                 *)
Summary(s) ==
  [n |-> Len(s), min |-> Sorted(s, 1), max |-> Sorted(s, Len(s)),
   p50 |-> percentile(s, Quantile.p50), p90 |-> percentile(s, Quantile.p90),
   p99 |-> percentile(s, Quantile.p99), p999 |-> percentile(s, Quantile.p999)]

-----------------------------------------------------------------------------
AtMost(s, v) == {i \in 1 .. Len(s) : s[i] <= v}
Below(s, v)  == {i \in 1 .. Len(s) : s[i] < v}

(* A share q of the samples, and no smaller one, is at most the percentile.*)
IsNearestRank(s, v, q) ==
  /\ q[1] * Len(s) <= q[2] * Cardinality(AtMost(s, v))
  /\ q[2] * Cardinality(Below(s, v)) < q[1] * Len(s)
=============================================================================
