------------------------------ MODULE Histogram -----------------------------
(***************************************************************************)
(* histogram of src/src/chart.rs: the samples of a phase, pushed as in     *)
(* Stats, are counted in buckets of equal width between the smallest one   *)
(* and p999, and p50 and p99 are marked on the same axis. The x of a bar   *)
(* and of a marker are fractions of the plot's width.                      *)
(***************************************************************************)
EXTENDS Stats

CONSTANTS
  BUCKETS,  \* 48
  Lengths,  \* how many samples a benchmark may leave
  Unknown   \* no summary yet

ASSUME HistogramAssumption ==
  BUCKETS \in Nat \ {0, 1} /\ Lengths \subseteq 1 .. MaxSamples

VARIABLES
  summary,  \* of the samples
  next,     \* the sample to be counted next
  buckets,  \* the samples of each bucket
  beyond    \* those beyond the last

counting      == <<next, buckets, beyond>>
histogramVars == <<values, summary, counting>>

Bucket == 0 .. BUCKETS - 1

HistogramInit ==
  /\ values = << >> /\ summary = Unknown /\ next = 1
  /\ buckets = [k \in Bucket |-> 0] /\ beyond = 0

Summarize ==
  /\ summary = Unknown /\ Len(values) \in Lengths
  /\ summary' = Summary(values)
  /\ UNCHANGED <<values, counting>>

-----------------------------------------------------------------------------
(* Mutant: the axis ends at p99.                                           *)
UpperP99 == IF summary.p99 > summary.min + 1 THEN summary.p99
                                             ELSE summary.min + 1

upper == IF summary.p999 > summary.min + 1 THEN summary.p999
                                           ELSE summary.min + 1
span  == upper - summary.min

(* Mutant: the fraction is cut off.                                        *)
CutOff(v) == {((v - summary.min) * (BUCKETS - 1)) \div span}

(* The bucket next to v on an axis of BUCKETS - 1 steps. Half way between  *)
(* two buckets, the error of the division decides.                         *)
Rounded(v) ==
  LET double == 2 * (v - summary.min) * (BUCKETS - 1)
  IN  {k \in Bucket : 2 * k * span - span <= double
                        /\ double <= 2 * k * span + span}

(* Mutant: what is beyond is not counted.                                  *)
CountInside ==
  /\ summary # Unknown /\ next <= summary.n
  /\ next' = next + 1
  /\ IF values[next] > upper
     THEN UNCHANGED buckets
     ELSE \E k \in Rounded(values[next]) :
            buckets' = [buckets EXCEPT ![k] = @ + 1]
  /\ UNCHANGED <<values, summary, beyond>>

Count ==
  /\ summary # Unknown /\ next <= summary.n
  /\ next' = next + 1
  /\ IF values[next] > upper
     THEN beyond' = beyond + 1 /\ UNCHANGED buckets
     ELSE /\ \E k \in Rounded(values[next]) :
               buckets' = [buckets EXCEPT ![k] = @ + 1]
          /\ UNCHANGED beyond
  /\ UNCHANGED <<values, summary>>

Counted == summary # Unknown /\ next > summary.n

-----------------------------------------------------------------------------
Summarized == summary # Unknown /\ next = 1

(* stats.rs:117: each percentile that is printed is the smallest sample    *)
(* that a share q of all samples does not exceed, for any number of them.  *)
NearestRank ==
  Summarized =>
    \A name \in DOMAIN Quantile :
      IsNearestRank(values, summary[name], Quantile[name])

(* The samples in a bar.                                                   *)
InBars ==
  LET sum[k \in 0 .. BUCKETS] ==
        IF k = 0 THEN 0 ELSE sum[k - 1] + buckets[k - 1]
  IN  sum[BUCKETS]

(* No sample is dropped: one that is not in a bar is in the annotation.    *)
EverySampleCounted == InBars + beyond = next - 1

(* README.md:150-152: what the axis leaves out is an outlier: no more than *)
(* one sample in a thousand, and slower than all that are in a bar.        *)
OnlyTheTailIsBeyond ==
  Counted =>
    /\ 1000 * beyond <= summary.n
    /\ beyond = Cardinality({i \in 1 .. summary.n : values[i] > summary.p999
                                                  /\ values[i] > upper})

(* position(v), as a numerator over span.                                  *)
Position(v) == v - summary.min

(* A marker stands on a bar its sample is in, or at most half a bar's      *)
(* width beside it: the BUCKETS bars are drawn side by side, though their  *)
(* values are those of BUCKETS - 1 steps. It never leaves the plot.        *)
MarkersStandOnBars ==
  Counted =>
    \A v \in {summary.p50, summary.p99} :
      /\ 0 <= Position(v) /\ Position(v) <= span
      /\ \E k \in Rounded(v) :
           /\ buckets[k] > 0
           /\ (2 * k - 1) * span <= 2 * BUCKETS * Position(v)
           /\ 2 * BUCKETS * Position(v) <= (2 * k + 3) * span
=============================================================================
