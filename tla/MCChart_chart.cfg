\* Both curves: every short sequence of samples, and long ones beyond the
\* lengths at which the percentiles part and the timeline becomes an envelope.
SPECIFICATION Spec
CONSTANTS
  Unknown = Unknown
  Nanos <- SomeNanos
  MaxSamples = 1003
  BUCKETS = 5
  Lengths <- SomeLengths
  POINTS = 60
  COLUMNS = 16
  Panels <- BothCurves
INVARIANTS NearestRank MarkersStandOnBars EverySampleCounted OnlyTheTailIsBeyond InsidePlot BlocksApart
