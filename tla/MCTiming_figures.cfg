\* Two iterations after a warmup, with every outcome of every call.
SPECIFICATION Spec
CONSTANTS
  Old = Old
  None = None
  NaN = NaN
  Curves <- BothCurves
  Formats <- BothFormats
  Iterations = 2
  Warmup = 1
  WarmupTime = 1
  MaxWarmup = 2
  Ticks <- SomeTicks
  MayFail <- AllCalls
INVARIANTS PhasesAddUp SharesAreShares FileHoldsRun
