\* A warmup longer than its messages.
SPECIFICATION Spec
CONSTANTS
  k1 = k1
  k2 = k2
  new = new
  NoPair = NoPair
  NoHandle = NoHandle
  Probe = Probe
  NoDer = NoDer
  BadDer = BadDer
  NewPair <- new
  CallerPairs <- OnePair
  MayFail <- Nothing
  SignFaults <- NoFaults
  LaxSearch = FALSE
  Signals <- NoSignals
  MaxWarmup = 3
  Configs <- TimedWarmup
INVARIANT PayloadsUnique
