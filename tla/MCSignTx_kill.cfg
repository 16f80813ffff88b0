\* A signal to a run that has no handler for it.
SPECIFICATION Spec
CONSTANTS
  k1 = k1
  k2 = k2
  new = new
  NoPair = NoPair
  NoHandle = NoHandle
  Probe = Probe
  NoDer = NoDer
  BadDer = BadDer
  NewPair <- new
  CallerPairs <- OnePair
  MayFail <- Nothing
  SignFaults <- NoFaults
  LaxSearch = FALSE
  Signals <- BothSignals
  MaxWarmup = 0
  Configs <- FreshKeySingle
INVARIANT DestroyedOnSignal
