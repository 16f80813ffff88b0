\* A token that cannot serve the public key of a generated pair.
SPECIFICATION Spec
CONSTANTS
  k1 = k1
  k2 = k2
  new = new
  NoPair = NoPair
  NoHandle = NoHandle
  Probe = Probe
  NoDer = NoDer
  BadDer = BadDer
  NewPair <- new
  CallerPairs <- OnePair
  MayFail <- NoPublicKey
  SignFaults <- NoFaults
  LaxSearch = FALSE
  Signals <- NoSignals
  MaxWarmup = 0
  Configs <- FreshKeySingle
INVARIANT DestroyedOnExit
