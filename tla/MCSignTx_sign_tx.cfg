\* Every way to a key, every length of the loops, every call failing, both
\* signals: what a run keeps to, and that it ends.
SPECIFICATION Spec
CONSTANTS
  k1 = k1
  k2 = k2
  new = new
  NoPair = NoPair
  NoHandle = NoHandle
  Probe = Probe
  NoDer = NoDer
  BadDer = BadDer
  NewPair <- new
  CallerPairs <- TwoPairs
  MayFail <- AllCalls
  SignFaults <- AllFaults
  LaxSearch = TRUE
  Signals <- BothSignals
  MaxWarmup = 4
  Configs <- AllConfigs
INVARIANTS IInv CallerKeysSurvive SignerAgrees TornDown GeneratedKeyAccounted OperationDiscipline FreshPayload PublishedRunIsComplete
PROPERTIES KeepsCustody KeepsMeasurement OutputIsGenuine Termination InterruptEndsRun
