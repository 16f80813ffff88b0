\* Two invocations of up to three trials, every command failing, every
\* interrupt, a port that is free or taken.
SPECIFICATION Spec
CONSTANTS
  Foreign = Foreign
  NoServer = NoServer
  MaxInvocations = 2
  MaxRuns = 3
  MaxTries = 1
  Iterations = 2
  Times <- TwoTimes
  MayListen <- AnyPort
  Interrupts <- BothInterrupts
  MayFail <- AllCommands
INVARIANTS NothingLeftBehind OneServer RepresentativeIsMedian ReportNeverAhead PublishesOneTrial
PROPERTY Ends
