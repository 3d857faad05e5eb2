SPECIFICATION Spec
CONSTANTS
  Threads = {t1, t2, t3}
  NumKeys = 7
  LeafSpace = 8
  SplitThreshold = 6
  IndexEntrySize = 1
  IndexMax = 3
  MaxRetries = 1
  Scenarios <- MCScenarios
INVARIANT CommittedFound LookupFresh ScanComplete UniqueOnce AssertionsHold
PROPERTY Returns
