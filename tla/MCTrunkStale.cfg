SPECIFICATION Spec
CONSTANTS
  NumKeys = 1
  TargetFanout = 2
  TupleLimit = 1
  IncorporationSize = 0
  Threads = {w1, w2}
  Bounds <- StaleBounds
SYMMETRY Symmetry
CHECK_DEADLOCK FALSE
INVARIANT NewBundlesFound
