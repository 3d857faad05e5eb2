SPECIFICATION Spec
CONSTANTS
  NumKeys = 3
  TargetFanout = 2
  TupleLimit = 1
  IncorporationSize = 0
  Threads = {w1, w2}
  Bounds <- MCBounds
SYMMETRY Symmetry
CHECK_DEADLOCK FALSE
INVARIANT LookupsRight SnapshotIntact RefsBalanced StatsExact NotStranded AssertionsHold
