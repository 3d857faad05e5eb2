\* Iterators of the key-value interface that only go forwards
SPECIFICATION Spec
CONSTANTS
  NumKeys = 3
  MaxTurns = 0
  Databases <- MCDatabases
  Openings <- ApiOpenings
INVARIANT NothingSkipped
CHECK_DEADLOCK FALSE
