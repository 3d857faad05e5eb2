SPECIFICATION Spec
CONSTANTS
  NumKeys = 3
  MaxTurns = 2
  Databases <- MCDatabases
  Openings <- MCOpenings
INVARIANT StepRight MergeOrdered
PROPERTY Progresses
CHECK_DEADLOCK FALSE
