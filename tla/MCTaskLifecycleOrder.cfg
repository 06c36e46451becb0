CONSTANTS
  t1 = t1
  r1 = r1
  r2 = r2
  Tasks <- MCOneTask
  Replicas <- MCOneReplica
  Faults <- MCNone
  Hiccups <- MCRestart
  AutoCommit = TRUE
  NewGroup = FALSE
  MaxAttempts = 1
  MaxMoves = 1
SPECIFICATION LifeSpec
CHECK_DEADLOCK FALSE
PROPERTIES
  StatusMovesForward
