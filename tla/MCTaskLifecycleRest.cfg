CONSTANTS
  t1 = t1
  r1 = r1
  r2 = r2
  Tasks <- MCOneTask
  Replicas <- MCReplicas
  Faults <- MCLossless
  Hiccups <- MCMoves
  AutoCommit = FALSE
  NewGroup = FALSE
  MaxAttempts = 1
  MaxMoves = 2
SPECIFICATION LifeSpec
CHECK_DEADLOCK FALSE
INVARIANTS
  SettledShowsLastEvent
PROPERTIES
  GroupKeepsPromise
  AcceptedComesToRest
