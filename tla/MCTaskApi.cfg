CONSTANTS
  t1 = t1
  r1 = r1
  r2 = r2
  Tasks <- MCTasks
  Replicas <- MCReplicas
  Faults <- MCAllFaults
  Hiccups <- MCAllHiccups
  AutoCommit = TRUE
  NewGroup = TRUE
  MaxAttempts = 1
  MaxMoves = 1
SYMMETRY MCSymmetry
VIEW MCView
SPECIFICATION ApiSpec
CHECK_DEADLOCK FALSE
INVARIANTS
  ApiTypeOK
  MessagesHaveRows
  StatusIsCaused
  AnswersFit
  RefusedIsNotWorkedOn
PROPERTIES
  PollsGoForward
