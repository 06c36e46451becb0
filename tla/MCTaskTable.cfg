CONSTANTS
  t1 = t1
  s1 = s1
  s2 = s2
  Tasks <- MCTasks
  Sessions <- MCSessions
  Skew = 1
  MaxTime = 3
SPECIFICATION TableSpec
SYMMETRY MCSymmetry
CHECK_DEADLOCK FALSE
INVARIANTS
  TableTypeOK
  NoUpdateRefused
  StartPrecedesCompletion
  FinishedHasCompletion
  UnstartedHadEnded
