CONSTANTS
  t1 = t1
  t2 = t2
  Tasks <- MCTasks
  Faults <- MCPlainFaults
SPECIFICATION IntakeSpec
CHECK_DEADLOCK FALSE
INVARIANTS
  RefusalRecorded
