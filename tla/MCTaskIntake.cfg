CONSTANTS
  t1 = t1
  t2 = t2
  Tasks <- MCTasks
  Faults <- MCFaults
SPECIFICATION IntakeSpec
CHECK_DEADLOCK FALSE
INVARIANTS
  IntakeTypeOK
  AcceptedIsWhole
  OneCommand
  RefusedLeavesNoFile
  LateCommandNeedsTimeout
  RefusalRecordedInTime
PROPERTIES
  KeepsPromise
  EveryRequestAnswered
