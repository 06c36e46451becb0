CONSTANTS
  t1 = t1
  t2 = t2
  Tasks <- MCTasks
  Faults <- MCFaults
  AutoCommits = {TRUE}
SPECIFICATION GatewaySpec
CHECK_DEADLOCK FALSE
INVARIANTS
  GatewayTypeOK
  ServesWithBucket
  OrderlyExitCutsNobody
  PoolClosedLast
  DroppedWereGivenUp
PROPERTIES
  KeepsPromise
  SignalEndsProcess
