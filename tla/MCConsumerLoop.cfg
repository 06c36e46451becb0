CONSTANTS
  Messages = 4
  ChanCap = 1
  BatchSize = 2
SPECIFICATION Spec
CHECK_DEADLOCK FALSE
INVARIANTS
  TypeOK
  HandledIsOnItsWay
  ShutdownLosesNothing
PROPERTIES
  KeepsConsumerPromise
  StopReturns
