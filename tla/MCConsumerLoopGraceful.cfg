CONSTANTS
  Messages = 3
  ChanCap = 1
  BatchSize = 2
SPECIFICATION Spec
CHECK_DEADLOCK FALSE
INVARIANTS
  ShutdownIsGraceful
