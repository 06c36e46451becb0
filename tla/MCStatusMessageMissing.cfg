CONSTANTS
  HeaderValues <- MCHeaderValues
  MaxHeaders = 3
SPECIFICATION Spec
CHECK_DEADLOCK FALSE
INVARIANTS
  MissingStatusRejected
