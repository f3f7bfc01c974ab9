SPECIFICATION Spec
CONSTANTS
  Count = 1
  MayFail = FALSE
  MaxPending = 1
  MaxArrivals = 2
PROPERTY StopReturns
CHECK_DEADLOCK FALSE
