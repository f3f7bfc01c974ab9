SPECIFICATION Spec
CONSTANTS
  Count = 2
  MayFail = TRUE
  MaxPending = 2
  MaxArrivals = 3
INVARIANT StoppedMeansJoined
PROPERTY PendingAccepted
CHECK_DEADLOCK FALSE
