SPECIFICATION FairSpec
CONSTANTS
  Fds <- TwoFds
  Sessions <- TwoSessions
  SendBufSize = 3
  Lengths <- OneOrTwo
  MaxRequests <- Requests
  Endings <- Ends
  MaxStalls <- Stalls
CHECK_DEADLOCK FALSE
INVARIANTS
  TypeOK
  FilterOn
PROPERTIES
  RefusesOnlyFull
  Flushed
  Heard
