SPECIFICATION Spec
CONSTANTS
  Threads = 1
  MaxWaitEvent = 2
  Fds <- TwoFds
  Sessions <- ThreeSessions
  Acceptors <- ListeningAndConnecting
  Endings <- AllEndings
  OnConnectSends = FALSE
  FewSessions <- TwoSessions
  AppCloses <- MaybeOrNever
INVARIANTS
  TypeOK
  WatchConsistent
  
  ProcessorUsesLive
CHECK_DEADLOCK FALSE
