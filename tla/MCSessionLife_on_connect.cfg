SPECIFICATION Spec
CONSTANTS
  Threads = 1
  MaxWaitEvent = 2
  Fds <- TwoFds
  Sessions <- ThreeSessions
  Acceptors <- Listening
  Endings <- Served
  OnConnectSends = TRUE
  FewSessions <- TwoSessions
  AppCloses <- Never
INVARIANT OnConnectAlive
CHECK_DEADLOCK FALSE
