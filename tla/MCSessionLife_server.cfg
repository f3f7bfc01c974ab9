SPECIFICATION FairSpec
CONSTANTS
  Threads = 2
  MaxWaitEvent = 1
  Fds <- TwoFds
  Sessions <- ThreeSessions
  Acceptors <- Listening
  Endings <- Served
  OnConnectSends = TRUE
  FewSessions <- TwoSessions
  AppCloses <- Never
INVARIANT SessionExclusive
PROPERTIES
  EndedIsReleased
CHECK_DEADLOCK FALSE
