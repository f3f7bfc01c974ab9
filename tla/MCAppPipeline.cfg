SPECIFICATION FairSpec
CONSTANTS
  Processors = 2
  Threads <- MCThreads
  Wrappers <- MCWrappers
  Grow = 2
  MaxObjects = 5
  QueueSize = 1
  MaxPackets = 2
  Workloads <- MCWorkloads
CHECK_DEADLOCK FALSE
INVARIANTS
  TypeOK
  OneOwner
  
  NeverNull
  
PROPERTIES
  AllHandled
