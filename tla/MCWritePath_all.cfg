SPECIFICATION FairWriteSpec
CONSTANTS
  BufferSize = 4
  Proc = proc
  NoThread = NoThread
  MaxBytes = 6
  MaxRequests = 2
  SocketRoom = 4
  Sockets <- AllSockets
  Pushers <- OnlyProc
  PushLens = {1, 2, 3}
  DirectLens = {1, 2}
INVARIANTS
  NothingLost
  
  
PROPERTIES
  ImplementsStream
  
