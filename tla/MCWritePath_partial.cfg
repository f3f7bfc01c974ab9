SPECIFICATION FairWriteSpec
CONSTANTS
  BufferSize = 4
  Proc = proc
  NoThread = NoThread
  MaxBytes = 5
  MaxRequests = 2
  SocketRoom = 2
  Sockets <- SmallMark
  Pushers <- OnlyProc
  PushLens = {1, 2, 3}
  DirectLens = {1, 2}
PROPERTIES
  Flushed
