SPECIFICATION Spec
CONSTANTS
  RecvBufSize = 4
  MaxStream = 11
  ReadPacket <- FramedReadPacket
  FrameLens <- FittingFrames
  FrameEnds <- PacketEnds
CHECK_DEADLOCK FALSE
INVARIANTS
  TypeOK
  StreamPreserved
  ClosedByPeer
  PacketsAreFrames
PROPERTIES
  FramesArrive
