SPECIFICATION Spec
CONSTANTS
  BufferSize = 5
  Proc = proc
  other = other
  NoThread = NoThread
  MaxBytes = 7
  Pushers <- ProcAndOther
  PushLens <- MCPushLens
INVARIANTS
  TypeOK
  IndexInRange
  AccessInRange
  NoUninitialisedByte
