CONSTANTS
  UDI_CDC_BUFFERS = 2
  ZlpAfter = 2
  MaxWrite = 3
  Mod = 5
  Env = {}
SPECIFICATION FairSpec
CHECK_DEADLOCK FALSE
INVARIANTS
  TypeOK
  RoomKept
  ByteKept
PROPERTIES
  ToHostPipe
  FromHostPipe
  WriteEnds
